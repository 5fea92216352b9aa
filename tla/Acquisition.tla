----------------------------- MODULE Acquisition -----------------------------
(***************************************************************************)
(* From the PKGBUILD's sources to the files a build finds in SRCDEST       *)
(* (internal/egress/acquire.go, allowance.go, address.go; build.go:        *)
(* acquireDeclaredSources, pinAcquiredSources, the persisted source plan). *)
(* The verify phase freezes what the contained evaluation declares,        *)
(* fetches each plain source itself and saves the plan; the sandboxes of   *)
(* this and later phases get the store with every fetched file pinned.     *)
(*                                                                         *)
(* Servers, resolvers and the other writers of the disk are the            *)
(* environment.  One byte is the unit; a body is named by its URL and the  *)
(* bytes of it that arrived.                                               *)
(***************************************************************************)
EXTENDS Naturals, Integers, Sequences, FiniteSets, SequencesExt, FiniteSetsExt

CONSTANTS
  Declarations,   \* sequences of sources a PKGBUILD may evaluate to
  MaxDeclared,    \* MaxDeclaredSources
  Names,          \* names of entries of the store
  Addresses,      \* what a name may resolve to
  Reserved,       \* those outside globally routable space
  Own,            \* those of the machine and of the networks it is attached to
  MaxBody,        \* bound on the bytes of a body
  MaxHops,        \* maxRedirectHops
  Budget,         \* network.max_transfer_bytes
  Disk,           \* bytes of the file system
  Reserve,        \* bytes that must stay free
  MaxRuns         \* bound on verify phases of one transaction

\* A source is [kind |-> "local"], [kind |-> "vcs", host |-> h],
\* [kind |-> "exact", url |-> u, name |-> n], or [kind |-> "unusable"]: no host to
\* check out from, or no plain name to save under.
ASSUME AcquisitionConstants ==
  /\ Reserved \subseteq Addresses /\ Own \subseteq Addresses /\ Reserve \in 0 .. Disk
  /\ {MaxDeclared, MaxBody, MaxHops, Budget, Disk, MaxRuns} \subseteq Nat
  /\ \A d \in Declarations :
       /\ d \in Seq(ToSet(d))
       /\ \A i \in DOMAIN d :
            d[i].kind = "exact" =>
              d[i].name \in Names /\ d[i].url \notin {"absent", "foreign", "checkout"}

VARIABLES
  pc,         \* where the transaction is
  runs,       \* verify phases so far
  allowance,  \* the frozen sources
  index,      \* the source that is acquired
  hops,       \* redirects followed for it
  conn,       \* the address it is fetched from
  body,       \* bytes the server is going to send
  written,    \* bytes of it on disk
  limit,      \* bytes the copy may take
  measured,   \* history: the file system told its free space when the copy began
  remaining,  \* the budget that is left
  spent,      \* history: bytes written in this run
  store,      \* per name, the bytes in SRCDEST
  plan,       \* the persisted source plan
  pins,       \* names bound read-only into the running sandbox
  free,       \* free bytes of the file system
  taken       \* history: bytes others took since the copy began

fetch == <<index, hops, conn, body, written, limit, measured, remaining, spent>>
files == <<store, plan, pins>>
disk == <<free, taken>>
vars == <<pc, runs, allowance, fetch, files, disk>>

Nobody == "nobody"
Unplanned == <<[kind |-> "unplanned"]>>
Absent == [url |-> "absent", bytes |-> 0, whole |-> FALSE]
Foreign == [url |-> "foreign", bytes |-> 0, whole |-> TRUE]
Checkout == [url |-> "checkout", bytes |-> 0, whole |-> TRUE]   \* a VCS directory

Init ==
  /\ pc = "idle" /\ runs = 0 /\ allowance = <<>>
  /\ index = 0 /\ hops = 0 /\ conn = Nobody /\ body = 0 /\ written = 0 /\ limit = 0
  /\ measured = FALSE /\ remaining = 0 /\ spent = 0
  /\ store = [n \in Names |-> Absent] /\ plan = Unplanned /\ pins = {}
  /\ free \in {Reserve, Disk} /\ taken = 0

Source == allowance[index]

\* AddressPolicy.Public.
Public == {a \in Addresses : a \notin Reserved /\ a \notin Own}

----------------------------------------------------------------------------
(* The freeze and the loop over the frozen sources.                        *)

\* Mutant of ParseSrcinfoSources: what does not fit is left out.
ParseSrcinfoSources_truncates(d) ==
  [ok |-> TRUE, sources |-> SubSeq(d, 1, IF Len(d) < MaxDeclared THEN Len(d) ELSE MaxDeclared)]

\* An error rather than a part of the set; an entry that is repeated counts once.
ParseSrcinfoSources(d) ==
  LET distinct == FoldLeft(LAMBDA acc, s : IF Contains(acc, s) THEN acc ELSE Append(acc, s),
                           <<>>, d)
  IN  [ok |-> Len(distinct) <= MaxDeclared, sources |-> distinct]

\* The contained evaluation prints what it likes, or fails.
FreezeDeclaredSources ==
  /\ pc = "idle" /\ runs < MaxRuns /\ runs' = runs + 1
  /\ \/ \E d \in Declarations :
          LET parsed == ParseSrcinfoSources(d) IN
          IF parsed.ok
          THEN allowance' = parsed.sources /\ pc' = "frozen"
          ELSE pc' = "failed" /\ UNCHANGED allowance
     \/ pc' = "failed" /\ UNCHANGED allowance
  /\ UNCHANGED <<fetch, files, disk>>

\* AcquireWithProgress begins, unless the interfaces of the machine cannot be
\* enumerated.
NewAcquisition ==
  /\ pc = "frozen" /\ pc' \in {"next", "failed"}
  /\ index' = 1 /\ remaining' = Budget /\ spent' = 0
  /\ UNCHANGED <<runs, allowance, hops, conn, body, written, limit, measured, files, disk>>

\* Local files and VCS repositories are not fetched.
SkipSource ==
  /\ pc = "next" /\ index <= Len(allowance) /\ Source.kind \in {"local", "vcs"}
  /\ index' = index + 1
  /\ UNCHANGED <<pc, runs, allowance, hops, conn, body, written, limit, measured, remaining, spent,
                 files, disk>>

RefuseSource ==
  /\ pc = "next" /\ index <= Len(allowance) /\ Source.kind = "unusable"
  /\ pc' = "failed"
  /\ UNCHANGED <<runs, allowance, fetch, files, disk>>

\* A file system that does not tell its free space is not held against the fetch.
checkReserve(told) == told => free >= Reserve
headroom == IF free' > Reserve THEN free' - Reserve ELSE 0
Permits(url) == \E i \in DOMAIN allowance : allowance[i].kind = "exact" /\ allowance[i].url = url

\* The time of the acquisition may be used up.
BeginFetch ==
  /\ pc = "next" /\ index <= Len(allowance) /\ Source.kind = "exact"
  /\ \/ \E told \in BOOLEAN :
          pc' = IF Permits(Source.url) /\ checkReserve(told) THEN "dial" ELSE "failed"
     \/ pc' = "failed"
  /\ hops' = 0 /\ conn' = Nobody
  /\ UNCHANGED <<runs, allowance, index, body, written, limit, measured, remaining, spent, files, disk>>

\* Mutant of checkedDialer: the name is resolved again for the connection.
checkedDialer_resolvesAgain ==
  /\ pc = "dial"
  /\ \E answer \in SUBSET Addresses \ {{}} :
       IF answer \subseteq Public
       THEN \E a \in Addresses : conn' = a /\ pc' = "response"
       ELSE conn' = Nobody /\ pc' = "failed"
  /\ UNCHANGED <<runs, allowance, index, hops, body, written, limit, measured, remaining, spent,
                 files, disk>>

\* One resolution; nothing of it is dialled unless all of it is public.  The
\* name may not resolve, or no address may answer.
checkedDialer ==
  /\ pc = "dial"
  /\ \/ \E answer \in SUBSET Public : \E a \in answer : conn' = a /\ pc' = "response"
     \/ conn' = Nobody /\ pc' = "failed"
  /\ UNCHANGED <<runs, allowance, index, hops, body, written, limit, measured, remaining, spent,
                 files, disk>>

\* The server sends the client on; every hop is dialled anew.
CheckRedirect ==
  /\ pc = "response" /\ hops' = hops + 1 /\ conn' = Nobody
  /\ pc' = IF hops' >= MaxHops THEN "failed" ELSE "dial"
  /\ UNCHANGED <<runs, allowance, index, body, written, limit, measured, remaining, spent, files, disk>>

\* Another status than OK, or a target that cannot be opened: a directory, a link.
RefuseStatus ==
  /\ pc = "response" /\ pc' = "failed" /\ conn' = Nobody
  /\ UNCHANGED <<runs, allowance, index, hops, body, written, limit, measured, remaining, spent,
                 files, disk>>

\* Mutant of OpenTarget: the reserve is only looked at before the request.
OpenTarget_unbounded ==
  /\ pc = "response" /\ pc' = "copy"
  /\ \E n \in 0 .. MaxBody : body' = n
  /\ store' = [store EXCEPT ![Source.name] = [Absent EXCEPT !.url = Source.url]]
  /\ free' = free + store[Source.name].bytes /\ taken' = 0
  /\ written' = 0 /\ measured' = TRUE /\ limit' = remaining
  /\ UNCHANGED <<runs, allowance, index, hops, conn, remaining, spent, plan, pins>>

\* The file is truncated first; what may be written is the budget that is left or
\* the room above the reserve, whichever is smaller, where the file system tells it.
OpenTarget ==
  /\ pc = "response" /\ store[Source.name] # Checkout /\ pc' = "copy"
  /\ \E n \in 0 .. MaxBody : body' = n
  /\ store' = [store EXCEPT ![Source.name] = [Absent EXCEPT !.url = Source.url]]
  /\ free' = free + store[Source.name].bytes /\ taken' = 0
  /\ written' = 0 /\ measured' \in BOOLEAN
  /\ limit' = IF measured' /\ headroom < remaining THEN headroom ELSE remaining
  /\ UNCHANGED <<runs, allowance, index, hops, conn, remaining, spent, plan, pins>>

\* io.Copy through the limit of one byte more than is allowed.
CopyByte ==
  /\ pc = "copy" /\ written < body /\ written < limit + 1 /\ free > 0
  /\ written' = written + 1 /\ spent' = spent + 1 /\ free' = free - 1
  /\ store' = [store EXCEPT ![Source.name].bytes = written + 1]
  /\ UNCHANGED <<pc, runs, allowance, index, hops, conn, body, limit, measured, remaining, plan, pins,
                 taken>>

\* Mutant of EndCopy: the partial file of a transfer that broke off is kept.
EndCopy_keepsPartial(broken) ==
  /\ remaining' = IF written > remaining THEN 0 ELSE remaining - written
  /\ store' = [store EXCEPT ![Source.name].whole = ~broken /\ written = body]
  /\ IF broken \/ written > limit
     THEN pc' = "failed" /\ UNCHANGED index
     ELSE pc' = "next" /\ index' = index + 1
  /\ conn' = Nobody /\ written' = 0
  /\ UNCHANGED <<runs, allowance, hops, body, limit, measured, spent, plan, pins, disk>>

\* What follows the copy, broken off or not: every failure removes the file.
EndCopy(broken) ==
  /\ remaining' = IF written > remaining THEN 0 ELSE remaining - written
  /\ IF broken \/ written > limit
     THEN /\ pc' = "failed" /\ UNCHANGED index
          /\ store' = [store EXCEPT ![Source.name] = Absent]
          /\ free' = free + written
     ELSE /\ pc' = "next" /\ index' = index + 1
          /\ store' = [store EXCEPT ![Source.name].whole = (written = body)]
          /\ UNCHANGED free
  /\ conn' = Nobody /\ written' = 0
  /\ UNCHANGED <<runs, allowance, hops, body, limit, measured, spent, plan, pins, taken>>

\* The body is over, or the limit is reached.
CopyEnds == pc = "copy" /\ (written = body \/ written = limit + 1) /\ EndCopy(FALSE)

\* The disk is full, or the connection breaks.
CopyBreaks == pc = "copy" /\ written < body /\ EndCopy(TRUE)

\* Mutant of Stall: a silent body is never closed.
Stall_absent == FALSE /\ UNCHANGED vars

\* stallGuard closes a body that stays silent.
Stall == pc = "copy" /\ written < body /\ EndCopy(TRUE)

\* The deadline of the acquisition, or a timeout of a connection, where no body is
\* read yet.
Deadline ==
  /\ pc \in {"dial", "response"} /\ pc' = "failed" /\ conn' = Nobody
  /\ UNCHANGED <<runs, allowance, index, hops, body, written, limit, measured, remaining, spent,
                 files, disk>>

\* Mutant of SavePlan: what is saved is what an earlier run declared.
SavePlan_once ==
  /\ pc = "next" /\ index > Len(allowance)
  /\ plan' = IF plan = Unplanned THEN allowance ELSE plan
  /\ pc' = "acquired"
  /\ UNCHANGED <<runs, allowance, fetch, store, pins, disk>>

\* The plan is saved once everything is fetched; where that fails, before the rename or
\* after it, so does the verify phase.
SavePlan ==
  /\ pc = "next" /\ index > Len(allowance)
  /\ \/ plan' = allowance /\ pc' = "acquired"
     \/ plan' \in {plan, allowance} /\ pc' = "failed"
  /\ UNCHANGED <<runs, allowance, fetch, store, pins, disk>>

----------------------------------------------------------------------------
(* The sandboxes of this and later phases, and the rest of the machine.    *)

\* Mutant of StartSandbox: the store is bound as a whole.
StartSandbox_unpinned ==
  /\ pc \in {"acquired", "between"} /\ pc' = "sandbox"
  /\ pins' = {}
  /\ UNCHANGED <<runs, allowance, fetch, store, plan, disk>>

\* pinAcquiredSources: every regular file that is there is bound over itself.
StartSandbox ==
  /\ pc \in {"acquired", "between"} /\ pc' = "sandbox"
  /\ pins' = {n \in Names : store[n] \notin {Absent, Checkout}}
  /\ UNCHANGED <<runs, allowance, fetch, store, plan, disk>>

\* Package code may create, replace and remove what is not pinned.
PackageWrites ==
  /\ pc = "sandbox"
  /\ \E n \in Names \ pins : \E f \in {Absent, Foreign, Checkout} :
       store' = [store EXCEPT ![n] = f]
  /\ UNCHANGED <<pc, runs, allowance, fetch, plan, pins, disk>>

\* The phase ends; yay may verify once more in the same transaction.
EndSandbox ==
  /\ pc = "sandbox" /\ pc' \in {"between", "idle"} /\ pins' = {}
  /\ UNCHANGED <<runs, allowance, fetch, store, plan, disk>>

\* At any time; what they take before a copy begins is not there when it is measured.
OthersWrite ==
  /\ free > 0
  /\ free' = free - 1 /\ taken' = IF pc = "copy" THEN taken + 1 ELSE taken
  /\ UNCHANGED <<pc, runs, allowance, fetch, files>>

Retry ==
  /\ pc = "failed" /\ runs < MaxRuns /\ pc' = "idle"
  /\ UNCHANGED <<runs, allowance, fetch, files, disk>>

Fetching == SkipSource \/ RefuseSource \/ BeginFetch \/ CopyEnds \/ SavePlan
Timers == Stall \/ Deadline

Next ==
  \/ FreezeDeclaredSources \/ NewAcquisition \/ Fetching \/ checkedDialer \/ CheckRedirect \/ RefuseStatus
  \/ OpenTarget \/ CopyByte \/ CopyBreaks \/ Timers
  \/ StartSandbox \/ PackageWrites \/ EndSandbox \/ OthersWrite \/ Retry

\* What the client computes happens, and so do its timers; a server, a resolver
\* and the disk owe it nothing.
Spec == Init /\ [][Next]_vars /\ WF_vars(Fetching) /\ WF_vars(Timers)

----------------------------------------------------------------------------
TypeOK ==
  /\ pc \in {"idle", "frozen", "next", "dial", "response", "copy", "acquired", "sandbox", "between",
             "failed"}
  /\ remaining \in 0 .. Budget /\ free \in 0 .. Disk /\ hops \in 0 .. MaxHops + 1
  /\ conn \in Addresses \cup {Nobody}
  /\ index \in 0 .. MaxDeclared + 1 /\ Len(allowance) <= MaxDeclared

\* Every redirect included, a fetch talks only to an address that was in an
\* answer all of which was public (checkedDialer, AddressPolicy.Public).
OnlyPublicAddresses == conn # Nobody => conn \notin Reserved \cup Own

\* All fetches of a run together write no more than the budget and the byte that
\* shows it is used up; and where the free space could be measured when a copy began,
\* with the old file gone, that copy fills no more than the room there was above the
\* reserve and one such byte, whatever others write before it and beside it
\* (acquisitionBudget, "The reserve has to bound the transfer, not just precede it").
BudgetAndReserveHold ==
  /\ spent <= Budget + 1
  /\ pc = "copy" /\ measured =>
       LET before == free + taken + written IN
       written <= 1 + IF before > Reserve THEN before - Reserve ELSE 0

Exact(sources) == {i \in DOMAIN sources : sources[i].kind = "exact"}

\* The last source that is fetched under the name of source i.
LastUnder(sources, i) ==
  sources[Max({j \in Exact(sources) : sources[j].name = sources[i].name})]

\* Nothing but a copy in progress leaves part of a body in the store, so that no
\* failure, of this run or of one before it, hands makepkg a truncated source; and
\* once a run has acquired its sources, the plan the briefing and the post scan read
\* is the set it enforced, whole, and what makepkg finds for each plain source is
\* the body of its URL, whatever the code of the package did in the sandboxes in
\* between (fetchDeclared, saveTransactionSourcePlan, pinAcquiredSources).
SourcesAreAsFetched ==
  /\ pc # "copy" => \A n \in Names : store[n] = Absent \/ store[n].whole
  /\ pc \in {"acquired", "sandbox", "between"} =>
       /\ plan = allowance
       /\ \E d \in Declarations : ToSet(d) = ToSet(plan)
       /\ \A i \in Exact(plan) : store[plan[i].name].url = LastUnder(plan, i).url

\* A server that is silent, slow at will, or redirects for ever ends the
\* acquisition, never holds it (stallGuard, remainingTime, maxRedirectHops).
EveryAcquisitionEnds ==
  (pc = "next") ~> (pc \in {"acquired", "failed"})

----------------------------------------------------------------------------
(* The inductive invariant behind the safety properties.                   *)

Busy == {"dial", "response", "copy"}
Acquired == {"acquired", "sandbox", "between"}

Shapes ==
  /\ free \in Nat /\ taken \in Nat /\ spent \in Nat /\ written \in Nat /\ remaining \in Nat
  /\ body \in Nat /\ limit \in Nat /\ index \in Nat /\ measured \in BOOLEAN
  /\ DOMAIN store = Names
  /\ \A n \in Names : DOMAIN store[n] = {"url", "bytes", "whole"} /\ store[n].bytes \in Nat
  /\ conn \in Public \cup {Nobody}

\* What is frozen is all that some PKGBUILD declared.
AllowanceIsDeclared ==
  /\ allowance \in Seq(ToSet(allowance))
  /\ pc \notin {"idle", "failed"} =>
       \E d \in Declarations : ToSet(d) = ToSet(allowance)

\* The loop counts from one; a fetch is for a source that can be fetched.
FetchIsExact ==
  /\ pc \in {"next"} \cup Busy => index >= 1
  /\ pc \in Busy => index \in Exact(allowance)

\* What is written, what is left of the budget and the room above the reserve, as
\* the copy goes on.
CopyIsAccounted ==
  /\ spent <= Budget + 1
  /\ pc \in {"next", "dial", "response"} => spent + remaining = Budget
  /\ pc = "copy" =>
       /\ spent + remaining = Budget + written
       /\ written <= limit + 1 /\ limit <= remaining
       /\ measured => free + taken + written >= Reserve + limit \/ limit = 0

\* Only the target of a copy in progress is not whole.
StoreIsWhole ==
  /\ \A n \in Names :
       store[n] = Absent \/ store[n].whole \/ (pc = "copy" /\ n = Source.name)
  /\ pc = "copy" => store[Source.name].url = Source.url

\* Source j is the last one under its name among those before the index.
LastSoFar(j) ==
  /\ j \in Exact(allowance) /\ j < index
  /\ \A k \in Exact(allowance) : j < k /\ k < index => allowance[k].name # allowance[j].name

\* The sources before the index are in the store, save where a copy is writing.
FetchedSoFar ==
  pc \notin {"idle", "frozen", "failed"} =>
    \A j \in Exact(allowance) :
      LastSoFar(j) /\ ~(pc = "copy" /\ allowance[j].name = Source.name) =>
        store[allowance[j].name].url = allowance[j].url

\* Once acquired, the loop is over and the plan is saved; what is not pinned in the
\* running sandbox is not a file that was fetched.
PlanIsKept ==
  /\ pc \in Acquired => plan = allowance /\ index > Len(allowance)
  /\ pc = "sandbox" => \A n \in Names \ pins : store[n] \in {Absent, Foreign, Checkout}

IInv ==
  /\ Shapes /\ AllowanceIsDeclared /\ FetchIsExact /\ CopyIsAccounted
  /\ StoreIsWhole /\ FetchedSoFar /\ PlanIsKept
=============================================================================
