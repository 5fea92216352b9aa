-------------------------- MODULE WorkspaceMonitor --------------------------
(***************************************************************************)
(* The workspace monitor of internal/audit/resource.go: a goroutine that    *)
(* walks the checkout, counts what is in it, and keeps inotify watches on   *)
(* its directories while package code creates, fills, moves and removes     *)
(* them, and while makepkg closes pkg and opens it again.                   *)
(*                                                                         *)
(* Bytes and files are one quota.  A walk is not atomic: it reads one       *)
(* directory per step.  Containment has the supervisor that starts and     *)
(* stops the monitor and reads its error.                                   *)
(***************************************************************************)
EXTENDS Naturals, FiniteSets, FiniteSetsExt

CONSTANTS
  Dirs,     \* directories the package may have in the workspace
  Pkg,      \* of these, the one makepkg makes execute-only while it packages
  Limit,    \* WorkspaceFiles and WorkspaceBytes, as one quota
  MaxUsed   \* bound on the quota one directory may hold

ASSUME WorkspaceAssumption ==
  Pkg \in Dirs /\ IsFiniteSet(Dirs) /\ Limit \in Nat /\ MaxUsed \in Nat

VARIABLES
  dirs, used, locked, scarce,  \* the workspace and the space left around it
  active,    \* package code runs
  mon,       \* where the monitor is: off before it starts, ended after
  stopped,   \* its done channel and its inotify descriptor are closed
  todo, count,  \* its walk
  stable,    \* nothing in the workspace changed since the walk began
  watched,   \* directories with an inotify watch
  event,     \* the queue holds the creation of a directory
  refresh,   \* refreshWatches: the watches have to be rebuilt
  sawLock,   \* makepkgLocked: pkg was execute-only when they were
  merr       \* the error it failed with

workVars == <<dirs, used, locked, scarce, active>>
walkVars == <<todo, count, stable>>
watchVars == <<watched, event, refresh, sawLock>>
monitorVars == <<workVars, mon, stopped, walkVars, watchVars, merr>>

MonitorErrors == {"limit", "accounting"}

MonitorTypeOK ==
  /\ dirs \subseteq Dirs /\ used \in [Dirs -> 0 .. MaxUsed]
  /\ locked \in BOOLEAN /\ scarce \in BOOLEAN /\ active \in BOOLEAN
  /\ mon \in {"off", "select", "walk", "denied", "retry", "refresh", "adding", "ended"}
  /\ stopped \in BOOLEAN
  /\ todo \subseteq Dirs /\ count \in Nat /\ stable \in BOOLEAN
  /\ watched \subseteq Dirs /\ event \in BOOLEAN /\ refresh \in BOOLEAN /\ sawLock \in BOOLEAN
  /\ merr \in {"none"} \cup MonitorErrors /\ (merr # "none" => mon = "ended")

Usage(D) == MapThenSumSet(LAMBDA d : used[d], D)

\* makepkgLockedDirectory: the contents of an execute-only pkg are not visible.
Hidden == IF locked THEN {Pkg} ELSE {}
Visible == dirs \ Hidden

MonitorInit ==
  /\ dirs \in SUBSET Dirs
  /\ used \in [Dirs -> 0 .. MaxUsed] /\ \A d \in Dirs \ dirs : used[d] = 0
  /\ locked \in {FALSE, (Pkg \in dirs)} /\ scarce \in BOOLEAN /\ active = FALSE
  /\ mon = "off" /\ stopped = FALSE
  /\ todo = {} /\ count = 0 /\ stable = FALSE
  /\ watched = {} /\ event = FALSE /\ refresh = FALSE /\ sawLock = FALSE
  /\ merr = "none"

-----------------------------------------------------------------------------
(* The workspace.                                                          *)

\* What package code does to the workspace.
Changes ==
  /\ active /\ stable' = FALSE
  /\ UNCHANGED <<active, mon, stopped, todo, count, refresh, sawLock, merr>>

Create(d) ==
  /\ d \notin dirs /\ Changes
  /\ dirs' = dirs \cup {d} /\ event' = TRUE
  /\ UNCHANGED <<used, locked, scarce, watched>>

RemoveDir(d) ==
  /\ d \in Visible /\ Changes
  /\ dirs' = dirs \ {d} /\ used' = [used EXCEPT ![d] = 0] /\ watched' = watched \ {d}
  /\ UNCHANGED <<locked, scarce, event>>

Write(d) ==
  /\ d \in dirs /\ Changes
  /\ used' \in {[used EXCEPT ![d] = u] : u \in 0 .. MaxUsed}
  /\ UNCHANGED <<dirs, locked, scarce, watched, event>>

Move(d, e) ==
  /\ d \in dirs /\ e \in dirs /\ d # e /\ used[d] > 0 /\ used[e] < MaxUsed /\ Changes
  /\ used' = [used EXCEPT ![d] = @ - 1, ![e] = @ + 1]
  /\ UNCHANGED <<dirs, locked, scarce, watched, event>>

\* makepkg closes pkg while it packages and opens it again.
LockPkg ==
  /\ Pkg \in dirs /\ Changes /\ locked' = ~locked
  /\ UNCHANGED <<dirs, used, scarce, watched, event>>

FillDisk ==
  /\ ~scarce /\ Changes /\ scarce' = TRUE
  /\ UNCHANGED <<dirs, used, locked, watched, event>>

-----------------------------------------------------------------------------
(* The workspace monitor.  The first accounting and the first watches are   *)
(* taken before the goroutine starts, while nothing changes the tree.       *)

OverLimit == Usage(Visible) > Limit \/ scarce

startWorkspaceMonitor ==
  /\ mon = "off" /\ ~OverLimit
  /\ mon' = "select" /\ active' = TRUE
  /\ watched' = Visible /\ sawLock' = locked
  /\ UNCHANGED <<dirs, used, locked, scarce, stopped, walkVars, event, refresh, merr>>

Report_goesOn(e) == mon' = "select" /\ merr' = e
Report(e) ==
  /\ mon' = "ended" /\ merr' = e

\* One of the branches of the monitor's select: the walk of the ticker.
Tick ==
  /\ mon = "select"
  /\ mon' = "walk" /\ todo' = dirs /\ count' = 0 /\ stable' = TRUE
  /\ UNCHANGED <<workVars, stopped, watchVars, merr>>

\* reconcileOnce reads one directory more.  One that is gone, or a file in it,
\* makes the whole walk transient; one that is execute-only is an error that is
\* looked at next.
Visit(d) ==
  /\ mon = "walk" /\ d \in todo
  /\ todo' = todo \ {d}
  /\ \/ /\ d \in Visible
        /\ count' = count + used[d]
        /\ IF count' > Limit
             THEN Report("limit")
             ELSE UNCHANGED <<mon, merr>>
     \/ ~stable /\ mon' = "retry" /\ UNCHANGED <<count, merr>>
     \/ /\ d \in dirs \cap Hidden /\ mon' = "denied" /\ UNCHANGED <<count, merr>>
  /\ UNCHANGED <<workVars, stopped, stable, watchVars>>

\* The directory that could not be read is passed over if it is still the
\* execute-only pkg; otherwise the error of the read is final.
Denied ==
  /\ mon = "denied"
  /\ IF locked THEN mon' = "walk" /\ UNCHANGED merr ELSE Report("accounting")
  /\ UNCHANGED <<workVars, stopped, walkVars, watchVars>>

RetryWalk_keepsCount ==
  /\ mon = "retry" /\ mon' = "walk" /\ todo' = dirs /\ stable' = TRUE
  /\ UNCHANGED <<workVars, stopped, count, watchVars, merr>>

\* reconcile repeats a transient walk until its deadline.
RetryWalk ==
  /\ mon = "retry" /\ mon' = "walk" /\ todo' = dirs /\ count' = 0 /\ stable' = TRUE
  /\ UNCHANGED <<workVars, stopped, watchVars, merr>>

RemainedUnstable ==
  /\ mon = "retry" /\ Report("accounting")
  /\ UNCHANGED <<workVars, stopped, walkVars, watchVars>>

\* The space left on the file system is looked at when the walk is complete;
\* then the watches are rebuilt if they have to be.
WalkEnds ==
  /\ mon = "walk" /\ todo = {}
  /\ IF scarce THEN Report("limit") /\ UNCHANGED refresh
     ELSE /\ refresh' = (refresh \/ (sawLock /\ ~locked))
          /\ mon' = IF refresh' THEN "refresh" ELSE "select"
          /\ UNCHANGED merr
  /\ UNCHANGED <<workVars, stopped, walkVars, watched, event, sawLock>>

\* addTree: all of the tree that can be read, or, when a directory vanishes or
\* closes under it, a part.
AddsAll == watched' = watched \cup Visible /\ sawLock' = locked
AddsSome ==
  /\ \E W \in SUBSET Visible : watched' = watched \cup W
  /\ sawLock' \in {FALSE, locked}

AddTree_forgets ==
  /\ mon \in {"refresh", "adding"}
  /\ \/ Report("accounting") /\ UNCHANGED watchVars
     \/ /\ ~stopped /\ mon' = "select"
        /\ \/ AddsAll /\ refresh' = (refresh /\ mon = "adding")
           \/ active /\ AddsSome /\ UNCHANGED refresh
        /\ UNCHANGED <<event, merr>>
  /\ UNCHANGED <<workVars, stopped, walkVars>>

\* A watch may fail for a reason that will not pass, and does once the descriptor
\* was closed.
AddTree ==
  /\ mon \in {"refresh", "adding"}
  /\ \/ Report("accounting") /\ UNCHANGED watchVars
     \/ /\ ~stopped /\ mon' = "select"
        /\ \/ AddsAll /\ refresh' = (refresh /\ mon = "adding")
           \/ active /\ AddsSome /\ refresh' = TRUE
        /\ UNCHANGED <<event, merr>>
  /\ UNCHANGED <<workVars, stopped, walkVars>>

\* The poll of the event queue: a new directory is watched with the tree.
Poll ==
  /\ mon = "select" /\ ~stopped /\ event
  /\ event' = FALSE /\ mon' = "adding"
  /\ UNCHANGED <<workVars, stopped, walkVars, watched, refresh, sawLock, merr>>

\* The queue overflowed or cannot be read.
PollFails ==
  /\ mon = "select" /\ ~stopped /\ event /\ Report("accounting")
  /\ UNCHANGED <<workVars, stopped, walkVars, watchVars>>

MonitorStops_breaksSelect ==
  /\ mon = "select" /\ stopped
  /\ UNCHANGED monitorVars

\* The done branch; the select may take the ticker first.
MonitorStops ==
  /\ mon = "select" /\ stopped /\ mon' = "ended"
  /\ UNCHANGED <<workVars, stopped, walkVars, watchVars, merr>>

\* The command is over, or abandoned; with an unresponsive user manager package
\* code may go on.
Stop ==
  /\ mon # "off" /\ ~stopped /\ stopped' = TRUE /\ active' \in {FALSE, active}
  /\ UNCHANGED <<dirs, used, locked, scarce, mon, walkVars, watchVars, merr>>

-----------------------------------------------------------------------------
Package ==
  \/ LockPkg \/ FillDisk
  \/ \E d \in Dirs : Create(d) \/ RemoveDir(d) \/ Write(d) \/ \E e \in Dirs : Move(d, e)

Walk == \E d \in Dirs : Visit(d)
Monitor ==
  \/ Tick \/ Walk \/ Denied \/ RetryWalk \/ RemainedUnstable \/ WalkEnds
  \/ AddTree \/ Poll \/ PollFails \/ MonitorStops

MonitorNext == startWorkspaceMonitor \/ Package \/ Monitor \/ Stop

MonitorSpec == MonitorInit /\ [][MonitorNext]_monitorVars

\* The goroutine runs.  The two strong conditions are Go's select, which picks
\* among ready branches at random, and a deadline that stays passed once it has.
MonitorFairSpec ==
  MonitorSpec /\ WF_monitorVars(Monitor) /\ SF_monitorVars(MonitorStops) /\ SF_monitorVars(RemainedUnstable)

-----------------------------------------------------------------------------
(* Properties.                                                             *)

\* A walk during which nothing changed has counted every visible directory once:
\* it is passed only within the limits, and fails with a limit only beyond them
\* (reconcileOnce, resource.go:252-297).
AccountingIsExact ==
  stable =>
    /\ mon \in {"select", "refresh", "adding"} => Usage(Visible) <= Limit
    /\ mon = "walk" => count = Usage(Visible \ todo)
    /\ merr = "limit" => OverLimit

\* A directory that can be read is watched, or the monitor still has a reason to
\* rebuild its watches: no creation, failed addTree or closed pkg between two
\* polls makes it forget one (refreshWatches and makepkgLocked in
\* workspaceMonitor.run, resource.go:314-377).
NoDirectoryIsForgotten ==
  mon \notin {"off", "ended"} =>
    Visible \subseteq watched \/ event \/ refresh \/ sawLock \/ mon = "adding"

\* A monitor that is stopped ends, whatever walk or retry it is in and however
\* the tree changes: the source freeze waits for it without a timer
\* (build.go:1447-1448).
StopEndsTheMonitor == stopped ~> mon = "ended"

\* makepkg closing its pkg directory and opening it again is no failure of the
\* accounting: "That expected, caller-owned state is skipped until readable
\* again" (resource.go:232-234).  Between ReadDir and the look at the mode of the
\* directory, makepkg may have opened it.
MakepkgLockIsNoFailure == [][Denied => mon' # "ended"]_monitorVars

-----------------------------------------------------------------------------
(* The inductive invariant behind the two safety properties.               *)

\* A closed pkg was watched before, or the monitor saw it closed: the watches
\* cover what is hidden too, or will be rebuilt.
WatchesCover ==
  mon \notin {"off", "ended"} =>
    dirs \subseteq watched \/ event \/ refresh \/ sawLock \/ mon = "adding"

\* A walk in a tree that keeps still has counted what it is done with, and goes
\* on only within the limit.
WalkCounts ==
  stable /\ mon \in {"walk", "denied"} => count = Usage(Visible \ todo) /\ count <= Limit

VerdictFits ==
  /\ stable /\ mon \in {"select", "refresh", "adding"} => Usage(Visible) <= Limit
  /\ stable /\ merr = "limit" => OverLimit

MonitorInv ==
  /\ MonitorTypeOK /\ WatchesCover /\ WalkCounts /\ VerdictFits
  /\ mon = "off" => ~stable
=============================================================================
