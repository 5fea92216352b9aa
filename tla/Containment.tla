----------------------------- MODULE Containment -----------------------------
(***************************************************************************)
(* One contained call: the supervisor that creates a user namespace, starts *)
(* a transient unit of the systemd user manager in it, and collects the     *)
(* result (internal/contain/userns.go, scope.go; internal/audit/resource.go,*)
(* the source freeze of build.go), with the goroutines around it.           *)
(*                                                                         *)
(* kind tells the two supervisors apart: "build" is runConstrainedCommand,  *)
(* "freeze" is RunLimited under freezeDeclaredSourcesWithWorkspaceMonitor,  *)
(* which runs the monitor and a forwarder of its own around it.  Time is    *)
(* not measured: a timer may fire whenever the wait it bounds goes on.      *)
(***************************************************************************)
VARIABLES
  kind,      \* which supervisor runs
  sup,       \* where it is
  result,    \* what the call returns: none, ok, error, unconfirmed
  cancel,    \* contexts that are cancelled: parent, freeze
  anchor,    \* the process that holds the namespace open
  line,      \* it has printed its readiness line
  stdin,     \* the pipe that keeps it alive is open
  unit,      \* the transient unit: none, requested, queued, running, passed, failed
  late,      \* history: the manager took the request after KillScope had run
  joined,    \* whose namespace the unit entered: none, own, other
  manager,   \* the user manager: answers, wedged, recovered
  client,    \* the systemd-run client: none, starting, up, ok, error
  done,      \* what Wait of the client delivered: none, ok, error
  overflow,  \* an output buffer has reported that it is full
  rejected,  \* output was rejected and is not in the buffers
  mon,       \* the workspace monitor: off, running, ended
  stopped,   \* it was told to end
  merr,      \* its channel holds the error it failed with
  reported,  \* it failed
  forward    \* the forwarder of the freeze: off, waiting, ended, error

callVars == <<kind, result, cancel>>
nsVars == <<anchor, line, stdin>>
unitVars == <<unit, late, joined, manager, client, done, overflow, rejected>>
monVars == <<mon, stopped, merr, reported>>
vars == <<sup, callVars, nsVars, unitVars, monVars, forward>>

\* The client is not started yet.
Early == {"start", "ready", "open", "verify", "monitor", "launch"}

\* The run is over, and what it returned is known.
Settled == {"settle", "finished", "join", "close", "closing", "returned"}

TypeOK ==
  /\ kind \in {"build", "freeze"}
  /\ sup \in {"start", "ready", "open", "verify", "monitor", "launch", "select", "kill", "await",
              "await2", "settle", "finished", "join", "close", "closing", "returned"}
  /\ result \in {"none", "ok", "error", "unconfirmed"}
  /\ cancel \subseteq {"parent", "freeze"}
  /\ anchor \in {"none", "up", "ready", "exited", "reaped"}
  /\ line \in BOOLEAN /\ stdin \in BOOLEAN
  /\ unit \in {"none", "requested", "queued", "running", "passed", "failed"}
  /\ late \in BOOLEAN
  /\ joined \in {"none", "own", "other"}
  /\ manager \in {"answers", "wedged", "recovered"}
  /\ client \in {"none", "starting", "up", "ok", "error"}
  /\ done \in {"none", "ok", "error"}
  /\ overflow \in BOOLEAN /\ rejected \in BOOLEAN
  /\ mon \in {"off", "running", "ended"} /\ stopped \in BOOLEAN
  /\ merr \in BOOLEAN /\ reported \in BOOLEAN
  /\ forward \in {"off", "waiting", "ended", "error"}
  /\ sup \in Settled => result # "none"

Init ==
  /\ kind \in {"build", "freeze"}
  /\ sup = "start" /\ result = "none" /\ cancel = {}
  /\ anchor = "none" /\ line = FALSE /\ stdin = FALSE
  /\ unit = "none" /\ late = FALSE /\ joined = "none" /\ manager = "answers"
  /\ client = "none" /\ done = "none" /\ overflow = FALSE /\ rejected = FALSE
  /\ mon = "off" /\ stopped = FALSE /\ merr = FALSE /\ reported = FALSE /\ forward = "off"

-----------------------------------------------------------------------------
(* The namespace anchor.                                                   *)

NewNamespace ==
  /\ sup = "start" /\ sup' = "ready"
  /\ anchor' = "up" /\ stdin' = TRUE
  /\ UNCHANGED <<callVars, line, unitVars, monVars, forward>>

\* The script clamps nested namespaces, reads the clamp back and says so; every
\* failure of unshare, of the id maps or of the clamp ends it without the line.
AnchorReady ==
  /\ anchor = "up" /\ anchor' = "ready" /\ line' = TRUE
  /\ UNCHANGED <<sup, callVars, stdin, unitVars, monVars, forward>>

AnchorDies ==
  /\ anchor \in {"up", "ready"} /\ anchor' = "exited"
  /\ UNCHANGED <<sup, callVars, line, stdin, unitVars, monVars, forward>>

\* cat reads end of file once the supervisor closed the pipe.
AnchorReadsEOF ==
  /\ anchor \in {"up", "ready"} /\ ~stdin /\ anchor' = "exited"
  /\ UNCHANGED <<sup, callVars, line, stdin, unitVars, monVars, forward>>

\* Whatever ends the call before it has a result is an error.
Fails(next) ==
  /\ sup' = next /\ result' = "error"
  /\ UNCHANGED <<kind, cancel, nsVars, unitVars, monVars, forward>>

WaitReady ==
  /\ sup = "ready" /\ line /\ sup' = "open"
  /\ UNCHANGED <<callVars, nsVars, unitVars, monVars, forward>>

\* The anchor ended without the line, or 15 seconds are over.
NotReady ==
  /\ sup = "ready" /\ ~line /\ anchor # "ready"
  /\ Fails("close")

\* The namespace of a process that is gone cannot be opened.
OpenNamespace ==
  /\ sup = "open"
  /\ IF anchor = "ready"
       THEN sup' = "verify" /\ UNCHANGED <<callVars, nsVars, unitVars, monVars, forward>>
       ELSE Fails("close")

Verified ==
  /\ sup = "verify" /\ sup' = "monitor"
  /\ UNCHANGED <<callVars, nsVars, unitVars, monVars, forward>>

BadMapping == sup = "verify" /\ Fails("close")

\* Namespace.Close: the pipe first; after two seconds, the kill.  The pid stays
\* taken until Wait has collected it.
CloseNamespace ==
  /\ sup = "close" /\ sup' = "closing" /\ stdin' = FALSE
  /\ UNCHANGED <<callVars, anchor, line, unitVars, monVars, forward>>

KillAnchor ==
  /\ sup = "closing" /\ anchor \in {"up", "ready"} /\ anchor' = "exited"
  /\ UNCHANGED <<sup, callVars, line, stdin, unitVars, monVars, forward>>

Return ==
  /\ sup = "closing" /\ anchor = "exited"
  /\ sup' = "returned" /\ anchor' = "reaped"
  /\ UNCHANGED <<callVars, line, stdin, unitVars, monVars, forward>>


-----------------------------------------------------------------------------
(* The monitor of WorkspaceMonitor, seen from outside: it starts or refuses, *)
(* it may report one error as long as it runs, and it ends when stopped.    *)

startWorkspaceMonitor ==
  /\ sup = "monitor"
  /\ \/ /\ sup' = "launch" /\ mon' = "running"
        /\ forward' = IF kind = "freeze" THEN "waiting" ELSE "off"
        /\ UNCHANGED <<callVars, nsVars, unitVars, stopped, merr, reported>>
     \/ Fails("close")

MonitorFails ==
  /\ mon = "running"
  /\ mon' = "ended" /\ merr' = TRUE /\ reported' = TRUE
  /\ UNCHANGED <<sup, callVars, nsVars, unitVars, stopped, forward>>

MonitorStops ==
  /\ mon = "running" /\ stopped /\ mon' = "ended"
  /\ UNCHANGED <<sup, callVars, nsVars, unitVars, stopped, merr, reported, forward>>

-----------------------------------------------------------------------------
(* The transient unit and the package code in it.                          *)

\* RunLimited looks whether the user manager answers before it starts anything.
\* What it starts is the client: there is no unit yet.
Launch ==
  /\ sup = "launch" /\ ~(kind = "freeze" /\ manager = "wedged")
  /\ sup' = "select" /\ client' = "starting"
  /\ UNCHANGED <<callVars, nsVars, unit, late, joined, manager, done, overflow, rejected, monVars, forward>>

\* The client asks the user manager for the unit.  The request is on the bus, and
\* the end of the client does not call it back.
SendRequest ==
  /\ client = "starting" /\ client' = "up" /\ unit' = "requested"
  /\ UNCHANGED <<sup, callVars, nsVars, late, joined, manager, done, overflow, rejected, monVars, forward>>

LaunchFails == sup = "launch" /\ Fails("settle")

ManagerWedges ==
  /\ manager = "answers" /\ sup # "returned" /\ manager' = "wedged"
  /\ UNCHANGED <<sup, callVars, nsVars, unit, late, joined, client, done, overflow, rejected, monVars, forward>>

ManagerRecovers ==
  /\ manager = "wedged" /\ manager' = "recovered"
  /\ UNCHANGED <<sup, callVars, nsVars, unit, late, joined, client, done, overflow, rejected, monVars, forward>>

\* The supervisor is past its KillScope.
Cleaned == sup \notin Early \cup {"select", "kill"}

\* The user manager takes the request and creates the unit.
AcceptRequest ==
  /\ unit = "requested" /\ manager # "wedged"
  /\ unit' = "queued" /\ late' = Cleaned
  /\ UNCHANGED <<sup, callVars, nsVars, joined, manager, client, done, overflow, rejected, monVars, forward>>

\* The script of the unit opens the namespace by the pid of the anchor: there is
\* one to open, or a zombie without any, or the pid belongs to someone else.
UnitStarts ==
  /\ unit = "queued" /\ manager # "wedged"
  /\ \/ anchor = "ready" /\ unit' = "running" /\ joined' = "own"
     \/ anchor \in {"exited", "reaped"} /\ unit' = "failed" /\ UNCHANGED joined
     \/ anchor = "reaped" /\ unit' = "running" /\ joined' = "other"
  /\ UNCHANGED <<sup, callVars, nsVars, late, manager, client, done, overflow, rejected, monVars, forward>>

UnitExits ==
  /\ unit = "running" /\ unit' \in {"passed", "failed"}
  /\ UNCHANGED <<sup, callVars, nsVars, late, joined, manager, client, done, overflow, rejected, monVars, forward>>

\* A write that would pass the limit is rejected, and the first one is reported.
Overflows ==
  /\ unit = "running" /\ done = "none" /\ ~rejected
  /\ rejected' = TRUE /\ overflow' = TRUE
  /\ UNCHANGED <<sup, callVars, nsVars, unit, late, joined, manager, client, done, monVars, forward>>

-----------------------------------------------------------------------------
(* The supervisor: its client, its select, and the way out.                *)

ClientReturns ==
  /\ client = "up" /\ unit \in {"passed", "failed"} /\ manager # "wedged"
  /\ client' = IF unit = "passed" THEN "ok" ELSE "error"
  /\ UNCHANGED <<sup, callVars, nsVars, unit, late, joined, manager, done, overflow, rejected, monVars, forward>>

\* The client loses the user manager, or its start job fails.
ClientFails ==
  /\ client \in {"starting", "up"} /\ client' = "error"
  /\ UNCHANGED <<sup, callVars, nsVars, unit, late, joined, manager, done, overflow, rejected, monVars, forward>>

\* Wait ends with the client and the copies of its output; a survivor that holds
\* the pipes costs WaitDelay and is an error.  Only the writer of the build hands
\* its own error to the copy, and thereby to Wait.
WaitReturns ==
  /\ client \in {"ok", "error"} /\ done = "none"
  /\ done' = IF client = "ok" /\ unit = "passed" /\ ~(kind = "build" /\ rejected) THEN "ok" ELSE "error"
  /\ UNCHANGED <<sup, callVars, nsVars, unit, late, joined, manager, client, overflow, rejected, monVars, forward>>

\* KillScope: two calls to the user manager, whose failure is not news.  They name
\* a unit it may not know yet.
KillScope == unit' = IF manager # "wedged" /\ unit \in {"queued", "running"} THEN "failed" ELSE unit

SelectDone_dropsResult ==
  /\ sup = "select" /\ done # "none"
  /\ sup' = "settle" /\ KillScope
  /\ UNCHANGED <<callVars, nsVars, late, joined, manager, client, done, overflow, rejected, monVars, forward>>

SelectDone_leavesUnit ==
  /\ sup = "select" /\ done # "none"
  /\ sup' = "settle" /\ result' = done
  /\ UNCHANGED <<kind, cancel, nsVars, unitVars, monVars, forward>>

SelectDone ==
  /\ sup = "select" /\ done # "none"
  /\ sup' = "settle" /\ result' = done /\ KillScope
  /\ UNCHANGED <<kind, cancel, nsVars, late, joined, manager, client, done, overflow, rejected, monVars, forward>>

Cancelled == IF kind = "build" THEN "parent" \in cancel ELSE cancel # {}

\* Every other branch abandons the command: a full buffer, an error of the
\* monitor, which only the build listens to here, the context, the timer.
Abandon ==
  /\ sup = "select"
  /\ \/ overflow /\ overflow' = FALSE /\ UNCHANGED merr
     \/ kind = "build" /\ merr /\ merr' = FALSE /\ UNCHANGED overflow
     \/ Cancelled /\ UNCHANGED <<overflow, merr>>
     \/ UNCHANGED <<overflow, merr>>
  /\ sup' = "kill" /\ result' = "error"
  /\ UNCHANGED <<kind, cancel, nsVars, unit, late, joined, manager, client, done, rejected, mon, stopped, reported, forward>>

Kill ==
  /\ sup = "kill" /\ sup' = "await" /\ KillScope
  /\ UNCHANGED <<callVars, nsVars, late, joined, manager, client, done, overflow, rejected, monVars, forward>>

\* AwaitScopeExit: the client has the budget to return, then it is killed; after
\* twice the budget more, the clean-up is reported as unconfirmed.
AwaitScopeExit ==
  /\ sup \in {"await", "await2"} /\ done # "none" /\ sup' = "settle"
  /\ UNCHANGED <<callVars, nsVars, unitVars, monVars, forward>>

KillClient_waits ==
  /\ sup = "await" /\ done = "none" /\ client \notin {"starting", "up"} /\ sup' = "await2"
  /\ UNCHANGED <<callVars, nsVars, unitVars, monVars, forward>>

KillClient ==
  /\ sup = "await" /\ done = "none" /\ sup' = "await2"
  /\ client' = IF client \in {"starting", "up"} THEN "error" ELSE client
  /\ UNCHANGED <<callVars, nsVars, unit, late, joined, manager, done, overflow, rejected, monVars, forward>>

Unconfirmed ==
  /\ sup = "await2" /\ done = "none" /\ sup' = "settle" /\ result' = "unconfirmed"
  /\ UNCHANGED <<kind, cancel, nsVars, unitVars, monVars, forward>>

\* The build stops the monitor on its way out and waits for nothing.  The freeze
\* waits for its end, stops the forwarder and waits for that.
StopMonitor ==
  /\ sup = "settle" /\ stopped' = TRUE
  /\ sup' = IF kind = "freeze" THEN "finished" ELSE "close"
  /\ UNCHANGED <<callVars, nsVars, unitVars, mon, merr, reported, forward>>

StopForwarder ==
  /\ sup = "finished" /\ mon = "ended" /\ sup' = "join"
  /\ UNCHANGED <<callVars, nsVars, unitVars, monVars, forward>>

\* The forwarder turns an error of the monitor into a cancellation.  It ends
\* without one when it is stopped, or when the freeze is cancelled otherwise.
Forward ==
  /\ forward = "waiting" /\ merr
  /\ forward' = "error" /\ merr' = FALSE /\ cancel' = cancel \cup {"freeze"}
  /\ UNCHANGED <<sup, kind, result, nsVars, unitVars, mon, stopped, reported>>

ForwarderEnds ==
  /\ forward = "waiting" /\ (sup = "join" \/ cancel # {})
  /\ forward' = "ended"
  /\ UNCHANGED <<sup, callVars, nsVars, unitVars, monVars>>

FreezeResult_forwardedOnly ==
  /\ sup = "join" /\ forward # "waiting" /\ sup' = "close"
  /\ result' = IF forward = "error" THEN "error"
               ELSE IF result = "ok" /\ cancel # {} THEN "error" ELSE result
  /\ UNCHANGED <<kind, cancel, nsVars, unitVars, monVars, forward>>

\* An error of the monitor outranks what the command returned, also one that is
\* still in the channel.
FreezeResult ==
  /\ sup = "join" /\ forward # "waiting" /\ sup' = "close"
  /\ result' = IF forward = "error" \/ merr THEN "error"
               ELSE IF result = "ok" /\ cancel # {} THEN "error" ELSE result
  /\ merr' = IF forward = "error" THEN merr ELSE FALSE
  /\ UNCHANGED <<kind, cancel, nsVars, unitVars, mon, stopped, reported, forward>>

CancelParent ==
  /\ "parent" \notin cancel /\ sup \notin {"start", "returned"}
  /\ cancel' = cancel \cup {"parent"}
  /\ UNCHANGED <<sup, kind, result, nsVars, unitVars, monVars, forward>>

-----------------------------------------------------------------------------
Anchor == AnchorReady \/ AnchorDies \/ AnchorReadsEOF

Monitor == MonitorFails \/ MonitorStops

Forwarder == Forward \/ ForwarderEnds

Package == UnitExits \/ Overflows

UserManager ==
  ManagerWedges \/ ManagerRecovers \/ SendRequest \/ AcceptRequest \/ UnitStarts \/ ClientReturns

Supervisor ==
  \/ NewNamespace \/ WaitReady \/ NotReady \/ OpenNamespace \/ Verified \/ BadMapping
  \/ startWorkspaceMonitor \/ Launch \/ LaunchFails
  \/ SelectDone \/ Abandon \/ Kill \/ AwaitScopeExit \/ KillClient \/ Unconfirmed
  \/ StopMonitor \/ StopForwarder \/ FreezeResult
  \/ CloseNamespace \/ KillAnchor \/ Return

Next ==
  \/ Anchor \/ Monitor \/ Forwarder \/ Package \/ UserManager
  \/ Supervisor \/ ClientFails \/ WaitReturns \/ CancelParent

Spec == Init /\ [][Next]_vars

\* The code's own goroutines and timers make progress.  Nothing is assumed of
\* package code, of the anchor, which is killed if it has to be, or of the user
\* manager, whose every call has a budget.
FairSpec ==
  /\ Spec
  /\ WF_vars(Supervisor) /\ WF_vars(WaitReturns) /\ WF_vars(Forwarder) /\ WF_vars(MonitorStops)

-----------------------------------------------------------------------------
(* Properties.                                                             *)

\* As long as the user manager answers, a unit that it has when the call cleans up
\* does not outlive the call, and none such enters a namespace other than the one
\* of the call, whose pid is not free before Close (KillScope and
\* NamespaceJoiningCommand, scope.go:114-167).  What remains is a unit whose
\* request was still on its way at that moment, and no call that has returned
\* success has one.
NothingOutlivesTheCall ==
  manager = "answers" =>
    /\ joined = "other" => late
    /\ sup = "returned" /\ unit \in {"requested", "queued", "running"} =>
         (late \/ unit = "requested") /\ result # "ok"

\* A call that succeeds ran its command to the end in its own namespace, with
\* every byte of output kept where the caller parses none of it again (the build),
\* and with no failure of the monitor where its result is an allowance (the
\* freeze), also when that failure arrives as the command exits (build.go:1452).
AcceptedCallsAreWhole ==
  sup = "returned" /\ result = "ok" =>
    /\ unit = "passed" /\ joined = "own"
    /\ kind = "build" => ~rejected
    /\ kind = "freeze" => ~reported

\* Every call returns: whatever the anchor, the package and the user manager do,
\* each wait has a timer or ends with the wait before it (waitReady, the timer of
\* the run, AwaitScopeExit, the joins of the freeze, Namespace.Close).
EveryCallReturns == sup = "ready" ~> sup = "returned"

\* "A silently truncated success or error stream may have dropped the decisive
\* evidence" (safe.go:71): no call succeeds with output that was rejected.
TruncatedOutputIsNoSuccess == result = "ok" => ~rejected

\* A call that does not report ErrScopeCleanup has seen its unit stop: "a cleanup
\* that could not be confirmed means something may still be running under the
\* user manager, and that is worth saying" (scope.go:92-94).
CleanupIsConfirmed ==
  sup = "returned" /\ result # "unconfirmed" => unit \notin {"queued", "running"}
-----------------------------------------------------------------------------
(* The inductive invariant behind the first two.                           *)

Leaving == {"close", "closing", "returned"}

\* There is a unit only after Launch; as long as the manager answers, the one it
\* knew is gone once KillScope has run.
UnitIsKilled ==
  /\ sup \in Early => unit = "none" /\ client = "none"
  /\ client = "starting" => unit = "none"
  /\ late => Cleaned
  /\ manager = "answers" /\ Cleaned => unit \notin {"queued", "running"} \/ late

\* The pid of the anchor is given up by the last step of the call, and a unit that
\* runs has found some namespace under it.
PidIsHeld ==
  /\ anchor = "reaped" \/ joined = "other" => sup = "returned"
  /\ joined = "other" => manager # "answers" \/ late
  /\ unit \in {"running", "passed"} => joined # "none"

\* What Wait and the supervisor take for success, and that a command that was
\* abandoned has failed.
SuccessIsWhole ==
  /\ sup \in {"kill", "await", "await2"} => result = "error"
  /\ done = "ok" => unit = "passed" /\ (kind = "build" => ~rejected)
  /\ result = "ok" => done = "ok" /\ joined = "own"

\* The freeze outlives its monitor, and an error of the monitor is in the channel or
\* with the forwarder until the freeze has taken it into its result.
MonitorErrorsArrive ==
  /\ sup \in Early \ {"launch"} => mon = "off"
  /\ mon = "off" => ~reported
  /\ kind = "freeze" =>
       /\ sup \in Leaving \cup {"join"} => mon # "running"
       /\ reported => IF sup \in Leaving THEN result # "ok" ELSE merr \/ forward = "error"

IInv == TypeOK /\ UnitIsKilled /\ PidIsHeld /\ SuccessIsWhole /\ MonitorErrorsArrive
=============================================================================
