-------------------------- MODULE Confinement_proofs --------------------------
(***************************************************************************)
(* Proofs about what a constrained command is confined by.  Containment: a *)
(* call that has returned leaves nothing of its own behind as long as the  *)
(* user manager answers, and a call that succeeds was whole; all values    *)
(* there are from finite sets, so that every leaf is a case analysis over  *)
(* the step that is taken.  NetworkPhase: a brokered makepkg phase, for    *)
(* any number of connections, destinations, host set and limits; each part *)
(* of the inductive invariant NetworkInv is preserved by a lemma with one  *)
(* case per action, or per few actions that leave the part alone.          *)
(***************************************************************************)
EXTENDS Containment, NetworkPhase, FiniteSetTheorems, SequenceTheorems, TLAPS

-----------------------------------------------------------------------------
(* A contained call (Containment).                                         *)


\* The steps of the supervisor in the order of the way through a call.
Entering ==
  \/ NewNamespace \/ WaitReady \/ NotReady \/ OpenNamespace \/ Verified \/ BadMapping
  \/ startWorkspaceMonitor \/ Launch \/ LaunchFails

Ending == SelectDone \/ Abandon \/ Kill \/ AwaitScopeExit \/ KillClient \/ Unconfirmed

Closing ==
  \/ StopMonitor \/ StopForwarder \/ FreezeResult
  \/ CloseNamespace \/ KillAnchor \/ Return

Around ==
  \/ Anchor \/ Monitor \/ Forwarder \/ Package \/ UserManager
  \/ ClientFails \/ WaitReturns \/ CancelParent

\* Every step is one of these.
LEMMA Steps == Next => Entering \/ Ending \/ Closing \/ Around
BY DEF Next, Supervisor, Entering, Ending, Closing, Around

USE DEF callVars, nsVars, unitVars, monVars, vars

\* A call begins with nothing started.
LEMMA Initially == Init => IInv
BY DEF Init, IInv, TypeOK, UnitIsKilled, PidIsHeld, SuccessIsWhole, MonitorErrorsArrive,
       Settled, Early, Cleaned, Leaving

\* What leads to a command that runs keeps the invariant: nothing of the unit or of
\* its monitor exists before startWorkspaceMonitor and Launch.
LEMMA EnteringStep == ASSUME IInv, Entering PROVE IInv'
<1>. USE DEF IInv, TypeOK, Settled, UnitIsKilled, PidIsHeld, SuccessIsWhole, MonitorErrorsArrive,
             Early, Cleaned, Leaving
<1>1. CASE NewNamespace
  BY <1>1 DEF NewNamespace
<1>2. CASE WaitReady
  BY <1>2 DEF WaitReady
<1>3. CASE NotReady
  BY <1>3 DEF NotReady, Fails
<1>4. CASE OpenNamespace
  <2>1. CASE anchor = "ready"
    <3>1. sup = "open" /\ sup' = "verify" /\ UNCHANGED <<callVars, nsVars, unitVars, monVars, forward>>
      BY <1>4, <2>1 DEF OpenNamespace
    <3>. QED
      BY <3>1
  <2>2. CASE anchor # "ready"
    <3>1. sup = "open" /\ Fails("close")
      BY <1>4, <2>2 DEF OpenNamespace
    <3>. QED
      BY <3>1 DEF Fails
  <2>. QED
    BY <2>1, <2>2
<1>5. CASE Verified
  BY <1>5 DEF Verified
<1>6. CASE BadMapping
  BY <1>6 DEF BadMapping, Fails
<1>7. CASE startWorkspaceMonitor
  <2>1. CASE mon' = "running"
    <3>1. /\ sup = "monitor" /\ sup' = "launch" /\ forward' \in {"waiting", "off"}
          /\ UNCHANGED <<callVars, nsVars, unitVars, stopped, merr, reported>>
      BY <1>7, <2>1 DEF startWorkspaceMonitor, Fails
    <3>. QED
      BY <2>1, <3>1
  <2>2. CASE mon' # "running"
    <3>1. sup = "monitor" /\ Fails("close")
      BY <1>7, <2>2 DEF startWorkspaceMonitor
    <3>. QED
      BY <3>1 DEF Fails
  <2>. QED
    BY <2>1, <2>2
<1>8. CASE Launch
  BY <1>8 DEF Launch
<1>9. CASE LaunchFails
  BY <1>9 DEF LaunchFails, Fails
<1>. QED
  BY <1>1, <1>2, <1>3, <1>4, <1>5, <1>6, <1>7, <1>8, <1>9 DEF Entering

\* What ends the command keeps the invariant: whichever way the select goes, KillScope
\* comes before the supervisor waits, and ok is what Wait delivered.
LEMMA EndingStep == ASSUME IInv, Ending PROVE IInv'
<1>. USE DEF IInv, TypeOK, Settled, UnitIsKilled, PidIsHeld, SuccessIsWhole, MonitorErrorsArrive,
             Early, Cleaned, Leaving
<1>1. CASE SelectDone
  BY <1>1 DEF SelectDone, KillScope
<1>2. CASE Abandon
  <2>1. TypeOK'
    <3>1. sup' = "kill" /\ result' = "error"
      BY <1>2 DEF Abandon
    <3>2. merr' \in BOOLEAN /\ overflow' \in BOOLEAN
      BY <1>2 DEF Abandon
    <3>3. UNCHANGED <<kind, cancel, nsVars, unit, late, joined, manager, client, done, rejected, mon, stopped,
                      reported, forward>>
      BY <1>2 DEF Abandon
    <3>. QED
      BY <3>1, <3>2, <3>3
  <2>2. UnitIsKilled'
    BY <1>2 DEF Abandon, Cancelled
  <2>3. PidIsHeld'
    BY <1>2 DEF Abandon, Cancelled
  <2>4. SuccessIsWhole'
    BY <1>2 DEF Abandon, Cancelled
  <2>5. MonitorErrorsArrive'
    BY <1>2 DEF Abandon, Cancelled
  <2>. QED
    BY <2>1, <2>2, <2>3, <2>4, <2>5
<1>3. CASE Kill
  BY <1>3 DEF Kill, KillScope
<1>4. CASE AwaitScopeExit
  <2>1. TypeOK'
    BY <1>4 DEF AwaitScopeExit
  <2>2. UnitIsKilled'
    BY <1>4 DEF AwaitScopeExit
  <2>3. PidIsHeld'
    BY <1>4 DEF AwaitScopeExit
  <2>4. SuccessIsWhole'
    BY <1>4 DEF AwaitScopeExit
  <2>5. MonitorErrorsArrive'
    BY <1>4 DEF AwaitScopeExit
  <2>. QED
    BY <2>1, <2>2, <2>3, <2>4, <2>5
<1>5. CASE KillClient
  BY <1>5 DEF KillClient
<1>6. CASE Unconfirmed
  BY <1>6 DEF Unconfirmed
<1>. QED
  BY <1>1, <1>2, <1>3, <1>4, <1>5, <1>6 DEF Ending

\* The way out keeps the invariant: the freeze takes an error of its monitor into the
\* result, and the pid of the anchor is free only when the call returns.
LEMMA ClosingStep == ASSUME IInv, Closing PROVE IInv'
<1>. USE DEF IInv, TypeOK, Settled, UnitIsKilled, PidIsHeld, SuccessIsWhole, MonitorErrorsArrive,
             Early, Cleaned, Leaving
<1>1. CASE StopMonitor
  BY <1>1 DEF StopMonitor
<1>2. CASE StopForwarder
  BY <1>2 DEF StopForwarder
<1>3. CASE FreezeResult
  <2>1. TypeOK'
    <3>1. result' \in {"ok", "error", "unconfirmed"}
      BY <1>3 DEF FreezeResult
    <3>2. merr' \in BOOLEAN
      BY <1>3 DEF FreezeResult
    <3>3. sup' = "close" /\ UNCHANGED <<kind, cancel, nsVars, unitVars, mon, stopped, reported, forward>>
      BY <1>3 DEF FreezeResult
    <3>. QED
      BY <3>1, <3>2, <3>3
  <2>2. UnitIsKilled'
    BY <1>3 DEF FreezeResult
  <2>3. PidIsHeld'
    BY <1>3 DEF FreezeResult
  <2>4. SuccessIsWhole'
    BY <1>3 DEF FreezeResult
  <2>5. MonitorErrorsArrive'
    BY <1>3 DEF FreezeResult
  <2>. QED
    BY <2>1, <2>2, <2>3, <2>4, <2>5
<1>4. CASE CloseNamespace
  <2>1. TypeOK'
    <3>1. result' # "none"
      BY <1>4 DEF CloseNamespace
    <3>2. stdin' \in BOOLEAN /\ line' \in BOOLEAN
      BY <1>4 DEF CloseNamespace
    <3>3. sup' = "closing" /\ UNCHANGED <<callVars, anchor, unitVars, monVars, forward>>
      BY <1>4 DEF CloseNamespace
    <3>. QED
      BY <3>1, <3>2, <3>3
  <2>2. UnitIsKilled'
    BY <1>4 DEF CloseNamespace
  <2>3. PidIsHeld'
    BY <1>4 DEF CloseNamespace
  <2>4. SuccessIsWhole'
    BY <1>4 DEF CloseNamespace
  <2>5. MonitorErrorsArrive'
    BY <1>4 DEF CloseNamespace
  <2>. QED
    BY <2>1, <2>2, <2>3, <2>4, <2>5
<1>5. CASE KillAnchor
  BY <1>5 DEF KillAnchor
<1>6. CASE Return
  BY <1>6 DEF Return
<1>. QED
  BY <1>1, <1>2, <1>3, <1>4, <1>5, <1>6 DEF Closing

\* What goes on around the supervisor keeps the invariant: the anchor, the monitor, the
\* forwarder, the package, the user manager and Wait.
LEMMA AroundStep == ASSUME IInv, Around PROVE IInv'
<1>. USE DEF IInv, TypeOK, Settled, UnitIsKilled, PidIsHeld, SuccessIsWhole, MonitorErrorsArrive,
             Early, Cleaned, Leaving
<1>1. CASE AnchorReady
  BY <1>1 DEF AnchorReady
<1>2. CASE AnchorDies
  BY <1>2 DEF AnchorDies
<1>3. CASE AnchorReadsEOF
  BY <1>3 DEF AnchorReadsEOF
<1>4. CASE MonitorFails
  BY <1>4 DEF MonitorFails
<1>5. CASE MonitorStops
  BY <1>5 DEF MonitorStops
<1>6. CASE Forward
  <2>1. TypeOK'
    <3>1. cancel' \subseteq {"parent", "freeze"}
      BY <1>6 DEF Forward
    <3>2. merr' \in BOOLEAN /\ forward' = "error"
      BY <1>6 DEF Forward
    <3>3. UNCHANGED <<sup, kind, result, nsVars, unitVars, mon, stopped, reported>>
      BY <1>6 DEF Forward
    <3>. QED
      BY <3>1, <3>2, <3>3
  <2>2. UnitIsKilled'
    BY <1>6 DEF Forward
  <2>3. PidIsHeld'
    BY <1>6 DEF Forward
  <2>4. SuccessIsWhole'
    BY <1>6 DEF Forward
  <2>5. MonitorErrorsArrive'
    BY <1>6 DEF Forward
  <2>. QED
    BY <2>1, <2>2, <2>3, <2>4, <2>5
<1>7. CASE ForwarderEnds
  BY <1>7 DEF ForwarderEnds
<1>8. CASE UnitExits
  BY <1>8 DEF UnitExits
<1>9. CASE Overflows
  BY <1>9 DEF Overflows
<1>10. CASE ManagerWedges
  BY <1>10 DEF ManagerWedges
<1>11. CASE ManagerRecovers
  BY <1>11 DEF ManagerRecovers
<1>12. CASE UnitStarts
  BY <1>12 DEF UnitStarts
<1>13. CASE ClientReturns
  BY <1>13 DEF ClientReturns
<1>14. CASE ClientFails
  BY <1>14 DEF ClientFails
<1>15. CASE WaitReturns
  BY <1>15 DEF WaitReturns
<1>16. CASE CancelParent
  BY <1>16 DEF CancelParent
<1>17. CASE SendRequest
  BY <1>17 DEF SendRequest
<1>18. CASE AcceptRequest
  <2>0. /\ unit' = "queued" /\ UNCHANGED <<sup, joined, manager, client, done, rejected>>
        /\ UNCHANGED <<callVars, nsVars, overflow, monVars, forward>>
    BY <1>18 DEF AcceptRequest
  <2>1. late' \in BOOLEAN /\ (late' <=> Cleaned)
    BY <1>18 DEF AcceptRequest
  <2>2. unit = "requested" /\ done # "ok" /\ client # "starting" /\ sup \notin Early
    BY <1>18 DEF AcceptRequest
  <2>3. TypeOK'
    BY <2>0, <2>1
  <2>4. UnitIsKilled'
    <3>1. CASE Cleaned
      <4>1. late' = TRUE
        BY <2>1, <3>1
      <4>. QED
        BY <2>0, <2>2, <3>1, <4>1
    <3>2. CASE ~Cleaned
      <4>1. late' = FALSE
        BY <2>1, <3>2
      <4>. QED
        BY <2>0, <2>2, <3>2, <4>1
    <3>. QED
      BY <3>1, <3>2
  <2>5. PidIsHeld'
    <3>1. CASE joined = "other"
      <4>1. late' = TRUE
        BY <2>1, <3>1
      <4>. QED
        BY <2>0, <2>2, <4>1
    <3>2. CASE joined # "other"
      BY <2>0, <2>2, <3>2
    <3>. QED
      BY <3>1, <3>2
  <2>6. SuccessIsWhole' /\ MonitorErrorsArrive'
    BY <2>0, <2>2
  <2>. QED
    BY <2>3, <2>4, <2>5, <2>6
<1>. QED
  BY <1>1, <1>2, <1>3, <1>4, <1>5, <1>6, <1>7, <1>8, <1>9, <1>10,
     <1>11, <1>12, <1>13, <1>14, <1>15, <1>16, <1>17, <1>18 DEF Around, Anchor, Monitor, Forwarder, Package, UserManager

\* Every step of a call keeps the inductive invariant.
LEMMA Inductively == IInv /\ [Next]_vars => IInv'
<1>1. CASE UNCHANGED vars
  BY <1>1 DEF IInv, TypeOK, Settled, UnitIsKilled, PidIsHeld, SuccessIsWhole, MonitorErrorsArrive,
     Early, Cleaned, Leaving
<1>. QED
  BY <1>1, Steps, EnteringStep, EndingStep, ClosingStep, AroundStep

\* The way through a call, with what is alive at each of its points, holds of every
\* call (runConstrainedCommand, RunLimited, freezeDeclaredSourcesWithWorkspaceMonitor).
THEOREM Inductive == Spec => []IInv
BY Initially, Inductively, PTL DEF Spec

\* The variables of the call keep their ranges.
THEOREM TypeCorrect == Spec => []TypeOK
<1>1. IInv => TypeOK
  BY DEF IInv
<1>. QED
  BY <1>1, Inductive, PTL

\* As long as the user manager answers, a unit it had when the call cleaned up is gone
\* when the call returns and was never in a namespace other than the one of its call;
\* only a request that was still on its way then can become a unit later, and no call
\* with one succeeds (KillScope before every way out, NamespaceJoiningCommand).
THEOREM NothingLeft == Spec => []NothingOutlivesTheCall
<1>1. IInv => NothingOutlivesTheCall
  BY DEF IInv, TypeOK, UnitIsKilled, PidIsHeld, SuccessIsWhole, NothingOutlivesTheCall, Early,
         Cleaned
<1>. QED
  BY <1>1, Inductive, PTL

\* A call that succeeds ran its command to the end in its own namespace, without
\* rejected output where nothing parses it again, and without an error of the monitor
\* where its result is an allowance (WaitReturns, FreezeResult).
THEOREM Whole == Spec => []AcceptedCallsAreWhole
<1>1. IInv => AcceptedCallsAreWhole
  BY DEF IInv, SuccessIsWhole, MonitorErrorsArrive, AcceptedCallsAreWhole, Leaving
<1>. QED
  BY <1>1, Inductive, PTL

-----------------------------------------------------------------------------
(* A brokered phase (NetworkPhase).                                        *)


USE NetworkAssumption
USE DEF networkVars, brokerVars, connVars, grantVars, byteVars, agentVars, ttyVars, phaseVars

-----------------------------------------------------------------------------
(* Types.                                                                  *)

\* The steps that take a question from the queue, put one in it, or drop all.
LEMMA QueueType ==
  ASSUME NetworkTypeOK, [NetworkNext]_networkVars
  PROVE  queue' \in Seq(Conns)
<1>1. CASE \E c \in Conns : authorize(c)
  BY <1>1 DEF authorize, NetworkTypeOK
<1>2. CASE AgentAccept
  BY <1>2, HeadTailProperties DEF AgentAccept, NetworkTypeOK
<1>3. CASE SelectResult \/ CancelledResult
  <2>1. queue' = <<>>
    BY <1>3 DEF SelectResult, CancelledResult, Stop
  <2>. QED
    BY <2>1, EmptySeq
<1>4. CASE queue' = queue
  BY <1>4 DEF NetworkTypeOK
<1>. QED
  BY <1>1, <1>2, <1>3, <1>4 DEF NetworkNext, Handler, Agent, Wrapper, Accept, Request,
     PromptTimeout, ResolveAndDial, checkTunnelHost, HangUp, Write, Quiet, IdleTimeout,
     BrokerFails, Reap, AgentReads, AgentTimeout, TypeKey, BuildEnds, SelectBrokerDone,
     GateOpens, GateReads, GateTimeout

\* Every handler, the agent, the wrapper and the broker write what they may.
LEMMA Types ==
  ASSUME NetworkTypeOK, RequestsAreCounted, RequestsArePermitted, QuestionsAreRaisedOnce,
         [NetworkNext]_networkVars
  PROVE  NetworkTypeOK'
<1>. USE QueueType DEF Handling, Outbound, Ended, Dirs
<1>1. CASE \E c \in Conns : Accept(c)
  BY <1>1 DEF Accept, Become, AllClosed, RequestsAreCounted, NetworkTypeOK
<1>2. CASE \E c \in Conns : Request(c)
  BY <1>2 DEF Request, Become, NetworkTypeOK
<1>3. CASE \E c \in Conns : authorize(c)
  BY <1>3 DEF authorize, Become, NetworkTypeOK, RequestsArePermitted, Requested
<1>4. CASE \E c \in Conns : PromptTimeout(c) \/ ResolveAndDial(c)
  BY <1>4 DEF PromptTimeout, ResolveAndDial, Become, NetworkTypeOK
<1>5. CASE \E c \in Conns : checkTunnelHost(c)
  BY <1>5 DEF checkTunnelHost, Become, NetworkTypeOK
<1>6. CASE \E c \in Conns : HangUp(c)
  BY <1>6 DEF HangUp, Become, NetworkTypeOK
<1>7. CASE \E c \in Conns, d \in Dirs : Write(c, d)
  BY <1>7 DEF Write, Become, NetworkTypeOK
<1>8. CASE \E c \in Conns, d \in Dirs : Quiet(c, d) \/ IdleTimeout(c, d)
  BY <1>8 DEF Quiet, IdleTimeout, Become, NetworkTypeOK
<1>9. CASE BrokerFails \/ Reap
  BY <1>9 DEF BrokerFails, Reap, AllClosed, NetworkTypeOK
<1>10. CASE AgentAccept
  <2>1. Head(queue) \in Conns
    BY <1>10, HeadTailProperties DEF AgentAccept, NetworkTypeOK
  <2>. QED
    BY <1>10, <2>1 DEF AgentAccept, NetworkTypeOK
<1>11. CASE AgentReads
  <2>1. heard' \subseteq Questions \X Questions
    BY <1>11 DEF AgentReads, Questions, NetworkTypeOK
  <2>2. grants' \subseteq asked'
    BY <1>11 DEF AgentReads, Respond, QuestionsAreRaisedOnce, IsRaised, NetworkTypeOK
  <2>3. conn' \in [Conns -> {"new"} \cup Handling \cup Ended]
    BY <1>11 DEF AgentReads, Respond, Become, NetworkTypeOK
  <2>. QED
    BY <1>11, <2>1, <2>2, <2>3 DEF AgentReads, NetworkTypeOK
<1>12. CASE AgentTimeout
  BY <1>12 DEF AgentTimeout, Respond, Become, NetworkTypeOK
<1>13. CASE \E q \in Questions, ch \in YesNo \cup Gate : TypeKey(q, ch)
  BY <1>13 DEF TypeKey, NetworkTypeOK
<1>14. CASE (\E r \in {"ok", "error"} : BuildEnds(r)) \/ SelectBrokerDone
  BY <1>14 DEF BuildEnds, SelectBrokerDone, NetworkTypeOK
<1>15. CASE SelectResult \/ CancelledResult
  BY <1>15 DEF SelectResult, CancelledResult, Stop, AllClosed, NetworkTypeOK
<1>16. CASE GateOpens \/ GateReads \/ GateTimeout
  BY <1>16 DEF GateOpens, GateReads, GateTimeout, Questions, NetworkTypeOK
<1>17. CASE UNCHANGED networkVars
  BY <1>17 DEF NetworkTypeOK
<1>. QED
  BY <1>1, <1>2, <1>3, <1>4, <1>5, <1>6, <1>7, <1>8, <1>9, <1>10, <1>11, <1>12, <1>13,
     <1>14, <1>15, <1>16, <1>17 DEF NetworkNext, Handler, Agent, Wrapper

-----------------------------------------------------------------------------
(* The limits.                                                             *)

\* The request that exceeds the budget takes the broker down (broker.go, Serve).
LEMMA RequestsCounted ==
  ASSUME NetworkTypeOK, RequestsAreCounted, [NetworkNext]_networkVars
  PROVE  RequestsAreCounted'
<1>1. CASE \E c \in Conns : Accept(c)
  BY <1>1 DEF Accept, RequestsAreCounted, NetworkTypeOK
<1>2. CASE BrokerFails \/ Reap \/ SelectResult \/ CancelledResult
  BY <1>2 DEF BrokerFails, Reap, SelectResult, CancelledResult, Stop, RequestsAreCounted
<1>3. CASE UNCHANGED brokerVars
  BY <1>3 DEF RequestsAreCounted
<1>. QED
  BY <1>1, <1>2, <1>3 DEF NetworkNext, Handler, Agent, Wrapper, Request, authorize,
     PromptTimeout, ResolveAndDial, checkTunnelHost, HangUp, Write, Quiet, IdleTimeout,
     AgentAccept, AgentReads, AgentTimeout, TypeKey, BuildEnds, SelectBrokerDone,
     GateOpens, GateReads, GateTimeout

\* authorize records a destination before it asks about it, and only below the limit.
LEMMA AskedBounded ==
  ASSUME NetworkTypeOK, AskedIsBounded, [NetworkNext]_networkVars
  PROVE  AskedIsBounded'
<1>1. CASE \E c \in Conns : authorize(c)
  <2>1. PICK c \in Conns : authorize(c)
    BY <1>1
  <2>2. CASE asked' = asked
    BY <2>2 DEF AskedIsBounded
  <2>3. CASE asked' = asked \cup {dest[c]} /\ Cardinality(asked) < MaxDestinations
    <3>1. /\ IsFiniteSet(asked \cup {dest[c]})
          /\ Cardinality(asked \cup {dest[c]}) \in {Cardinality(asked), Cardinality(asked) + 1}
      BY FS_AddElement DEF AskedIsBounded
    <3>2. Cardinality(asked) \in Nat
      BY FS_CardinalityType DEF AskedIsBounded
    <3>. QED
      BY <2>3, <3>1, <3>2 DEF AskedIsBounded
  <2>. QED
    BY <2>1, <2>2, <2>3 DEF authorize
<1>2. CASE UNCHANGED asked
  BY <1>2 DEF AskedIsBounded
<1>. QED
  BY <1>1, <1>2 DEF NetworkNext, Handler, Agent, Wrapper, Accept, Request, PromptTimeout,
     ResolveAndDial, checkTunnelHost, HangUp, Write, Quiet, IdleTimeout, BrokerFails,
     Reap, AgentAccept, AgentReads, AgentTimeout, TypeKey, BuildEnds, SelectResult,
     SelectBrokerDone, CancelledResult, GateOpens, GateReads, GateTimeout

\* countedWriter.Write adds to the counter before it compares and writes.
LEMMA TransferBounded ==
  ASSUME NetworkTypeOK, BudgetIsShared, [NetworkNext]_networkVars
  PROVE  BudgetIsShared'
<1>1. CASE \E c \in Conns, d \in Dirs : Write(c, d)
  BY <1>1 DEF Write, BudgetIsShared, NetworkTypeOK
<1>2. CASE UNCHANGED passed
  BY <1>2 DEF BudgetIsShared
<1>. QED
  BY <1>1, <1>2 DEF NetworkNext, Handler, Agent, Wrapper, Accept, Request, authorize,
     PromptTimeout, ResolveAndDial, checkTunnelHost, HangUp, Quiet, IdleTimeout,
     BrokerFails, Reap, AgentAccept, AgentReads, AgentTimeout, TypeKey, BuildEnds,
     SelectResult, SelectBrokerDone, CancelledResult, GateOpens, GateReads, GateTimeout

-----------------------------------------------------------------------------
(* Questions.                                                              *)

\* Only Request writes a destination, and its handler goes on if it is permitted.
LEMMA RequestsPermitted ==
  ASSUME NetworkTypeOK, RequestsArePermitted, [NetworkNext]_networkVars
  PROVE  RequestsArePermitted'
<1>. USE DEF Requested, Handling, Outbound
<1>1. CASE \E c \in Conns : Request(c)
  BY <1>1 DEF Request, Become, RequestsArePermitted, permitsHost, NetworkTypeOK
<1>2. CASE \E c \in Conns : authorize(c)
  BY <1>2 DEF authorize, Become, RequestsArePermitted, permitsHost, NetworkTypeOK
<1>3. CASE \E c \in Conns : Accept(c) \/ PromptTimeout(c) \/ ResolveAndDial(c) \/ HangUp(c)
  BY <1>3 DEF Accept, PromptTimeout, ResolveAndDial, HangUp, Become, AllClosed,
     RequestsArePermitted, permitsHost, NetworkTypeOK
<1>4. CASE \E c \in Conns : checkTunnelHost(c)
  BY <1>4 DEF checkTunnelHost, Become, RequestsArePermitted, permitsHost, NetworkTypeOK
<1>5. CASE \E c \in Conns, d \in Dirs : Write(c, d) \/ IdleTimeout(c, d)
  BY <1>5 DEF Write, IdleTimeout, Become, RequestsArePermitted, permitsHost, NetworkTypeOK
<1>6. CASE BrokerFails \/ SelectResult \/ CancelledResult
  BY <1>6 DEF BrokerFails, SelectResult, CancelledResult, Stop, AllClosed,
     RequestsArePermitted, permitsHost, NetworkTypeOK
<1>7. CASE AgentReads \/ AgentTimeout
  BY <1>7 DEF AgentReads, AgentTimeout, Respond, Become, RequestsArePermitted,
     permitsHost, NetworkTypeOK
<1>8. CASE UNCHANGED <<conn, dest>>
  BY <1>8 DEF RequestsArePermitted, permitsHost
<1>. QED
  BY <1>1, <1>2, <1>3, <1>4, <1>5, <1>6, <1>7, <1>8 DEF NetworkNext, Handler, Agent, Wrapper,
     Quiet, Reap, AgentAccept, TypeKey, BuildEnds, SelectBrokerDone, GateOpens,
     GateReads, GateTimeout

\* Nothing takes a handler back before its question.
LEMMA RaisedStays ==
  ASSUME NetworkTypeOK, [NetworkNext]_networkVars, NEW q \in Conns, IsRaised(q)
  PROVE  IsRaised(q)'
<1>. USE DEF IsRaised
<1>1. CASE \E c \in Conns : Accept(c) \/ Request(c)
  BY <1>1 DEF Accept, Request, Become, AllClosed, Handling, Outbound, NetworkTypeOK
<1>2. CASE \E c \in Conns : authorize(c)
  BY <1>2 DEF authorize, Become, NetworkTypeOK
<1>3. CASE \E c \in Conns : PromptTimeout(c) \/ ResolveAndDial(c) \/ HangUp(c)
  BY <1>3 DEF PromptTimeout, ResolveAndDial, HangUp, Become, NetworkTypeOK
<1>4. CASE \E c \in Conns : checkTunnelHost(c)
  BY <1>4 DEF checkTunnelHost, Become, NetworkTypeOK
<1>5. CASE \E c \in Conns, d \in Dirs : Write(c, d) \/ IdleTimeout(c, d)
  BY <1>5 DEF Write, IdleTimeout, Become, NetworkTypeOK
<1>6. CASE BrokerFails \/ SelectResult \/ CancelledResult
  BY <1>6 DEF BrokerFails, SelectResult, CancelledResult, Stop, AllClosed, NetworkTypeOK
<1>7. CASE AgentReads \/ AgentTimeout
  BY <1>7 DEF AgentReads, AgentTimeout, Respond, Become, NetworkTypeOK
<1>8. CASE UNCHANGED <<conn, dest, asked>>
  BY <1>8
<1>. QED
  BY <1>1, <1>2, <1>3, <1>4, <1>5, <1>6, <1>7, <1>8 DEF NetworkNext, Handler, Agent, Wrapper,
     Quiet, Reap, AgentAccept, TypeKey, BuildEnds, SelectBrokerDone, GateOpens,
     GateReads, GateTimeout

\* A question is queued by the handler that holds the lock, and shown from the
\* head of the queue (serveNetworkPromptAgent).
LEMMA QuestionsRaisedOnce ==
  ASSUME NetworkTypeOK, RequestsArePermitted, QuestionsAreRaisedOnce, [NetworkNext]_networkVars
  PROVE  QuestionsAreRaisedOnce'
<1>. USE DEF QuestionsAreRaisedOnce
<1>. DEFINE StaysRaised(q) == conn'[q] \notin {"new", "read", "lock"} /\ dest'[q] \in asked'
<1>0. \A q \in Conns : IsRaised(q) => StaysRaised(q)
  BY RaisedStays DEF IsRaised
<1>a. /\ DOMAIN queue = 1 .. Len(queue) /\ Len(queue) \in Nat
      /\ \A i \in DOMAIN queue : queue[i] \in Conns /\ StaysRaised(queue[i])
  BY <1>0, LenProperties, ElementOfSeq DEF NetworkTypeOK
<1>b. \A q \in shown : StaysRaised(q)
  BY <1>0 DEF NetworkTypeOK
<1>1. CASE \E c \in Conns : authorize(c)
  <2>1. PICK c \in Conns : authorize(c)
    BY <1>1
  <2>2. CASE queue' = queue
    BY <1>a, <1>b, <2>1, <2>2 DEF authorize, IsRaised
  <2>3. CASE /\ queue' = Append(queue, c) /\ conn' = [conn EXCEPT ![c] = "ask"]
             /\ asked' = asked \cup {dest[c]}
    <3>1. StaysRaised(c) /\ ~IsRaised(c)
      BY <2>1, <2>3 DEF authorize, IsRaised, NetworkTypeOK
    <3>2. /\ Len(queue') = Len(queue) + 1 /\ queue' \in Seq(Conns)
          /\ \A i \in 1 .. Len(queue) : queue'[i] = queue[i]
          /\ queue'[Len(queue) + 1] = c
      BY <2>3, AppendProperties DEF NetworkTypeOK
    <3>3. /\ DOMAIN queue' = 1 .. Len(queue) + 1
          /\ \A i \in DOMAIN queue' : i # Len(queue) + 1 => i \in DOMAIN queue
      BY <1>a, <3>2, LenProperties
    <3>4. UNCHANGED <<shown, onScreen>> /\ c \notin shown
      BY <2>1, <3>1 DEF authorize
    <3>5. (\A i \in DOMAIN queue : IsRaised(queue[i]) /\ queue[i] \notin shown)'
      BY <1>a, <3>1, <3>2, <3>3, <3>4 DEF IsRaised
    <3>6. \A i \in DOMAIN queue : queue[i] # c
      BY <3>1
    <3>7. (\A i, j \in DOMAIN queue : queue[i] = queue[j] => i = j)'
      BY <1>a, <3>2, <3>3, <3>6
    <3>. QED
      BY <1>b, <3>4, <3>5, <3>7 DEF IsRaised
  <2>. QED
    BY <2>1, <2>2, <2>3 DEF authorize, Become
<1>2. CASE AgentAccept
  <2>1. /\ Head(queue) = queue[1] /\ Tail(queue) \in Seq(Conns)
        /\ Len(Tail(queue)) = Len(queue) - 1
        /\ \A i \in 1 .. Len(Tail(queue)) : Tail(queue)[i] = queue[i + 1]
    BY <1>2, HeadTailProperties DEF AgentAccept, NetworkTypeOK
  <2>2. DOMAIN Tail(queue) = 1 .. Len(queue) - 1 /\ 1 \in DOMAIN queue
    <3>1. Len(queue) # 0
      BY <1>2, EmptySeq DEF AgentAccept, NetworkTypeOK
    <3>2. DOMAIN Tail(queue) = 1 .. Len(Tail(queue))
      BY <2>1, LenProperties
    <3>. QED
      BY <1>a, <2>1, <3>1, <3>2
  <2>3. \A i \in DOMAIN Tail(queue) :
          i + 1 \in DOMAIN queue /\ i + 1 # 1 /\ Tail(queue)[i] = queue[i + 1]
    BY <1>a, <2>1, <2>2
  <2>4. (\A c \in shown : IsRaised(c))'
    <3>1. shown' = shown \cup {queue[1]} /\ StaysRaised(queue[1])
      BY <1>2, <1>a, <2>1, <2>2 DEF AgentAccept
    <3>. QED
      BY <1>b, <3>1 DEF IsRaised
  <2>5. (\A i \in DOMAIN queue : IsRaised(queue[i]) /\ queue[i] \notin shown)'
    <3>1. shown' = shown \cup {queue[1]} /\ queue' = Tail(queue)
      BY <1>2, <2>1 DEF AgentAccept
    <3>2. ASSUME NEW i \in DOMAIN Tail(queue)
          PROVE  StaysRaised(Tail(queue)[i]) /\ Tail(queue)[i] \notin shown \cup {queue[1]}
      BY <1>a, <2>2, <2>3
    <3>. QED
      BY <3>1, <3>2 DEF IsRaised
  <2>6. \A i, j \in DOMAIN Tail(queue) : Tail(queue)[i] = Tail(queue)[j] => i = j
    <3>. SUFFICES ASSUME NEW i \in DOMAIN Tail(queue), NEW j \in DOMAIN Tail(queue),
                         Tail(queue)[i] = Tail(queue)[j]
                  PROVE  i = j
      OBVIOUS
    <3>1. i + 1 = j + 1
      BY <2>3
    <3>. QED
      BY <1>a, <2>2, <3>1
  <2>. QED
    BY <1>2, <2>4, <2>5, <2>6 DEF AgentAccept
<1>3. CASE SelectResult \/ CancelledResult
  <2>1. queue' = <<>> /\ UNCHANGED <<shown, onScreen>>
    BY <1>3 DEF SelectResult, CancelledResult, Stop
  <2>. QED
    BY <1>b, <2>1 DEF IsRaised
<1>4. CASE UNCHANGED <<queue, shown>> /\ onScreen' \in {onScreen, "none"}
  BY <1>4, <1>a, <1>b DEF IsRaised
<1>. QED
  BY <1>1, <1>2, <1>3, <1>4 DEF NetworkNext, Handler, Agent, Wrapper, Accept, Request,
     PromptTimeout, ResolveAndDial, checkTunnelHost, HangUp, Write, Quiet, IdleTimeout,
     BrokerFails, Reap, AgentReads, AgentTimeout, TypeKey, BuildEnds, SelectBrokerDone,
     GateOpens, GateReads, GateTimeout

\* The terminal is drained before a question is drawn and after it is over
\* (safe.PromptTerminal), so no yes outlives its question.
LEMMA KeysAnswer ==
  ASSUME NetworkTypeOK, KeysAnswerTheScreen, [NetworkNext]_networkVars
  PROVE  KeysAnswerTheScreen'
<1>1. CASE \E q \in Questions, ch \in YesNo \cup Gate : TypeKey(q, ch)
  <2>1. PICK q \in Questions, ch \in YesNo \cup Gate : TypeKey(q, ch)
    BY <1>1
  <2>2. CASE q \in Conns
    BY <2>1, <2>2 DEF TypeKey, KeysAnswerTheScreen, NetworkTypeOK
  <2>3. CASE q \notin Conns
    BY <2>1, <2>3 DEF TypeKey, KeysAnswerTheScreen, NetworkTypeOK, Gate, Questions
  <2>. QED
    BY <2>2, <2>3
<1>2. CASE key' = {}
  BY <1>2 DEF KeysAnswerTheScreen
<1>3. CASE UNCHANGED <<key, onScreen, said>>
  BY <1>3 DEF KeysAnswerTheScreen
<1>. QED
  BY <1>1, <1>2, <1>3 DEF NetworkNext, Handler, Agent, Wrapper, Accept, Request, authorize,
     PromptTimeout, ResolveAndDial, checkTunnelHost, HangUp, Write, Quiet, IdleTimeout,
     BrokerFails, Reap, AgentAccept, AgentReads, AgentTimeout, BuildEnds, SelectResult,
     SelectBrokerDone, CancelledResult, GateOpens, GateReads, GateTimeout

\* A grant is made when the question on the screen is answered with yes, and the
\* answers to questions that are over stay what they are.
LEMMA GrantsGiven ==
  ASSUME NetworkTypeOK, QuestionsAreRaisedOnce, KeysAnswerTheScreen, GrantsWereGiven, [NetworkNext]_networkVars
  PROVE  GrantsWereGiven'
<1>. DEFINE Gave(a, d) == a \in shown \ {onScreen} /\ dest[a] = d /\ said[a] = "yes"
<1>0. \A d \in grants : \E a \in Conns : Gave(a, d)
  BY DEF GrantsWereGiven, NetworkTypeOK
<1>1. CASE \E c \in Conns : Request(c)
  <2>1. \A a \in shown : dest'[a] = dest[a]
    BY <1>1 DEF Request, QuestionsAreRaisedOnce, IsRaised, NetworkTypeOK
  <2>2. UNCHANGED <<grants, shown, onScreen, said>>
    BY <1>1 DEF Request
  <2>. QED
    BY <2>1, <2>2 DEF GrantsWereGiven
<1>2. CASE AgentAccept
  <2>1. /\ onScreen' \notin shown /\ shown \subseteq shown'
        /\ UNCHANGED <<grants, dest, said>>
    <3>1. queue # <<>> /\ Head(queue) = queue[1] /\ 1 \in DOMAIN queue
      BY <1>2, EmptySeq, LenProperties DEF AgentAccept, NetworkTypeOK
    <3>. QED
      BY <1>2, <3>1 DEF AgentAccept, QuestionsAreRaisedOnce
  <2>. QED
    BY <2>1, <1>0 DEF GrantsWereGiven
<1>3. CASE AgentReads
  <2>1. PICK k \in key : key = {k}
    BY <1>3 DEF AgentReads, NetworkTypeOK
  <2>2. CASE UNCHANGED <<grants, onScreen>>
    BY <1>3, <2>2 DEF AgentReads, GrantsWereGiven
  <2>3. CASE UNCHANGED grants /\ onScreen' = "none"
    BY <1>3, <2>3, <1>0 DEF AgentReads, GrantsWereGiven, NetworkTypeOK
  <2>4. CASE grants' = grants \cup {dest[onScreen]} /\ onScreen' = "none" /\ k.ch = "y"
    <3>1. onScreen \in shown /\ said[onScreen] = "yes"
      BY <1>3, <2>1, <2>4 DEF AgentReads, KeysAnswerTheScreen, QuestionsAreRaisedOnce
    <3>2. "none" \notin shown /\ UNCHANGED <<shown, dest, said>>
      BY <1>3 DEF AgentReads, NetworkTypeOK
    <3>. QED
      BY <1>0, <2>4, <3>1, <3>2 DEF GrantsWereGiven
  <2>. QED
    BY <1>3, <2>1, <2>2, <2>3, <2>4 DEF AgentReads, Respond
<1>4. CASE AgentTimeout
  BY <1>4, <1>0 DEF AgentTimeout, Respond, GrantsWereGiven, NetworkTypeOK
<1>5. CASE \E q \in Questions, ch \in YesNo \cup Gate : TypeKey(q, ch)
  <2>1. \A a \in shown \ {onScreen} : said'[a] = said[a]
    BY <1>5 DEF TypeKey, NetworkTypeOK
  <2>2. UNCHANGED <<grants, shown, onScreen, dest>>
    BY <1>5 DEF TypeKey
  <2>. QED
    BY <2>1, <2>2 DEF GrantsWereGiven
<1>6. CASE UNCHANGED <<grants, shown, onScreen, dest, said>>
  BY <1>6 DEF GrantsWereGiven
<1>. QED
  BY <1>1, <1>2, <1>3, <1>4, <1>5, <1>6 DEF NetworkNext, Handler, Agent, Wrapper, Accept,
     authorize, PromptTimeout, ResolveAndDial, checkTunnelHost, HangUp, Write, Quiet,
     IdleTimeout, BrokerFails, Reap, BuildEnds, SelectResult, SelectBrokerDone,
     CancelledResult, GateOpens, GateReads, GateTimeout

\* A handler resolves a name only with a grant, and opens a tunnel only when its
\* first message names the same host (authorize, checkTunnelHost).
LEMMA EgressGranted ==
  ASSUME NetworkTypeOK, EgressWasGranted, [NetworkNext]_networkVars
  PROVE  EgressWasGranted'
<1>. USE DEF Outbound, Handling
<1>1. CASE \E c \in Conns : Accept(c) \/ Request(c)
  BY <1>1 DEF Accept, Request, Become, AllClosed, EgressWasGranted, NetworkTypeOK
<1>2. CASE \E c \in Conns : authorize(c)
  BY <1>2 DEF authorize, Become, EgressWasGranted, NetworkTypeOK
<1>3. CASE \E c \in Conns : PromptTimeout(c) \/ ResolveAndDial(c) \/ HangUp(c)
  BY <1>3 DEF PromptTimeout, ResolveAndDial, HangUp, Become, EgressWasGranted, NetworkTypeOK
<1>4. CASE \E c \in Conns : checkTunnelHost(c)
  BY <1>4 DEF checkTunnelHost, Become, EgressWasGranted, NetworkTypeOK
<1>5. CASE \E c \in Conns, d \in Dirs : Write(c, d) \/ IdleTimeout(c, d)
  BY <1>5 DEF Write, IdleTimeout, Become, EgressWasGranted, NetworkTypeOK
<1>6. CASE BrokerFails \/ SelectResult \/ CancelledResult
  BY <1>6 DEF BrokerFails, SelectResult, CancelledResult, Stop, AllClosed,
     EgressWasGranted, NetworkTypeOK
<1>7. CASE AgentReads \/ AgentTimeout
  BY <1>7 DEF AgentReads, AgentTimeout, Respond, Become, EgressWasGranted, NetworkTypeOK
<1>8. CASE UNCHANGED <<conn, dest, peer, grants>>
  BY <1>8 DEF EgressWasGranted
<1>. QED
  BY <1>1, <1>2, <1>3, <1>4, <1>5, <1>6, <1>7, <1>8 DEF NetworkNext, Handler, Agent, Wrapper,
     Quiet, Reap, AgentAccept, TypeKey, BuildEnds, SelectBrokerDone, GateOpens,
     GateReads, GateTimeout

-----------------------------------------------------------------------------
(* The theorems.                                                           *)

\* A phase starts with nothing asked, granted or sent.
LEMMA NetworkInitially == NetworkInit => NetworkInv
<1>. SUFFICES ASSUME NetworkInit PROVE NetworkInv
  OBVIOUS
<1>1. NetworkTypeOK
  BY EmptySeq DEF NetworkInit, NetworkTypeOK
<1>2. AskedIsBounded
  BY FS_EmptySet DEF NetworkInit, AskedIsBounded
<1>3. RequestsArePermitted /\ EgressWasGranted
  BY DEF NetworkInit, RequestsArePermitted, EgressWasGranted, Requested, Outbound
<1>4. QuestionsAreRaisedOnce
  BY DEF NetworkInit, QuestionsAreRaisedOnce
<1>5. RequestsAreCounted /\ KeysAnswerTheScreen /\ GrantsWereGiven /\ BudgetIsShared
  BY DEF NetworkInit, RequestsAreCounted, KeysAnswerTheScreen, GrantsWereGiven, BudgetIsShared
<1>. QED
  BY <1>1, <1>2, <1>3, <1>4, <1>5 DEF NetworkInv

\* Every step of the broker, a handler, the agent, the user and the wrapper
\* preserves the invariant.
LEMMA NetworkInductively == NetworkInv /\ [NetworkNext]_networkVars => NetworkInv'
  BY Types, RequestsCounted, AskedBounded, TransferBounded, RequestsPermitted,
     QuestionsRaisedOnce, KeysAnswer, GrantsGiven, EgressGranted DEF NetworkInv

\* The invariant of the phase holds in all of its states.
THEOREM NetworkInductive == NetworkSpec => []NetworkInv
  BY NetworkInitially, NetworkInductively, PTL DEF NetworkSpec

\* The broker, the agent and the wrapper keep their state well-formed.
THEOREM NetworkTypeCorrect == NetworkSpec => []NetworkTypeOK
<1>1. NetworkInv => NetworkTypeOK
  BY DEF NetworkInv
<1>. QED
  BY <1>1, NetworkInductive, PTL

\* However its handlers, the agent, the user and the package interleave, nothing
\* leaves the phase but to a permitted destination the user said yes to, and a
\* tunnel names that destination (authorize, checkTunnelHost, ReadYesNo).
THEOREM ConsentBeforeEgress == NetworkSpec => []EgressNeedsConsent
<1>1. NetworkInv => EgressNeedsConsent
  <2>. SUFFICES ASSUME NetworkInv, NEW c \in Conns, conn[c] \in Outbound
                PROVE  /\ permitsHost(dest[c])
                       /\ \E a \in shown : dest[a] = dest[c] /\ said[a] = "yes"
                       /\ conn[c] = "tunnel" /\ dest[c] \notin Literals => peer[c] = dest[c]
    BY DEF EgressNeedsConsent
  <2>1. permitsHost(dest[c])
    BY DEF NetworkInv, RequestsArePermitted, Requested
  <2>2. dest[c] \in grants
    BY DEF NetworkInv, EgressWasGranted
  <2>3. \E a \in shown : dest[a] = dest[c] /\ said[a] = "yes"
    BY <2>2 DEF NetworkInv, GrantsWereGiven
  <2>. QED
    BY <2>1, <2>3 DEF NetworkInv, EgressWasGranted
<1>. QED
  BY <1>1, NetworkInductive, PTL

\* The user is asked about at most MaxDestinations destinations in a phase,
\* whatever is denied or expires (authorize).
THEOREM BoundedDestinations == NetworkSpec => []DestinationsAreBounded
<1>1. NetworkInv => DestinationsAreBounded
  <2>. SUFFICES ASSUME NetworkInv PROVE DestinationsAreBounded
    OBVIOUS
  <2>1. {dest[c] : c \in shown} \subseteq asked
    BY DEF NetworkInv, QuestionsAreRaisedOnce, IsRaised
  <2>2. /\ IsFiniteSet({dest[c] : c \in shown})
        /\ Cardinality({dest[c] : c \in shown}) <= Cardinality(asked)
    BY <2>1, FS_Subset DEF NetworkInv, AskedIsBounded
  <2>3. Cardinality({dest[c] : c \in shown}) \in Nat /\ Cardinality(asked) \in Nat
    BY <2>2, FS_CardinalityType DEF NetworkInv, AskedIsBounded
  <2>. QED
    BY <2>2, <2>3 DEF NetworkInv, AskedIsBounded, DestinationsAreBounded
<1>. QED
  BY <1>1, NetworkInductive, PTL

\* All tunnels of a phase share one transfer budget (countedWriter.Write).
THEOREM SharedBudget == NetworkSpec => []BudgetIsShared
<1>1. NetworkInv => BudgetIsShared
  BY DEF NetworkInv
<1>. QED
  BY <1>1, NetworkInductive, PTL
=============================================================================
