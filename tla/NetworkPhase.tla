---------------------------- MODULE NetworkPhase ----------------------------
(***************************************************************************)
(* One makepkg phase with brokered network access: the broker process and  *)
(* its handlers (internal/egress/broker.go), the prompt agent that owns    *)
(* the terminal (serveNetworkPromptAgent, ui/egress_prompt.go and          *)
(* safe.PromptTerminal), and the wrapper that supervises the phase         *)
(* (runMakepkgSandbox in internal/audit/build.go) and afterwards asks the  *)
(* effect gate's question on the same terminal.                            *)
(*                                                                         *)
(* They are separate processes, and within the broker every accepted       *)
(* connection has a handler of its own: an action is one step of one of    *)
(* them.  A Dest is a host and port as the client names it.  Time is not   *)
(* measured: a timeout may fire whenever the wait it bounds goes on.       *)
(***************************************************************************)
EXTENDS Integers, Sequences, FiniteSets

CONSTANTS
  Conns,             \* connections the package's processes open in the phase
  Dests,             \* hosts and ports they ask for
  Valid,             \* of these, the ones with a valid host name and port
  AllowedHosts,      \* cfg.AllowedHosts; empty for no restriction
  Literals,          \* destinations that are address literals, not names
  MaxRequests,
  MaxConnections,
  MaxDestinations,
  MaxTransferBytes,
  MaxWrite           \* bound on the bytes of one write of a tunnel

ASSUME NetworkAssumption ==
  /\ Valid \subseteq Dests /\ AllowedHosts \subseteq Dests /\ Literals \subseteq Dests
  /\ MaxRequests \in Nat \ {0} /\ MaxConnections \in Nat \ {0}
  /\ MaxDestinations \in Nat \ {0} /\ MaxTransferBytes \in Nat \ {0}
  /\ MaxWrite \in Nat \ {0}
  /\ "none" \notin Conns \cup Dests /\ {"gate", "output"} \cap Conns = {}

VARIABLES
  broker,    \* the broker process: up, exited, reaped (done is closed), stopped
  requests,  \* connections the accept loop has taken
  conn,      \* where the handler of each connection is
  dest,      \* the destination each connection asked for
  peer,      \* the host the first message of each tunnel names
  asked,     \* destinations a prompt was raised for
  grants,    \* destinations the user allowed
  used,      \* bytes counted against the budget
  passed,    \* counted bytes that were let through
  recent,    \* directions of each tunnel that moved a byte within the timeout
  queue,     \* connections whose prompt request waits for the agent
  onScreen,  \* the connection the agent is asking about, or none
  shown,     \* connections the user was asked about
  key,       \* the unread key on the terminal, and the question it answers
  said,      \* what the user answered to the question about each connection
  heard,     \* which question read the answer meant for which question
  build,     \* the contained command: running, ok, error
  runner,    \* the supervising wrapper: select, cancelled, ok, failed
  gate       \* the effect gate's question: none, open, answered, expired

brokerVars == <<broker, requests>>
connVars == <<conn, dest, peer>>
grantVars == <<asked, grants>>
byteVars == <<used, passed, recent>>
agentVars == <<queue, onScreen, shown>>
ttyVars == <<key, said, heard>>
phaseVars == <<build, runner, gate>>
networkVars == <<brokerVars, connVars, grantVars, byteVars, agentVars, ttyVars, phaseVars>>

Dirs == {"up", "down"}
\* What the user may be answering: a network question, the gate's, or something
\* the package printed while no question was on the screen.
Questions == Conns \cup {"gate", "output"}

\* The keys ReadYesNo and the gate act on; each ignores every other key.  "k"
\* stands for the gate's letters and numbers.
YesNo == {"y", "n", "enter"}
Gate == {"k", "enter"}

\* A handler runs from accept to close; from resolve on it touches the network.
Outbound == {"resolve", "check", "tunnel"}
Handling == {"read", "lock", "ask"} \cup Outbound
Ended == {"closed", "timedout"}

NetworkTypeOK ==
  /\ broker \in {"up", "exited", "reaped", "stopped"}
  /\ requests \in 0 .. MaxRequests + 1
  /\ conn \in [Conns -> {"new"} \cup Handling \cup Ended]
  /\ dest \in [Conns -> Dests \cup {"none"}]
  /\ peer \in [Conns -> Dests \cup {"none"}]
  /\ asked \subseteq Dests
  /\ grants \subseteq asked
  /\ used \in Nat
  /\ passed \in 0 .. used
  /\ recent \in [Conns -> SUBSET Dirs]
  /\ queue \in Seq(Conns)
  /\ onScreen \in Conns \cup {"none"}
  /\ shown \subseteq Conns
  /\ key \subseteq [for : Questions, ch : YesNo \cup Gate]
  /\ \A k, l \in key : k = l
  /\ said \in [Conns -> {"none", "yes", "no"}]
  /\ heard \subseteq Questions \X Questions
  /\ build \in {"running", "ok", "error"}
  /\ runner \in {"select", "cancelled", "ok", "failed"}
  /\ gate \in {"none", "open", "answered", "expired"}

NetworkInit ==
  /\ broker = "up" /\ requests = 0
  /\ conn = [c \in Conns |-> "new"]
  /\ dest = [c \in Conns |-> "none"]
  /\ peer = [c \in Conns |-> "none"]
  /\ asked = {} /\ grants = {}
  /\ used = 0 /\ passed = 0
  /\ recent = [c \in Conns |-> {}]
  /\ queue = <<>> /\ onScreen = "none" /\ shown = {}
  /\ key = {} /\ said = [c \in Conns |-> "none"] /\ heard = {}
  /\ build = "running" /\ runner = "select" /\ gate = "none"

-----------------------------------------------------------------------------
(* RunNetworkBroker: the accept loop.                                      *)

Become(c, s) == conn' = [conn EXCEPT ![c] = s]

\* The broker process is gone, and every handler and connection with it.
AllClosed == conn' = [c \in Conns |-> IF conn[c] \in Handling THEN "closed" ELSE conn[c]]

Handlers == {c \in Conns : conn[c] \in Handling}

\* A connection beyond the request budget ends the broker; one beyond the
\* semaphore is closed, and has still been counted.
Accept(c) ==
  /\ broker = "up" /\ build = "running" /\ conn[c] = "new"
  /\ requests' = requests + 1
  /\ IF requests' > MaxRequests
       THEN broker' = "exited" /\ AllClosed
       ELSE /\ Become(c, IF Cardinality(Handlers) < MaxConnections THEN "read" ELSE "closed")
            /\ UNCHANGED broker
  /\ UNCHANGED <<dest, peer, grantVars, byteVars, agentVars, ttyVars, phaseVars>>

\* Any other end of the broker process: a failed accept, a signal.
BrokerFails ==
  /\ broker = "up"
  /\ broker' = "exited" /\ AllClosed
  /\ UNCHANGED <<requests, dest, peer, grantVars, byteVars, agentVars, ttyVars, phaseVars>>

\* command.Wait returns in StartBroker's goroutine, which closes done.
Reap ==
  /\ broker = "exited"
  /\ broker' = "reaped"
  /\ UNCHANGED <<requests, connVars, grantVars, byteVars, agentVars, ttyVars, phaseVars>>

-----------------------------------------------------------------------------
(* handle, handleSOCKS, handleHTTP, dialPublic, authorize.                 *)

permitsHost(d) == AllowedHosts = {} \/ d \in AllowedHosts

\* The request is parsed and its destination held to the phase's host set,
\* before anybody is asked and before the name is resolved.
Request(c) ==
  /\ conn[c] = "read"
  /\ \E d \in Dests :
       /\ dest' = [dest EXCEPT ![c] = d]
       /\ Become(c, IF d \in Valid /\ permitsHost(d) THEN "lock" ELSE "closed")
  /\ UNCHANGED <<brokerVars, peer, grantVars, byteVars, agentVars, ttyVars, phaseVars>>

\* grantMu is held from the lookup to the answer, so one handler asks at a time.
grantMuFree == \A c \in Conns : conn[c] # "ask"

\* Fault: the destination is not recorded as asked about.
authorize_forgets(c) ==
  /\ conn[c] = "lock" /\ grantMuFree
  /\ \/ dest[c] \in grants /\ Become(c, "resolve") /\ UNCHANGED queue
     \/ /\ dest[c] \notin grants /\ Cardinality(asked) < MaxDestinations
        /\ queue' = Append(queue, c)
        /\ Become(c, "ask")
  /\ UNCHANGED <<brokerVars, dest, peer, grantVars, byteVars, onScreen, shown, ttyVars, phaseVars>>

\* Fault: the limit counts the destinations that were allowed.
authorize_countsGrants(c) ==
  /\ conn[c] = "lock" /\ grantMuFree
  /\ \/ dest[c] \in grants /\ Become(c, "resolve") /\ UNCHANGED <<grantVars, queue>>
     \/ /\ dest[c] \notin grants
        /\ Cardinality(grants) >= MaxDestinations
        /\ Become(c, "closed") /\ UNCHANGED <<grantVars, queue>>
     \/ /\ dest[c] \notin grants /\ Cardinality(grants) < MaxDestinations
        /\ asked' = asked \cup {dest[c]} /\ UNCHANGED grants
        /\ queue' = Append(queue, c)
        /\ Become(c, "ask")
  /\ UNCHANGED <<brokerVars, dest, peer, byteVars, onScreen, shown, ttyVars, phaseVars>>

\* A granted destination passes; a new one beyond the limit is refused; any
\* other, asked about before or not, is put to the agent.
authorize(c) ==
  /\ conn[c] = "lock" /\ grantMuFree
  /\ \/ dest[c] \in grants /\ Become(c, "resolve") /\ UNCHANGED <<grantVars, queue>>
     \/ /\ dest[c] \notin asked
        /\ Cardinality(asked) >= MaxDestinations
        /\ Become(c, "closed") /\ UNCHANGED <<grantVars, queue>>
     \/ /\ dest[c] \notin grants
        /\ dest[c] \in asked \/ Cardinality(asked) < MaxDestinations
        /\ asked' = asked \cup {dest[c]} /\ UNCHANGED grants
        /\ queue' = Append(queue, c)
        /\ Become(c, "ask")
  /\ UNCHANGED <<brokerVars, dest, peer, byteVars, onScreen, shown, ttyVars, phaseVars>>

\* Fault: no deadline is set on the prompt connection.
PromptTimeout_absent(c) == conn[c] = "never" /\ UNCHANGED networkVars

\* The deadline of the prompt exchange, or any other failure of it.  The request
\* stays with the agent, which does not learn that nobody waits any more.
PromptTimeout(c) ==
  /\ conn[c] = "ask"
  /\ Become(c, "closed")
  /\ UNCHANGED <<brokerVars, dest, peer, grantVars, byteVars, agentVars, ttyVars, phaseVars>>

\* One resolution, every address of it public, one of them dialled; or not.
ResolveAndDial(c) ==
  /\ conn[c] = "resolve"
  /\ \/ Become(c, "check")
     \/ Become(c, "closed")
  /\ UNCHANGED <<brokerVars, dest, peer, grantVars, byteVars, agentVars, ttyVars, phaseVars>>

\* Fault: the tunnel is opened without looking at what it names.
checkTunnelHost_absent(c) ==
  /\ conn[c] = "check"
  /\ \E n \in Dests :
       /\ peer' = [peer EXCEPT ![c] = n]
       /\ Become(c, "tunnel")
       /\ recent' = [recent EXCEPT ![c] = Dirs]
  /\ UNCHANGED <<brokerVars, dest, grantVars, used, passed, agentVars, ttyVars, phaseVars>>

\* The first message of a CONNECT or SOCKS tunnel must name the approved host,
\* unless that is an address literal.  A plain HTTP request is rebuilt to name it.
checkTunnelHost(c) ==
  /\ conn[c] = "check"
  /\ \E n \in Dests :
       IF n = dest[c] \/ dest[c] \in Literals
         THEN /\ peer' = [peer EXCEPT ![c] = n]
              /\ Become(c, "tunnel")
              /\ recent' = [recent EXCEPT ![c] = Dirs]
         ELSE Become(c, "closed") /\ UNCHANGED <<peer, recent>>
  /\ UNCHANGED <<brokerVars, dest, grantVars, used, passed, agentVars, ttyVars, phaseVars>>

\* Fault: the budget is compared before the write is added to it.
Write_checksFirst(c, d) ==
  /\ conn[c] = "tunnel"
  /\ \E n \in 1 .. MaxWrite :
       /\ used' = used + n
       /\ IF used >= MaxTransferBytes
            THEN Become(c, "closed") /\ recent' = [recent EXCEPT ![c] = {}] /\ UNCHANGED passed
            ELSE /\ passed' = passed + n
                 /\ recent' = [recent EXCEPT ![c] = @ \cup {d}]
                 /\ UNCHANGED conn
  /\ UNCHANGED <<brokerVars, dest, peer, grantVars, agentVars, ttyVars, phaseVars>>

\* countedWriter.Write and countedReadCloser.Read: the shared counter is increased
\* first, atomically, and a write that takes it past the budget is not made and ends
\* the tunnel.  The head of a plain HTTP request is counted by neither.
Write(c, d) ==
  /\ conn[c] = "tunnel"
  /\ \E n \in 1 .. MaxWrite :
       /\ used' = used + n
       /\ IF used' > MaxTransferBytes
            THEN Become(c, "closed") /\ recent' = [recent EXCEPT ![c] = {}] /\ UNCHANGED passed
            ELSE /\ passed' = passed + n
                 /\ recent' = [recent EXCEPT ![c] = @ \cup {d}]
                 /\ UNCHANGED conn
  /\ UNCHANGED <<brokerVars, dest, peer, grantVars, agentVars, ttyVars, phaseVars>>

\* The idle timeout passes without a byte in one direction ...
Quiet(c, d) ==
  /\ conn[c] = "tunnel" /\ d \in recent[c]
  /\ recent' = [recent EXCEPT ![c] = @ \ {d}]
  /\ UNCHANGED <<brokerVars, connVars, grantVars, used, passed, agentVars, ttyVars, phaseVars>>

\* ... and the read deadline of that direction ends the tunnel.
IdleTimeout(c, d) ==
  /\ conn[c] = "tunnel" /\ d \notin recent[c]
  /\ Become(c, "timedout")
  /\ UNCHANGED <<brokerVars, dest, peer, grantVars, byteVars, agentVars, ttyVars, phaseVars>>

\* Either end hangs up, sends what cannot be parsed, or says nothing in time.
HangUp(c) ==
  /\ conn[c] \in {"read", "check", "tunnel"}
  /\ Become(c, "closed")
  /\ recent' = [recent EXCEPT ![c] = {}]
  /\ UNCHANGED <<brokerVars, dest, peer, grantVars, used, passed, agentVars, ttyVars, phaseVars>>

-----------------------------------------------------------------------------
(* serveNetworkPromptAgent and the terminal.                               *)

\* Fault: input typed for an earlier question is left in the queue.
AgentAccept_keepsInput ==
  /\ onScreen = "none" /\ queue # <<>> /\ broker # "stopped"
  /\ onScreen' = Head(queue)
  /\ queue' = Tail(queue)
  /\ shown' = shown \cup {Head(queue)}
  /\ UNCHANGED <<brokerVars, connVars, grantVars, byteVars, ttyVars, phaseVars>>

\* The question is drawn on a terminal whose queued input was discarded.
AgentAccept ==
  /\ onScreen = "none" /\ queue # <<>> /\ broker # "stopped"
  /\ onScreen' = Head(queue)
  /\ queue' = Tail(queue)
  /\ shown' = shown \cup {Head(queue)}
  /\ key' = {}
  /\ UNCHANGED <<brokerVars, connVars, grantVars, byteVars, said, heard, phaseVars>>

\* The user answers one of the questions on the screen, or what looks like one.
TypeKey(q, ch) ==
  /\ key = {}
  /\ \/ q = onScreen /\ ch \in YesNo
     \/ q = "gate" /\ gate = "open" /\ ch \in Gate
     \/ q = "output" /\ onScreen = "none" /\ gate # "open" /\ build = "running"
  /\ key' = {[for |-> q, ch |-> ch]}
  /\ said' = IF q \in Conns THEN [said EXCEPT ![q] = IF ch = "y" THEN "yes" ELSE "no"] ELSE said
  /\ UNCHANGED <<brokerVars, connVars, grantVars, byteVars, agentVars, heard, phaseVars>>

\* The response reaches the handler if it still waits, which is then done asking.
Respond(c, allow) ==
  IF conn[c] = "ask"
    THEN /\ Become(c, IF allow THEN "resolve" ELSE "closed")
         /\ grants' = IF allow THEN grants \cup {dest[c]} ELSE grants
    ELSE UNCHANGED <<conn, grants>>

\* ReadYesNo takes the next key of the terminal, whoever it was typed for.
AgentReads ==
  /\ onScreen # "none"
  /\ \E k \in key :
       IF k.ch \in YesNo
         THEN /\ Respond(onScreen, k.ch = "y")
              /\ heard' = heard \cup {<<onScreen, k.for>>}
              /\ onScreen' = "none"
         ELSE UNCHANGED <<conn, grants, heard, onScreen>>
  /\ key' = {}
  /\ UNCHANGED <<brokerVars, dest, peer, asked, byteVars, queue, shown, said, phaseVars>>

\* The agent's own timeout denies.  Restoring the terminal mode discards input.
AgentTimeout ==
  /\ onScreen # "none"
  /\ Respond(onScreen, FALSE)
  /\ onScreen' = "none" /\ key' = {}
  /\ UNCHANGED <<brokerVars, dest, peer, asked, byteVars, queue, shown, said, heard, phaseVars>>

-----------------------------------------------------------------------------
(* runMakepkgSandbox, and the effect gate that follows a successful build. *)

BuildEnds(result) ==
  /\ build = "running"
  /\ build' = result
  /\ UNCHANGED <<brokerVars, connVars, grantVars, byteVars, agentVars, ttyVars, runner, gate>>

\* The deferred broker.Stop: no more prompts are accepted and the broker is
\* killed, but a question already on the screen stays there.
Stop ==
  /\ broker' = "stopped" /\ AllClosed
  /\ queue' = <<>>

\* case completed := <-result: the result stands unless the broker is known to
\* have failed.
SelectResult ==
  /\ runner = "select" /\ build # "running"
  /\ runner' = IF broker = "reaped" \/ build = "error" THEN "failed" ELSE "ok"
  /\ Stop
  /\ UNCHANGED <<requests, dest, peer, grantVars, byteVars, onScreen, shown, ttyVars, build, gate>>

\* Fault: the wrapper only waits for the command.
SelectBrokerDone_absent == runner = "never" /\ UNCHANGED networkVars

\* case <-broker.Done(): the command is cancelled ...
SelectBrokerDone ==
  /\ runner = "select" /\ broker = "reaped"
  /\ runner' = "cancelled"
  /\ UNCHANGED <<brokerVars, connVars, grantVars, byteVars, agentVars, ttyVars, build, gate>>

\* ... and the phase fails whatever the command's own result is.
CancelledResult ==
  /\ runner = "cancelled" /\ build # "running"
  /\ runner' = "failed"
  /\ Stop
  /\ UNCHANGED <<requests, dest, peer, grantVars, byteVars, onScreen, shown, ttyVars, build, gate>>

\* PromptGate opens the terminal, discarding queued input, and reads one key.
GateOpens ==
  /\ runner = "ok" /\ gate = "none"
  /\ gate' = "open" /\ key' = {}
  /\ UNCHANGED <<brokerVars, connVars, grantVars, byteVars, agentVars, said, heard, build, runner>>

GateReads ==
  /\ gate = "open"
  /\ \E k \in key :
       IF k.ch \in Gate
         THEN gate' = "answered" /\ heard' = heard \cup {<<"gate", k.for>>}
         ELSE UNCHANGED <<gate, heard>>
  /\ key' = {}
  /\ UNCHANGED <<brokerVars, connVars, grantVars, byteVars, agentVars, said, build, runner>>

GateTimeout ==
  /\ gate = "open"
  /\ gate' = "expired" /\ key' = {}
  /\ UNCHANGED <<brokerVars, connVars, grantVars, byteVars, agentVars, said, heard, build, runner>>

-----------------------------------------------------------------------------
Handler(c) ==
  \/ Accept(c) \/ Request(c) \/ authorize(c) \/ PromptTimeout(c)
  \/ ResolveAndDial(c) \/ checkTunnelHost(c) \/ HangUp(c)
  \/ \E d \in Dirs : Write(c, d) \/ Quiet(c, d) \/ IdleTimeout(c, d)

Agent ==
  \/ AgentAccept \/ AgentReads \/ AgentTimeout
  \/ \E q \in Questions, ch \in YesNo \cup Gate : TypeKey(q, ch)

Wrapper ==
  \/ \E r \in {"ok", "error"} : BuildEnds(r)
  \/ SelectResult \/ SelectBrokerDone \/ CancelledResult
  \/ GateOpens \/ GateReads \/ GateTimeout

NetworkNext == (\E c \in Conns : Handler(c)) \/ BrokerFails \/ Reap \/ Agent \/ Wrapper

NetworkSpec == NetworkInit /\ [][NetworkNext]_networkVars

\* Timers fire, the scheduler runs every goroutine that can run, and a Go mutex
\* hands itself over to a waiter that starves.  Nothing is asked of the user, of
\* the package, of the servers, or of the build before it is cancelled.
Fairness ==
  /\ WF_networkVars(Reap) /\ WF_networkVars(SelectResult) /\ WF_networkVars(SelectBrokerDone)
  /\ WF_networkVars(runner = "cancelled" /\ BuildEnds("error"))
  /\ WF_networkVars(CancelledResult)
  /\ \A c \in Conns :
       /\ WF_networkVars(conn[c] \in {"read", "check"} /\ HangUp(c))
       /\ SF_networkVars(authorize(c))
       /\ WF_networkVars(PromptTimeout(c))
       /\ WF_networkVars(ResolveAndDial(c))
       /\ \A d \in Dirs : WF_networkVars(Quiet(c, d)) /\ WF_networkVars(IdleTimeout(c, d))

NetworkFairSpec == NetworkSpec /\ Fairness

-----------------------------------------------------------------------------
(* Properties.                                                             *)

\* No name is resolved and no byte leaves for a destination unless it is one
\* the phase permits and the user, shown that very destination, answered yes to
\* that question: not to an expired one, nor to anything printed before it.  A
\* tunnel then names no other host.
EgressNeedsConsent ==
  \A c \in Conns : conn[c] \in Outbound =>
    /\ permitsHost(dest[c])
    /\ \E a \in shown : dest[a] = dest[c] /\ said[a] = "yes"
    /\ conn[c] = "tunnel" /\ dest[c] \notin Literals => peer[c] = dest[c]

\* However many connections wait for the lock, expire or are denied, the user
\* is asked about at most MaxDestinations different destinations.
DestinationsAreBounded ==
  Cardinality({dest[c] : c \in shown}) <= MaxDestinations

\* All tunnels together let through no more than the transfer budget, in
\* either direction.
BudgetIsShared == passed <= MaxTransferBytes

\* A handler ends, and frees its slot and the grant lock, even if the user never
\* answers and neither end of the connection ever hangs up.
EveryHandlerEnds == \A c \in Conns : conn[c] \in Handling ~> conn[c] \in Ended

\* When the broker dies in the middle of a phase the phase ends, even if the
\* command would have waited for it forever.
BrokerDeathEndsThePhase == broker = "exited" ~> runner \in {"ok", "failed"}

\* The destination limit bounds the questions put to the user.
QuestionsAreBounded == Cardinality(shown) <= MaxDestinations

\* Only an established connection on which nothing moves times out.
OnlyIdleTunnelsTimeOut == \A c \in Conns : conn[c] = "timedout" => recent[c] = {}

\* The effect gate is answered by an answer to the effect gate.
GateAnswersAreForTheGate == \A h \in heard : h[1] = "gate" => h[2] = "gate"

-----------------------------------------------------------------------------
(* The inductive invariant of the phase.                                   *)

\* A broker that is up has not counted a request beyond its budget.
RequestsAreCounted == broker = "up" => requests <= MaxRequests

AskedIsBounded == IsFiniteSet(asked) /\ Cardinality(asked) <= MaxDestinations

\* What a handler took beyond its request is held to the phase's host set.
Requested == {"lock", "ask"} \cup Outbound
RequestsArePermitted ==
  \A c \in Conns : conn[c] \in Requested => dest[c] \in Dests /\ permitsHost(dest[c])

\* A question is raised by a handler past its request, about a destination that
\* is counted, once, and is waiting or was shown but not both.
IsRaised(c) == conn[c] \notin {"new", "read", "lock"} /\ dest[c] \in asked
QuestionsAreRaisedOnce ==
  /\ \A c \in shown : IsRaised(c)
  /\ \A i \in DOMAIN queue : IsRaised(queue[i]) /\ queue[i] \notin shown
  /\ \A i, j \in DOMAIN queue : queue[i] = queue[j] => i = j
  /\ onScreen \in shown \cup {"none"}

\* A yes on the terminal while a question is on the screen answers that question.
KeysAnswerTheScreen ==
  \A k \in key : k.ch = "y" =>
    \/ k.for = "output" /\ onScreen = "none"
    \/ k.for = onScreen /\ said[onScreen] = "yes"

\* Every grant is the user's yes to a question that is over.
GrantsWereGiven ==
  \A d \in grants : \E a \in shown \ {onScreen} : dest[a] = d /\ said[a] = "yes"

EgressWasGranted ==
  \A c \in Conns :
    /\ conn[c] \in Outbound => dest[c] \in grants
    /\ conn[c] = "tunnel" /\ dest[c] \notin Literals => peer[c] = dest[c]

NetworkInv ==
  /\ NetworkTypeOK /\ RequestsAreCounted /\ AskedIsBounded /\ RequestsArePermitted
  /\ QuestionsAreRaisedOnce /\ KeysAnswerTheScreen /\ GrantsWereGiven
  /\ EgressWasGranted /\ BudgetIsShared
=============================================================================
