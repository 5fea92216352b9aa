----------------------------- MODULE AuditStore -----------------------------
(***************************************************************************)
(* The user's private state directory as it is shared by every Prolewatch  *)
(* process: saved reports, pending and used one-time approvals, and the    *)
(* decision markers of yay transactions (internal/audit/approvals.go,      *)
(* reports.go, policy.go, cli.go).                                         *)
(*                                                                         *)
(* There is no lock.  Each process lists, reads, renames, writes and       *)
(* removes files one system call at a time, so an action below is one such *)
(* step and processes interleave between them.  The actors are             *)
(*   - a yay transaction, which runs one scan process at a time (its pre   *)
(*     and post hooks, and the scans of the makepkg wrapper);              *)
(*   - a shell, in which the user runs `prolewatch approve REPORT_ID`.     *)
(*                                                                         *)
(* A Binding stands for everything an approval is bound to: package base,  *)
(* phase, content hash and policy fingerprint.  A scan meets whichever     *)
(* binding the checkout has at that moment, so two scans of one            *)
(* transaction may meet different ones.  Report names order by age, as the *)
(* UTC timestamp that begins them does, and are natural numbers here.      *)
(***************************************************************************)
EXTENDS Integers, FiniteSets

CONSTANTS
  Txs,          \* identities of yay transactions
  Shells,       \* terminals in which `prolewatch approve` is run
  Bindings,     \* package base, phase, content hash and policy fingerprint
  PhaseOf,      \* the phase each binding names
  Structural,   \* bindings whose findings are a structural block
  Clean,        \* bindings the deterministic assessment allows
  Covers,       \* <<recipe, content>>: an override of the first decides every
                \* finding that blocks the second
  Retention,    \* reportRetention and usedApprovalRetention
  MaxReports,   \* bound on the reports saved in a behaviour
  MaxConfs      \* bound on the answers the user gives in a behaviour

Phases == {"pre", "post", "artifact"}
MarkPhases == {"pre", "post"}
Actors == Txs \cup Shells

ASSUME ConstantsAssumption ==
  /\ PhaseOf \in [Bindings -> Phases]
  /\ Structural \subseteq Bindings
  /\ Clean \subseteq Bindings
  /\ Structural \cap Clean = {}
  /\ Covers \subseteq Bindings \X Bindings
  /\ Bindings # {}
  /\ Txs \cap Shells = {}
  /\ Retention \in Nat
  /\ MaxReports \in Nat
  /\ MaxConfs \in Nat

Ids == 1 .. MaxReports
Confs == 1 .. MaxConfs
Slots == Txs \X MarkPhases

\* What the store tells reports apart by.  An override names, in auth, the
\* answer of the user it rests on, and a report that takes over the decision of
\* an earlier phase names that report; 0 stands for none.
Report == [b : Bindings, tx : Txs, decision : {"allow", "block"}, eligible : BOOLEAN,
           auth : Confs \cup {0}, carried : Ids \cup {0}]

PCs == {"idle", "begin", "list", "rename", "source", "save", "sweep", "judge", "ids",
        "remove", "prompt", "lstat", "create", "rescan", "cancel", "dead"}

VARIABLES
  live,      \* transactions whose yay process exists
  report,    \* the report written under each name (it is never retargeted)
  store,     \* the report names whose file is present
  nextId,    \* the next report name
  pending,   \* approvals/pending: the answer behind each token, 0 for no file
  used,      \* approvals/used: the names of the consumed tokens
  marker,    \* decision-markers: the report of each slot, 0 for no file
  asked,     \* who gave each answer, about which binding
  nextConf,  \* the next answer of the user
  stranded,  \* history: the answers a failed call left pending (and 0 where there
             \* was none)
  pc,        \* where each actor's process is
  cur,       \* the binding the running scan met
  stage,     \* first scan, on-demand review, or rescan after an answer
  rid,       \* the report this process saved or loaded last, 0 for none
  todo,      \* pending names Consume has listed and not yet tried
  tok,       \* the pending name Consume matched, 0 for none
  auth,      \* the answer behind the token this scan consumed, 0 for none
  carried,   \* the report whose decision this scan takes over, 0 for none
  inline,    \* the report whose inline token this process created, 0 for none
  held,      \* the answer this process holds and has not written, 0 for none
  sweep,     \* marker files liveMarkerReports has listed and not yet read
  opened,    \* the marker file being read and the marker it held when opened
  prot,      \* protected: the reports this Prune will keep
  victims    \* the reports this Prune has still to remove

fileVars == <<store, nextId, report, pending, used, marker>>
userVars == <<asked, nextConf, stranded>>
procVars == <<pc, cur, stage, rid>>
consumeVars == <<todo, tok, auth, carried>>
tokenVars == <<inline, held>>
pruneVars == <<sweep, opened, prot, victims>>
vars == <<live, fileVars, userVars, procVars, consumeVars, tokenVars, pruneVars>>

\* The value of cur while no scan runs.
NoBinding == CHOOSE b \in Bindings : TRUE

Saved == 1 .. nextId - 1
Answers == 1 .. nextConf - 1

FilesOK ==
  /\ live \in [Txs -> BOOLEAN]
  /\ nextId \in 1 .. MaxReports + 1
  /\ report \in [Saved -> Report]
  /\ store \subseteq Saved
  /\ pending \in [Ids -> Confs \cup {0}]
  /\ used \subseteq Ids
  /\ marker \in [Slots -> Ids \cup {0}]

UserOK ==
  /\ nextConf \in 1 .. MaxConfs + 1
  /\ asked \in [Answers -> [by : Actors, b : Bindings]]
  /\ stranded \subseteq Confs \cup {0}

ProcOK ==
  /\ pc \in [Actors -> PCs]
  /\ cur \in [Actors -> Bindings]
  /\ stage \in [Actors -> {"first", "review", "rescan"}]
  /\ rid \in [Actors -> Ids \cup {0}]

ConsumeOK ==
  /\ todo \in [Txs -> SUBSET Ids]
  /\ tok \in [Txs -> Ids \cup {0}]
  /\ auth \in [Txs -> Confs \cup {0}]
  /\ carried \in [Txs -> Ids \cup {0}]
  /\ inline \in [Txs -> Ids \cup {0}]
  /\ held \in [Actors -> Confs \cup {0}]

PruneOK ==
  /\ sweep \in [Txs -> SUBSET Slots]
  /\ opened \in [Txs -> SUBSET (Slots \X (Ids \cup {0}))]
  /\ prot \in [Txs -> SUBSET Ids]
  /\ victims \in [Txs -> SUBSET Ids]

\* Every variable has its type; reports and answers exist for the names given
\* out so far, and only those names are in the store.
TypeOK == FilesOK /\ UserOK /\ ProcOK /\ ConsumeOK /\ PruneOK

Init ==
  /\ live = [t \in Txs |-> TRUE]
  /\ nextId = 1
  /\ report = [i \in Saved |-> 0]
  /\ store = {}
  /\ pending = [i \in Ids |-> 0]
  /\ used = {}
  /\ marker = [s \in Slots |-> 0]
  /\ nextConf = 1
  /\ asked = [c \in Answers |-> 0]
  /\ stranded = {}
  /\ pc = [a \in Actors |-> "idle"]
  /\ cur = [a \in Actors |-> NoBinding]
  /\ stage = [a \in Actors |-> "first"]
  /\ rid = [a \in Actors |-> 0]
  /\ todo = [t \in Txs |-> {}]
  /\ tok = [t \in Txs |-> 0]
  /\ auth = [t \in Txs |-> 0]
  /\ carried = [t \in Txs |-> 0]
  /\ inline = [t \in Txs |-> 0]
  /\ held = [a \in Actors |-> 0]
  /\ sweep = [t \in Txs |-> {}]
  /\ opened = [t \in Txs |-> {}]
  /\ prot = [t \in Txs |-> {}]
  /\ victims = [t \in Txs |-> {}]

-----------------------------------------------------------------------------
(* The scan up to ApprovalStore.Consume.                                   *)

Present(f) == {i \in DOMAIN f : f[i] # 0}

Goto(a, l) == pc' = [pc EXCEPT ![a] = l] /\ UNCHANGED <<cur, stage, rid>>

\* The process of actor a ends, and its local variables with it.
Exit(a, l) ==
  /\ pc' = [pc EXCEPT ![a] = l]
  /\ cur' = [cur EXCEPT ![a] = NoBinding]
  /\ stage' = [stage EXCEPT ![a] = "first"]
  /\ rid' = [rid EXCEPT ![a] = 0]

\* A scan that ends takes its token along only in the rescan after an answer.
EndScan(t) == IF stage[t] = "rescan" THEN Goto(t, "cancel") ELSE Exit(t, "idle")

\* Fault: the marker file is named after the checkout and the phase only.
SlotOf_checkout(t, phase) == <<CHOOSE u \in Txs : TRUE, phase>>

\* The marker file of a transaction is named after the checkout, the phase and
\* the transaction.
SlotOf(t, phase) == <<t, phase>>

\* Fault: the newest override of the package is taken, as LatestFor would find
\* it, and not the one this transaction's marker names.
carriedDecision_latest(t, b) ==
  LET found == {i \in store : /\ PhaseOf[b] = "post"
                              /\ PhaseOf[report[i].b] = "pre"
                              /\ report[i].auth # 0
                              /\ <<report[i].b, b>> \in Covers}
  IN IF found = {} THEN 0 ELSE CHOOSE i \in found : \A j \in found : j <= i

\* A scan of the sources takes over the findings an override of this
\* transaction's recipe has decided.  The marker is opened before the report;
\* either may be gone by then, and only an override that is not structural
\* counts.
carriedDecision(t, b) ==
  LET i == marker[SlotOf(t, "pre")]
  IN IF /\ PhaseOf[b] = "post"
        /\ i \in store
        /\ report[i].auth # 0
        /\ report[i].b \notin Structural
        /\ <<report[i].b, b>> \in Covers
       THEN i
       ELSE 0

\* A scan inventories the checkout, which no other step of this module can
\* disturb, and looks for a decision to take over ...
BeginScan(t, b, s) ==
  /\ pc' = [pc EXCEPT ![t] = "begin"]
  /\ cur' = [cur EXCEPT ![t] = b]
  /\ stage' = [stage EXCEPT ![t] = s]
  /\ rid' = [rid EXCEPT ![t] = 0]
  /\ carried' = [carried EXCEPT ![t] = carriedDecision(t, b)]
  /\ UNCHANGED <<live, fileVars, userVars, todo, tok, auth, tokenVars, pruneVars>>

\* ... and then lists the pending directory unless the block is structural.
ListPending(t) ==
  /\ pc[t] = "begin"
  /\ todo' = [todo EXCEPT ![t] = IF cur[t] \in Structural THEN {} ELSE Present(pending)]
  /\ Goto(t, "list")
  /\ UNCHANGED <<live, fileVars, userVars, tok, auth, carried, tokenVars, pruneVars>>

\* An inventory, a system call of Consume, the write of the report or that of
\* the marker fails, or the scan is cancelled: it ends in an error.
ScanFails(t) ==
  /\ \/ pc[t] \in {"begin", "list", "rename", "source", "save"}
     \/ pc[t] = "remove" /\ victims[t] = {} /\ PhaseOf[cur[t]] \in MarkPhases
  /\ EndScan(t)
  /\ todo' = [todo EXCEPT ![t] = {}]
  /\ tok' = [tok EXCEPT ![t] = 0]
  /\ auth' = [auth EXCEPT ![t] = 0]
  /\ carried' = [carried EXCEPT ![t] = 0]
  /\ UNCHANGED <<live, fileVars, userVars, tokenVars, pruneVars>>

Scan(t) ==
  /\ pc[t] = "idle"
  /\ \E b \in Bindings : BeginScan(t, b, "first")

SamePhase(t) == {b \in Bindings : PhaseOf[b] = PhaseOf[cur[t]]}

\* [r] at the prompt, offered once: the same directory is scanned again.
ReviewNow(t) ==
  /\ pc[t] = "prompt"
  /\ stage[t] = "first"
  /\ \E b \in SamePhase(t) : BeginScan(t, b, "review")

\* The second pass of the two-pass decision.
Rescan(t) ==
  /\ pc[t] = "rescan"
  /\ \E b \in SamePhase(t) : BeginScan(t, b, "rescan")

\* One turn of Consume's loop up to the rename: an entry that is gone or bound
\* to something else is skipped.
ConsumeRead(t) ==
  /\ pc[t] = "list"
  /\ \E i \in todo[t] :
       /\ \A j \in todo[t] : i <= j
       /\ todo' = [todo EXCEPT ![t] = @ \ {i}]
       /\ IF pending[i] # 0 /\ report[i].b = cur[t]
            THEN tok' = [tok EXCEPT ![t] = i] /\ Goto(t, "rename")
            ELSE UNCHANGED <<tok, procVars>>
  /\ UNCHANGED <<live, fileVars, userVars, auth, carried, tokenVars, pruneVars>>

\* Fault: the token is copied to used, and stays pending.
ConsumeRename_copies(t) ==
  /\ pc[t] = "rename"
  /\ LET i == tok[t] IN
       IF pending[i] = 0
         THEN /\ tok' = [tok EXCEPT ![t] = 0]
              /\ Goto(t, "list")
              /\ UNCHANGED <<used, auth, todo>>
         ELSE /\ auth' = [auth EXCEPT ![t] = pending[i]]
              /\ used' = used \cup {i}
              /\ todo' = [todo EXCEPT ![t] = {}]
              /\ Goto(t, "source")
              /\ UNCHANGED tok
  /\ UNCHANGED <<live, report, store, nextId, pending, marker, userVars,
                 carried, tokenVars, pruneVars>>

\* rename(2) from pending to used: of several processes that read the same
\* token, the one whose rename finds the file spends it.
ConsumeRename(t) ==
  /\ pc[t] = "rename"
  /\ LET i == tok[t] IN
       IF pending[i] = 0
         THEN /\ tok' = [tok EXCEPT ![t] = 0]
              /\ Goto(t, "list")
              /\ UNCHANGED <<pending, used, auth, todo>>
         ELSE /\ auth' = [auth EXCEPT ![t] = pending[i]]
              /\ pending' = [pending EXCEPT ![i] = 0]
              /\ used' = used \cup {i}
              /\ todo' = [todo EXCEPT ![t] = {}]
              /\ Goto(t, "source")
              /\ UNCHANGED tok
  /\ UNCHANGED <<live, report, store, nextId, marker, userVars, carried, tokenVars,
                 pruneVars>>

\* The consumption time is written to the used file, and authorizationSource
\* reopens the report the token names.  Without it evaluate fails; an approval
\* of exactly this content supersedes a decision that was taken over.
AuthorizationSource(t) ==
  /\ pc[t] = "source"
  /\ LET i == tok[t] IN
       /\ used' = used \cup {i}
       /\ IF i \in store /\ report[i].b = cur[t] /\ report[i].eligible
            THEN Goto(t, "save") /\ UNCHANGED auth
            ELSE EndScan(t) /\ auth' = [auth EXCEPT ![t] = 0]
  /\ tok' = [tok EXCEPT ![t] = 0]
  /\ carried' = [carried EXCEPT ![t] = 0]
  /\ UNCHANGED <<live, report, store, nextId, pending, marker, userVars,
                 todo, tokenVars, pruneVars>>

-----------------------------------------------------------------------------
(* The rest of evaluate: the report, ReportStore.Save and Prune.           *)

\* Nothing blocks the content of the scan but findings already decided.
AllFindingsDecided(t) ==
  cur[t] \in Clean \/ (carried[t] # 0 /\ cur[t] \notin Structural)

\* The reports evaluate can write for what the scan met.  AI review may turn a
\* clean scan into a block, and prompt injection or a missing archive probe
\* takes the user's decision away; a token makes any scan that looked for one
\* an allow.
Outcomes(t) ==
  {o \in [d : {"allow", "block"}, e : BOOLEAN] :
     /\ auth[t] # 0 => o.d = "allow"
     /\ o.d = "allow" => ~o.e /\ (auth[t] # 0 \/ AllFindingsDecided(t))
     /\ o.e => cur[t] \notin Structural}

\* Fault: the names are sorted oldest first.
Older_ascending(S) == {i \in S : Cardinality({j \in S : j < i}) >= Retention}

\* The names beyond the retention window, in a set of names.
Older(S) == {i \in S : Cardinality({j \in S : j > i}) >= Retention}

\* Fault: a failed write of the report goes unnoticed.
Save_unwritten(t) ==
  /\ pc[t] = "save" \/ (pc[t] = "list" /\ todo[t] = {})
  /\ nextId <= MaxReports
  /\ nextId' = nextId + 1
  /\ rid' = [rid EXCEPT ![t] = nextId]
  /\ auth' = [auth EXCEPT ![t] = 0]
  /\ carried' = [carried EXCEPT ![t] = 0]
  /\ pc' = [pc EXCEPT ![t] = "sweep"]
  /\ UNCHANGED <<live, report, store, pending, used, marker, userVars, cur, stage,
                 todo, tok, tokenVars, pruneVars>>

\* Save writes the report; its Prune starts by trimming the used tokens and
\* listing the marker directory.  A sync of the directory that fails leaves the
\* report in place and ends the scan.
Save(t) ==
  /\ pc[t] = "save" \/ (pc[t] = "list" /\ todo[t] = {})
  /\ nextId <= MaxReports
  /\ \E o \in Outcomes(t) :
       LET new == [b |-> cur[t], tx |-> t, decision |-> o.d, eligible |-> o.e,
                   auth |-> auth[t], carried |-> carried[t]]
       IN report' = [i \in 1 .. nextId |-> IF i = nextId THEN new ELSE report[i]]
  /\ store' = store \cup {nextId}
  /\ nextId' = nextId + 1
  /\ auth' = [auth EXCEPT ![t] = 0]
  /\ carried' = [carried EXCEPT ![t] = 0]
  /\ \/ /\ used' = used \ Older(used)
        /\ sweep' = [sweep EXCEPT ![t] = Present(marker)]
        /\ rid' = [rid EXCEPT ![t] = nextId]
        /\ pc' = [pc EXCEPT ![t] = "sweep"]
        /\ UNCHANGED <<cur, stage>>
     \/ EndScan(t) /\ UNCHANGED <<used, sweep>>
  /\ UNCHANGED <<live, pending, marker, userVars, todo, tok, tokenVars, opened, prot,
                 victims>>

\* ReadJSONFile opens a marker and stats the open file.
SweepOpen(t) ==
  /\ pc[t] = "sweep"
  /\ \E s \in sweep[t] :
       /\ opened' = [opened EXCEPT ![t] = {<<s, marker[s]>>}]
       /\ sweep' = [sweep EXCEPT ![t] = @ \ {s}]
  /\ Goto(t, "judge")
  /\ UNCHANGED <<live, fileVars, userVars, consumeVars, tokenVars, prot, victims>>

\* The file counts as read only if it was not replaced meanwhile (SameStat
\* compares the link count and the change time).  A marker that cannot be read,
\* or whose transaction is gone, is removed by name.
SweepJudge(t) ==
  /\ pc[t] = "judge"
  /\ \E o \in opened[t] :
       LET s == o[1]
           readable == o[2] # 0 /\ marker[s] = o[2]
       IN IF readable /\ live[s[1]]
            THEN prot' = [prot EXCEPT ![t] = @ \cup {o[2]}] /\ UNCHANGED marker
            ELSE marker' = [marker EXCEPT ![s] = 0] /\ UNCHANGED prot
  /\ opened' = [opened EXCEPT ![t] = {}]
  /\ Goto(t, "sweep")
  /\ UNCHANGED <<live, report, store, nextId, pending, used, userVars,
                 consumeVars, tokenVars, sweep, victims>>

PrunePending(t) ==
  /\ pc[t] = "sweep"
  /\ sweep[t] = {}
  /\ prot' = [prot EXCEPT ![t] = @ \cup Present(pending)]
  /\ Goto(t, "ids")
  /\ UNCHANGED <<live, fileVars, userVars, consumeVars, tokenVars, sweep, opened, victims>>

PruneIDs(t) ==
  /\ pc[t] = "ids"
  /\ victims' = [victims EXCEPT ![t] = Older(store) \ prot[t]]
  /\ prot' = [prot EXCEPT ![t] = {}]
  /\ Goto(t, "remove")
  /\ UNCHANGED <<live, fileVars, userVars, consumeVars, tokenVars, sweep, opened>>

PruneRemove(t) ==
  /\ pc[t] = "remove"
  /\ \E i \in victims[t] :
       /\ \A j \in victims[t] : i >= j
       /\ store' = store \ {i}
       /\ victims' = [victims EXCEPT ![t] = @ \ {i}]
  /\ UNCHANGED <<live, report, nextId, pending, used, marker, userVars, procVars,
                 consumeVars, tokenVars, sweep, opened, prot>>

\* Fault: the token is cancelled only after an allow.
WriteMarker_keepsToken(t) ==
  /\ pc[t] = "remove"
  /\ victims[t] = {}
  /\ marker' = IF PhaseOf[cur[t]] \in MarkPhases
                 THEN [marker EXCEPT ![SlotOf(t, PhaseOf[cur[t]])] = rid[t]]
                 ELSE marker
  /\ IF stage[t] = "rescan" /\ report[rid[t]].decision = "allow" THEN Goto(t, "cancel")
     ELSE IF stage[t] # "rescan" /\ report[rid[t]].eligible THEN Goto(t, "prompt")
     ELSE Exit(t, "idle")
  /\ UNCHANGED <<live, report, store, nextId, pending, used, userVars,
                 consumeVars, tokenVars, pruneVars>>

\* With Prune done, a directory scan writes its marker, whatever it decided.
\* Then a block the user may decide is put to them, but never a second time
\* after an answer, nor when the marker is in place but its write failed.
WriteMarker(t) ==
  /\ pc[t] = "remove"
  /\ victims[t] = {}
  /\ marker' = IF PhaseOf[cur[t]] \in MarkPhases
                 THEN [marker EXCEPT ![SlotOf(t, PhaseOf[cur[t]])] = rid[t]]
                 ELSE marker
  /\ \/ stage[t] # "rescan" /\ report[rid[t]].eligible /\ Goto(t, "prompt")
     \/ (PhaseOf[cur[t]] \in MarkPhases \/ stage[t] = "rescan" \/ ~report[rid[t]].eligible)
        /\ EndScan(t)
  /\ UNCHANGED <<live, report, store, nextId, pending, used, userVars,
                 consumeVars, tokenVars, pruneVars>>

-----------------------------------------------------------------------------
(* The user's answer, ApprovalStore.Create and CancelPending.              *)

\* prolewatch approve loads an eligible report and asks.
Approve(s) ==
  /\ pc[s] = "idle"
  /\ \E i \in store :
       /\ report[i].eligible
       /\ rid' = [rid EXCEPT ![s] = i]
  /\ pc' = [pc EXCEPT ![s] = "prompt"]
  /\ UNCHANGED <<live, fileVars, userVars, cur, stage, consumeVars, tokenVars, pruneVars>>

AnswerYes(a) ==
  /\ pc[a] = "prompt"
  /\ nextConf <= MaxConfs
  /\ LET answer == [by |-> a, b |-> report[rid[a]].b]
     IN asked' = [c \in 1 .. nextConf |-> IF c = nextConf THEN answer ELSE asked[c]]
  /\ held' = [held EXCEPT ![a] = nextConf]
  /\ nextConf' = nextConf + 1
  /\ Goto(a, "lstat")
  /\ UNCHANGED <<live, fileVars, stranded, consumeVars, inline, pruneVars>>

AnswerNo(a) ==
  /\ pc[a] = "prompt"
  /\ Exit(a, "idle")
  /\ UNCHANGED <<live, fileVars, userVars, consumeVars, tokenVars, pruneVars>>

\* Create refuses when an unused approval for the report exists ...
CreateCheck(a) ==
  /\ pc[a] = "lstat"
  /\ IF pending[rid[a]] = 0
       THEN Goto(a, "create") /\ UNCHANGED held
       ELSE Exit(a, "idle") /\ held' = [held EXCEPT ![a] = 0]
  /\ UNCHANGED <<live, fileVars, userVars, consumeVars, inline, pruneVars>>

\* ... and writes the token in a later step.
CreateWrite(a) ==
  /\ pc[a] = "create"
  /\ pending' = [pending EXCEPT ![rid[a]] = held[a]]
  /\ held' = [held EXCEPT ![a] = 0]
  /\ IF a \in Txs
       THEN inline' = [inline EXCEPT ![a] = rid[a]] /\ Goto(a, "rescan")
       ELSE UNCHANGED inline /\ Exit(a, "idle")
  /\ UNCHANGED <<live, report, store, nextId, used, marker, userVars,
                 consumeVars, pruneVars>>

\* The write fails.  When only the sync of the directory did, the token is in
\* place, and the caller gives up without withdrawing it.
CreateFails(a) ==
  /\ pc[a] = "create"
  /\ \/ UNCHANGED <<pending, stranded>>
     \/ /\ pending' = [pending EXCEPT ![rid[a]] = held[a]]
        /\ stranded' = stranded \cup {held[a]}
  /\ held' = [held EXCEPT ![a] = 0]
  /\ Exit(a, "idle")
  /\ UNCHANGED <<live, report, store, nextId, used, marker, asked, nextConf,
                 consumeVars, inline, pruneVars>>

\* After the rescan, successful or not, whatever is left of the token goes,
\* unless its removal fails.
CancelPending(t) ==
  /\ pc[t] = "cancel"
  /\ \/ /\ pending' = [pending EXCEPT ![inline[t]] = 0]
        /\ UNCHANGED stranded
     \/ /\ stranded' = stranded \cup {c \in Confs : c = pending[inline[t]]}
        /\ UNCHANGED pending
  /\ inline' = [inline EXCEPT ![t] = 0]
  /\ Exit(t, "idle")
  /\ UNCHANGED <<live, report, store, nextId, used, marker, asked, nextConf,
                 consumeVars, held, pruneVars>>

\* yay ends, or is killed with the scan it runs, at any moment.
EndTransaction(t) ==
  /\ live[t]
  /\ live' = [live EXCEPT ![t] = FALSE]
  /\ Exit(t, "dead")
  /\ todo' = [todo EXCEPT ![t] = {}]
  /\ tok' = [tok EXCEPT ![t] = 0]
  /\ auth' = [auth EXCEPT ![t] = 0]
  /\ carried' = [carried EXCEPT ![t] = 0]
  /\ inline' = [inline EXCEPT ![t] = 0]
  /\ held' = [held EXCEPT ![t] = 0]
  /\ sweep' = [sweep EXCEPT ![t] = {}]
  /\ opened' = [opened EXCEPT ![t] = {}]
  /\ prot' = [prot EXCEPT ![t] = {}]
  /\ victims' = [victims EXCEPT ![t] = {}]
  /\ UNCHANGED <<fileVars, userVars>>

-----------------------------------------------------------------------------
TxNext(t) ==
  \/ Scan(t) \/ ReviewNow(t) \/ Rescan(t) \/ ListPending(t) \/ ScanFails(t)
  \/ ConsumeRead(t) \/ ConsumeRename(t) \/ AuthorizationSource(t)
  \/ Save(t) \/ SweepOpen(t) \/ SweepJudge(t) \/ PrunePending(t)
  \/ PruneIDs(t) \/ PruneRemove(t) \/ WriteMarker(t)
  \/ CancelPending(t) \/ EndTransaction(t)

AnswerNext(a) ==
  AnswerYes(a) \/ AnswerNo(a) \/ CreateCheck(a) \/ CreateWrite(a) \/ CreateFails(a)

Next ==
  \/ \E t \in Txs : TxNext(t)
  \/ \E s \in Shells : Approve(s)
  \/ \E a \in Actors : AnswerNext(a)

Spec == Init /\ [][Next]_vars

-----------------------------------------------------------------------------
(* The inductive invariant behind the properties.                          *)

\* A process that is at a step which uses a report name has a name that was
\* given out, and it holds an answer only where the code has one in hand.
ListedAreSaved == \A t \in Txs : todo[t] \subseteq Saved
TokenMatches ==
  \A t \in Txs : pc[t] \in {"rename", "source"} =>
    tok[t] \in Saved /\ report[tok[t]].b = cur[t]
AuthIsInHand == \A t \in Txs : auth[t] # 0 => pc[t] \in {"source", "save"}
HeldIsInHand == \A a \in Actors : held[a] # 0 => pc[a] \in {"lstat", "create"}
ReportIsSaved ==
  \A a \in Actors :
    pc[a] \in {"prompt", "lstat", "create", "sweep", "judge", "ids", "remove"} =>
      rid[a] \in Saved
PendingAreSaved == \A i \in Ids : pending[i] # 0 => i \in Saved

Located ==
  /\ ListedAreSaved
  /\ TokenMatches
  /\ AuthIsInHand
  /\ HeldIsInHand
  /\ ReportIsSaved
  /\ PendingAreSaved

\* Wherever an answer is - in a process, in a pending token, in a report - it
\* was about the binding it is about to authorize or has authorized.
ExactHeld ==
  \A a \in Actors : held[a] # 0 =>
    held[a] \in Answers /\ asked[held[a]].b = report[rid[a]].b
ExactAuth ==
  \A t \in Txs : auth[t] # 0 => auth[t] \in Answers /\ asked[auth[t]].b = cur[t]
ExactPending ==
  \A i \in Ids : pending[i] # 0 =>
    pending[i] \in Answers /\ asked[pending[i]].b = report[i].b
ExactReports ==
  \A i \in Saved : report[i].auth # 0 =>
    report[i].auth \in Answers /\ asked[report[i].auth].b = report[i].b

Exact == ExactHeld /\ ExactAuth /\ ExactPending /\ ExactReports

\* And it is in one place only.
OnePlace ==
  /\ \A a, b \in Actors : held[a] # 0 /\ held[a] = held[b] => a = b
  /\ \A t, u \in Txs : auth[t] # 0 /\ auth[t] = auth[u] => t = u
  /\ \A i, j \in Ids : pending[i] # 0 /\ pending[i] = pending[j] => i = j
  /\ \A i, j \in Saved : report[i].auth # 0 /\ report[i].auth = report[j].auth => i = j
  /\ \A a \in Actors, t \in Txs : held[a] # 0 => held[a] # auth[t]
  /\ \A a \in Actors, i \in Ids : held[a] # 0 => held[a] # pending[i]
  /\ \A a \in Actors, i \in Saved : held[a] # 0 => held[a] # report[i].auth
  /\ \A t \in Txs, i \in Ids : auth[t] # 0 => auth[t] # pending[i]
  /\ \A t \in Txs, i \in Saved : auth[t] # 0 => auth[t] # report[i].auth
  /\ \A i \in Ids, j \in Saved : pending[i] # 0 => pending[i] # report[j].auth

\* Every answer of the user is in at most one process, token or report, and is
\* about the binding it authorizes there.
IInv == TypeOK /\ Located /\ Exact /\ OnePlace

-----------------------------------------------------------------------------
(* Properties.                                                             *)

\* "Approvals are exact and one-time": two override reports never rest on the
\* same answer of the user, whatever processes read, rename, write and cancel
\* the token file in the meantime, and the answer was about exactly the
\* binding that is overridden.
ApprovalsAreExactAndOneTime ==
  \A i \in Saved : report[i].auth # 0 =>
    /\ asked[report[i].auth].b = report[i].b
    /\ \A j \in Saved : report[j].auth = report[i].auth => i = j

\* An override: it rests on an answer of the user about this very content.
Answered(i) == report[i].auth # 0 /\ asked[report[i].auth].b = report[i].b

\* The report takes over the override of an earlier report of its own
\* transaction, about a recipe whose findings cover its own.  That override
\* rests on an answer itself: a decision is taken over once, never along a chain.
TakenOver(i) ==
  LET j == report[i].carried
  IN /\ j \in 1 .. i - 1
     /\ report[j].tx = report[i].tx
     /\ PhaseOf[report[j].b] = "pre" /\ PhaseOf[report[i].b] = "post"
     /\ <<report[j].b, report[i].b>> \in Covers
     /\ Answered(j)

\* Content the deterministic assessment blocks is allowed only on an answer of
\* the user: about exactly this content, or about the recipe the same
\* transaction read it from, whatever other transactions decide, prune, sweep
\* and approve in the meantime.
DecisionsComeFromTheUser ==
  \A i \in Saved : report[i].decision = "allow" /\ report[i].b \notin Clean =>
    report[i].b \notin Structural /\ (Answered(i) \/ TakenOver(i))

\* An inline answer is for the scan it was given to: when the scan has ended
\* without being killed, its token is pending for a later one only if the call
\* that was to write or withdraw it had failed.
InlineAnswersDieWithTheirScan ==
  \A t \in Txs, i \in Ids :
    pc[t] = "idle" /\ pending[i] # 0 /\ asked[pending[i]].by = t
      => pending[i] \in stranded

\* runScan's comment promises to "remove any leftover token on success or
\* failure"; it does not hold (a token whose write reported an error stays).
LeftoverTokensAreRemoved ==
  \A t \in Txs, i \in Ids :
    pc[t] = "idle" /\ pending[i] # 0 => asked[pending[i]].by # t

\* A transaction's marker designates a report of that transaction and phase,
\* never one another yay wrote for the same checkout.
MarkersAreTransactionLocal ==
  \A t \in Txs, p \in MarkPhases :
    marker[<<t, p>>] # 0 =>
      /\ report[marker[<<t, p>>]].tx = t
      /\ PhaseOf[report[marker[<<t, p>>]].b] = p

\* However many processes prune at once, a report is removed only while
\* Retention newer ones stay in the store.
PruneKeepsTheNewest ==
  [][\A i \in store \ store' :
       Cardinality({j \in store' : j > i}) >= Retention]_vars

\* Only the markers of transactions that have ended are swept.
SweepKeepsLiveMarkers ==
  [][\A s \in Slots : live[s[1]] /\ marker[s] # 0 => marker'[s] # 0]_vars

-----------------------------------------------------------------------------
(* The inductive invariant behind MarkersAreTransactionLocal,              *)
(* DecisionsComeFromTheUser, InlineAnswersDieWithTheirScan and             *)
(* PruneKeepsTheNewest; it rests on IInv.                                  *)

\* A scan that has saved its report works with that report.
ScansOwnTheirReports ==
  \A t \in Txs : pc[t] \in {"sweep", "judge", "ids", "remove"} =>
    report[rid[t]].tx = t /\ report[rid[t]].b = cur[t]
MarkersAreSaved == \A s \in Slots : marker[s] # 0 => marker[s] \in Saved

\* No scan of a structural block has a token, or looks for one.
ListingEnds == \A t \in Txs : pc[t] \notin {"list", "rename"} => todo[t] = {}
StructuralIsNotListed ==
  \A t \in Txs : cur[t] \in Structural =>
    todo[t] = {} /\ auth[t] = 0 /\ pc[t] \notin {"rename", "source"}

\* What a scan takes over is an override of its own transaction, and is dropped
\* with the scan.
CarriedIsBacked ==
  \A t \in Txs : carried[t] # 0 =>
    /\ pc[t] \in {"begin", "list", "rename", "source", "save"}
    /\ carried[t] \in Saved
    /\ LET j == report[carried[t]]
       IN /\ j.tx = t /\ j.auth # 0
          /\ PhaseOf[j.b] = "pre" /\ PhaseOf[cur[t]] = "post"
          /\ <<j.b, cur[t]>> \in Covers

\* A pending token of an inline answer is the one its process has still to
\* cancel, or one that a failed call left behind.
RescanPCs == {"begin", "list", "rename", "source", "save", "sweep", "judge", "ids", "remove", "cancel"}
HeldIsOwn == \A a \in Actors : held[a] # 0 => asked[held[a]].by = a
InlineIsPending ==
  \A t \in Txs, i \in Ids :
    pending[i] # 0 /\ asked[pending[i]].by = t
      => pc[t] = "dead" \/ inline[t] = i \/ pending[i] \in stranded
InlineIsRescanned ==
  \A t \in Txs : inline[t] # 0 =>
    pc[t] = "rescan" \/ (stage[t] = "rescan" /\ pc[t] \in RescanPCs)

\* What a Prune is about to remove has Retention newer reports in the store.
Newer(S, i) == {j \in S : j > i}
VictimsAreOld ==
  \A t \in Txs : \A i \in victims[t] : Cardinality(Newer(store, i)) >= Retention

StoreInv ==
  /\ ScansOwnTheirReports /\ MarkersAreSaved /\ MarkersAreTransactionLocal
  /\ ListingEnds /\ StructuralIsNotListed
  /\ CarriedIsBacked /\ DecisionsComeFromTheUser
  /\ HeldIsOwn /\ InlineIsPending /\ InlineIsRescanned
  /\ VictimsAreOld
=============================================================================
