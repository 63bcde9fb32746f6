---------------------------- MODULE AgentRuntime ----------------------------
(***************************************************************************)
(* The QuantumLink Agent: evidence is diagnosed, a plan made of it, a plan *)
(* approved, applied and perhaps rolled back, and every mutation appended  *)
(* to a hash-chained audit log.  Plans and approvals are documents that    *)
(* pass between the steps, so they may be changed, grow old or meet        *)
(* another policy; several processes append to one log file.               *)
(*                                                                         *)
(* The digest of a plan is the plan, the hash of an event its number:      *)
(* event ids are fresh, so equal hashes are equal events.  A refused call  *)
(* changes nothing and is no step; one request is modelled.                *)
(***************************************************************************)
EXTENDS Integers, Sequences

LOCAL INSTANCE SequencesExt

CONSTANTS
    Processes,      \* runtimes, each with an executor of its own
    Policies,       \* [version, preapproved, relay, export]
    Signals,        \* sets of facts an evidence envelope may state
    Targets,        \* workloads
    Proposed,       \* capabilities a reasoning provider or a changed plan may name
    MaxActions,     \* bound: actions of one plan
    MaxTime,        \* bound: the clock
    MaxEvents       \* bound: events appended

EvidenceTtl == 1    \* bound: validity of evidence, in ticks
ApprovalTtl == 1    \* bound: validity of an approval, in ticks

None == [policy |-> 0]
Garbled == [hash |-> -1, previous |-> -1]

VARIABLES
    now,
    plan,        \* the plan document, None before one is made
    approval,    \* the approval document
    runtime,     \* per process: policy, executor and the call in progress
    log,         \* complete lines of the audit log: events, or "garbled"
    tail,        \* what follows the last newline
    events,      \* events numbered so far
    mutations,   \* ghost: what executors have done, by event number
    disturbed    \* ghost: two appends overlapped, or one was cut short

agentVars == <<now, plan, approval, runtime, log, tail, events, mutations, disturbed>>

Off == [pc |-> "off"]

-----------------------------------------------------------------------------
(* Diagnosis and policy.                                                    *)

\* classify: the first matching fact decides.
classify(facts) ==
    IF "identity" \in facts THEN "Identity"
    ELSE IF "stale" \in facts THEN "StalePeerRecord"
    ELSE IF "handshake" \in facts THEN "Handshake"
    ELSE IF "route" \in facts THEN "RouteConflict"
    ELSE IF {"direct", "norelay"} \subseteq facts THEN "RelayPolicy"
    ELSE IF "direct" \in facts THEN "DirectPath"
    ELSE IF "dns" \in facts THEN "Dns"
    ELSE IF "platform" \in facts THEN "Platform"
    ELSE IF "healthy" \in facts THEN "Healthy"
    ELSE "Unknown"

\* validate_safe: no secret, payload or query among the facts.
validate_safe(facts) == "secret" \notin facts

\* DeterministicReasoning::recommend
recommend(facts) ==
    LET diagnosis == classify(facts)
    IN  IF diagnosis = "StalePeerRecord" THEN "RotateStalePeerRecord"
        ELSE IF diagnosis = "DirectPath" THEN "RetryCandidateGathering"
        ELSE IF diagnosis \in {"Healthy", "Unknown"} THEN "Inspect"
        ELSE "Diagnose"

is_fresh(collected) == collected <= now /\ now < collected + EvidenceTtl

diagnose(facts, collected) == is_fresh(collected) /\ validate_safe(facts)

LowRisk == {"RetryCandidateGathering", "RotateStalePeerRecord", "ClearExpiredDiagnosticCache"}

\* AgentPolicy::evaluate
evaluate(policy, capability) ==
    IF capability = "Unknown" THEN "Forbidden"
    ELSE IF capability \in {"Inspect", "Diagnose"} THEN "Allow"
    ELSE IF capability \in LowRisk /\ policy.preapproved THEN "Allow"
    ELSE IF capability = "ExportDiagnostics" /\ ~policy.export THEN "Forbidden"
    ELSE IF capability = "ChangeRelayPolicy" /\ ~policy.relay THEN "Forbidden"
    ELSE "ApprovalRequired"

-----------------------------------------------------------------------------
AgentInit ==
    /\ now = 0
    /\ plan = None /\ approval = None
    /\ runtime = [p \in Processes |-> Off]
    /\ log = <<>> /\ tail = <<>> /\ events = 0
    /\ mutations = {} /\ disturbed = FALSE

files == <<log, tail, events, mutations, disturbed>>

Ready(p) == runtime[p].pc = "ready"
Set(p, state) == runtime' = [runtime EXCEPT ![p] = state]

TimePasses ==
    /\ now < MaxTime
    /\ now' = now + 1
    /\ UNCHANGED <<plan, approval, runtime>> /\ UNCHANGED files

\* Between calls a runtime has its policy and the executor's saved states.
Idle(policy, saved) ==
    [pc |-> "ready", policy |-> policy, saved |-> saved, plan |-> None, todo |-> <<>>,
     undo |-> FALSE, event |-> 0, prior |-> 0]
Return(p) == Set(p, Idle(runtime[p].policy, runtime[p].saved))

\* AgentRuntime::new: the executor knows no state yet.
Begin(p) ==
    /\ runtime[p].pc = "off"
    /\ \E policy \in Policies :
          Set(p, Idle(policy, {}))
    /\ UNCHANGED <<now, plan, approval>> /\ UNCHANGED files

\* AgentRuntime::diagnose and plan: one action, of this runtime's policy version.
MakePlan(p) ==
    /\ Ready(p) /\ plan = None
    /\ \E facts \in Signals, target \in Targets, collected \in 0 .. MaxTime :
          /\ diagnose(facts, collected)
          /\ \E capability \in {recommend(facts)} \cup Proposed :
                /\ capability # "Unknown"
                /\ plan' = [policy |-> runtime[p].policy.version,
                            actions |-> <<[capability |-> capability, target |-> target]>>]
    /\ UNCHANGED <<now, approval, runtime>> /\ UNCHANGED files

\* The document is changed between two steps: an action is added to it.
EditPlan ==
    /\ plan # None /\ Len(plan.actions) < MaxActions
    /\ \E action \in [capability : Proposed, target : Targets] :
          plan' = [plan EXCEPT !.actions = Append(@, action)]
    /\ UNCHANGED <<now, approval, runtime>> /\ UNCHANGED files

Capabilities(actions) == {actions[k].capability : k \in DOMAIN actions}

\* approval_for.  Bound: one approval is made.
Approve ==
    /\ plan # None /\ approval = None
    /\ approval' = [digest |-> plan, policy |-> plan.policy, at |-> now,
                    until |-> now + ApprovalTtl, scope |-> Capabilities(plan.actions)]
    /\ UNCHANGED <<now, plan, runtime>> /\ UNCHANGED files

\* Mutant: an approval of the plan's capabilities will do.
authorizes_scope(a) ==
    /\ a # None
    /\ a.policy = plan.policy
    /\ a.at <= now /\ now < a.until
    /\ Capabilities(plan.actions) \subseteq a.scope

\* ApprovalRecord::authorizes
authorizes(a) ==
    /\ a # None
    /\ a.policy = plan.policy
    /\ a.at <= now /\ now < a.until
    /\ a.digest = plan
    /\ Capabilities(plan.actions) \subseteq a.scope

\* AgentRuntime::apply up to the executor: everything is decided again.
Apply(p) ==
    LET outcomes == {evaluate(runtime[p].policy, c) : c \in Capabilities(plan.actions)}
    IN  /\ Ready(p) /\ plan # None /\ events < MaxEvents
        /\ plan.policy = runtime[p].policy.version
        /\ "Forbidden" \notin outcomes
        /\ "ApprovalRequired" \in outcomes => authorizes(approval)
        /\ Set(p, [runtime[p] EXCEPT !.pc = "execute", !.plan = plan, !.undo = FALSE,
                                     !.todo = plan.actions])
        /\ UNCHANGED <<now, plan, approval>> /\ UNCHANGED files

\* AgentRuntime::rollback, last action first, asks neither policy nor approval.
Rollback(p) ==
    /\ Ready(p) /\ plan # None /\ events < MaxEvents
    /\ Set(p, [runtime[p] EXCEPT !.pc = "execute", !.plan = plan, !.undo = TRUE,
                                 !.todo = Reverse(plan.actions)])
    /\ UNCHANGED <<now, plan, approval>> /\ UNCHANGED files

\* MvpActionExecutor: apply saves the target's state, over an earlier saved one, and
\* rollback takes the saved state away.  What it cannot do it reports as unchanged, which
\* is audited like the rest.
Execute(p) ==
    LET r == runtime[p]
        action == Head(r.todo)
        can == IF r.undo THEN action.target \in r.saved ELSE action.capability \in LowRisk
    IN  /\ r.pc = "execute" /\ events < MaxEvents
        /\ events' = events + 1
        /\ Set(p, [r EXCEPT !.pc = "read", !.event = events + 1, !.todo = Tail(@),
                            !.saved = IF ~can THEN @
                                      ELSE IF r.undo THEN @ \ {action.target}
                                      ELSE @ \cup {action.target}])
        /\ mutations' = IF can
                        THEN mutations \cup {[event |-> events + 1, undo |-> r.undo,
                                              plan |-> r.plan, policy |-> r.policy,
                                              capability |-> action.capability]}
                        ELSE mutations
        /\ UNCHANGED <<now, plan, approval, log, tail, disturbed>>

-----------------------------------------------------------------------------
(* The audit log.                                                           *)

\* What one newline ends: an event, unless several pieces or none are on the line.
Line(pieces) == IF Len(pieces) = 1 THEN pieces[1] ELSE Garbled

\* read_all
Lines == IF tail = <<>> THEN log ELSE Append(log, Line(tail))
Readable == \A k \in DOMAIN Lines : Lines[k] # Garbled

\* Mutant: the log is not read before an append.
no_hash == 0

last_hash == IF Lines = <<>> THEN 0 ELSE Lines[Len(Lines)].hash

Appending(p) == runtime[p].pc \in {"write", "newline"}
Others(p) == \E q \in Processes \ {p} : Appending(q)

\* AuditLog::append, first part: the hash of the last event.  An unreadable line, a
\* half-written one included, is an error that ends the call with the mutation done.
ReadLog(p) ==
    /\ runtime[p].pc = "read"
    /\ \/ /\ Readable
          /\ Set(p, [runtime[p] EXCEPT !.pc = "write", !.prior = last_hash])
       \/ /\ ~Readable \/ Others(p)
          /\ Return(p)
    /\ disturbed' = (disturbed \/ Others(p))
    /\ UNCHANGED <<now, plan, approval, log, tail, events, mutations>>

\* to_writer writes the event piece by piece: another one under way may get in between.
WriteEvent(p) ==
    /\ runtime[p].pc = "write"
    /\ Set(p, [runtime[p] EXCEPT !.pc = "newline"])
    /\ \/ tail' = Append(tail, [hash |-> runtime[p].event, previous |-> runtime[p].prior])
       \/ Others(p) /\ tail' = Append(tail, Garbled)
    /\ UNCHANGED <<now, plan, approval, log, events, mutations, disturbed>>

\* A newline after another process's newline makes a line with nothing in it.
WriteNewline(p) ==
    /\ runtime[p].pc = "newline"
    /\ log' = Append(log, Line(tail))
    /\ tail' = <<>>
    /\ IF runtime[p].todo = <<>> THEN Return(p)
       ELSE Set(p, [runtime[p] EXCEPT !.pc = "execute"])
    /\ UNCHANGED <<now, plan, approval, events, mutations, disturbed>>

\* The process ends, or a read or write of the log fails, in the middle of an event
\* perhaps; what the executor did is done.
Fail(p) ==
    /\ runtime[p].pc # "off"
    /\ \/ Set(p, Off)
       \/ /\ runtime[p].pc \in {"read", "write", "newline"}
          /\ Return(p)
    /\ tail' = IF runtime[p].pc = "write" THEN Append(tail, Garbled) ELSE tail
    /\ disturbed' = (disturbed \/ runtime[p].pc \in {"read", "write", "newline"})
    /\ UNCHANGED <<now, plan, approval, log, events, mutations>>

\* AuditLog::verify
verify ==
    /\ Readable
    /\ \A k \in DOMAIN Lines : Lines[k].previous = IF k = 1 THEN 0 ELSE Lines[k - 1].hash

AgentNext ==
    \/ TimePasses \/ EditPlan \/ Approve
    \/ \E p \in Processes :
          \/ Begin(p) \/ MakePlan(p) \/ Apply(p) \/ Rollback(p) \/ Execute(p)
          \/ ReadLog(p) \/ WriteEvent(p) \/ WriteNewline(p) \/ Fail(p)

AgentSpec == AgentInit /\ [][AgentNext]_agentVars

-----------------------------------------------------------------------------
(* Properties                                                               *)

\* An action is applied because the policy allows it, or because someone approved the plan
\* it belongs to, exactly as it was applied, under the version of the policy in force: a
\* plan changed after its approval, or carried to a runtime with another policy, is not.
MutationIsAuthorized ==
    \A m \in mutations :
        \/ m.undo
        \/ evaluate(m.policy, m.capability) = "Allow"
        \/ approval # None /\ m.plan = approval.digest /\ m.plan.policy = m.policy.version

\* As long as no two appends overlap and none is cut short, the log verifies and holds an
\* event for everything the executors did, rollbacks included, but what is being appended.
AuditIsComplete ==
    disturbed
    \/ /\ verify
       /\ \A m \in mutations :
              \/ \E k \in DOMAIN Lines : Lines[k].hash = m.event
              \/ \E p \in Processes : /\ runtime[p].pc \in {"read", "write"}
                                      /\ runtime[p].event = m.event
=============================================================================
