--------------------------- MODULE Reconciliation ---------------------------
(***************************************************************************)
(* Restart and runtime-loss reconciliation of one task's attempts, and the *)
(* consumption of an exclusive-ownership proof by a fresh attempt.         *)
(* reconcile_orphaned_sessions runs in the constructor after a daemon      *)
(* restart and in the pump after an App Server exit; it records an         *)
(* inventory and one receipt per object before it stalls a session, a task *)
(* and preserves a worktree, and may die between any two statements.       *)
(***************************************************************************)
EXTENDS Naturals, FiniteSets

CONSTANTS
    MaxAttempts,  \* bound on attempts of the task
    Consumers,    \* concurrent callers of consume_ownership_proof_for_fresh_attempt
    MaxLosses     \* bound on daemon crashes and App Server exits together

VARIABLES
    task,       \* state, current attempt number, version
    attempt,    \* state of each attempt, and whether it is a replacement
    agent,      \* state of the session of each attempt
    writer,     \* attempts whose turn really runs
    worktree,   \* state of the worktree of each attempt
    lease,      \* attempts with an unreleased path lease
    episode,    \* reconciliation episode of each trigger: version, findings, receipts
    pass,       \* reconcile_orphaned_sessions in progress
    up,         \* the constructor has finished
    proof,      \* ownership proofs: attempts they are about, expired ones, consumed ones
    retry,      \* attempts with a durable retry_task action of the operator
    call,       \* consumption calls in progress
    losses      \* crashes and exits so far

reconcileVars == <<task, attempt, agent, writer, worktree, lease, episode, pass, up, proof,
                   retry, call, losses>>

AttemptIds == 1..MaxAttempts
Triggers == {"daemon_restart", "app_server_loss"}
NoPass == [pc |-> "idle", trigger |-> "daemon_restart", agents |-> {}, orphan |-> FALSE, n |-> 0]
NoCall == [pc |-> "idle", n |-> 0, task |-> 0, episode |-> 0, trigger |-> "daemon_restart"]
NoEpisode == [version |-> 0, findings |-> {}, receipts |-> {}]
Active == {"LEASED", "IMPLEMENTING"}
AgentTerminal == {"none", "COMPLETED", "FAILED", "STALLED"}
CanBecomeReady(s) == s \in {"NEEDS_HELP", "STALLED"}
Current == task.attempt
InPass(l) == pass.pc = l
NextStep(l) == pass' = [pass EXCEPT !.pc = l]
Moved(s) == [task EXCEPT !.state = s, !.version = @ + 1]

-----------------------------------------------------------------------------
(* The scheduler leases the authorized attempt if there is one, and        *)
(* creates the next attempt otherwise.                                     *)
authorized_fresh_attempt == Current > 0 /\ task.state = "READY" /\ attempt[Current].state = "AUTHORIZED"
lease_authorized_fresh_attempt ==
    /\ up /\ authorized_fresh_attempt
    /\ attempt' = [attempt EXCEPT ![Current].state = "LEASED"]
    /\ task' = Moved("LEASED")
    /\ UNCHANGED <<agent, writer, worktree, lease, episode, pass, up, proof, retry, call, losses>>

create_task_attempt ==
    /\ up /\ task.state = "READY" /\ ~authorized_fresh_attempt /\ Current < MaxAttempts
    /\ attempt' = [attempt EXCEPT ![Current + 1].state = "LEASED"]
    /\ task' = [Moved("LEASED") EXCEPT !.attempt = @ + 1]
    /\ UNCHANGED <<agent, writer, worktree, lease, episode, pass, up, proof, retry, call, losses>>

start_task ==
    /\ up /\ task.state = "LEASED" /\ attempt[Current].state = "LEASED"
    /\ task' = Moved("IMPLEMENTING")
    /\ attempt' = [attempt EXCEPT ![Current].state = "RUNNING"]
    /\ agent' = [agent EXCEPT ![Current] = "RUNNING"] /\ writer' = writer \cup {Current}
    /\ worktree' = [worktree EXCEPT ![Current] = "READY"] /\ lease' = lease \cup {Current}
    /\ UNCHANGED <<episode, pass, up, proof, retry, call, losses>>

(* The turn ends without a candidate (the pump).                           *)
TurnFails ==
    /\ up /\ InPass("idle") /\ Current \in writer /\ task.state = "IMPLEMENTING"
    /\ agent' = [agent EXCEPT ![Current] = "FAILED"] /\ writer' = writer \ {Current}
    /\ attempt' = [attempt EXCEPT ![Current].state = "FAILED"]
    /\ worktree' = [worktree EXCEPT ![Current] = "PRESERVED"]
    /\ lease' = lease \ {Current} /\ task' = Moved("NEEDS_HELP")
    /\ UNCHANGED <<episode, pass, up, proof, retry, call, losses>>

-----------------------------------------------------------------------------
(* record_reconciliation_inventory: the active episode of the trigger is   *)
(* reused (nothing ever closes one), its finding is keyed by the inventory.*)
reconciliation_inventory == <<task, agent, worktree>>
open_reconciliation_episode(e) == IF e.version = 0 THEN [e EXCEPT !.version = 1] ELSE e
advance_reconciliation_episode(e) == [e EXCEPT !.version = @ + 1]
record_reconciliation_finding(e, f) ==
    IF f \in e.findings THEN e
    ELSE [advance_reconciliation_episode(e) EXCEPT !.findings = @ \cup {f}]
record_reconciliation_action_receipt(e, r) ==
    IF r \in e.receipts THEN e
    ELSE [advance_reconciliation_episode(e) EXCEPT !.receipts = @ \cup {r}]

record_reconciliation_inventory ==
    /\ InPass("inventory")
    /\ episode' = [episode EXCEPT ![pass.trigger] =
          record_reconciliation_finding(open_reconciliation_episode(@), reconciliation_inventory)]
    /\ pass' = [pass EXCEPT !.pc = "agents",
                            !.orphan = task.state \in Active \cup {"STALLED"},
                            !.agents = {n \in AttemptIds : agent[n] \notin (AgentTerminal \ {"STALLED"})}]
    /\ UNCHANGED <<task, attempt, agent, writer, worktree, lease, up, proof, retry, call, losses>>

(* The receipt precedes the change it authorizes.                          *)
ReceiptAfterChange(r) == episode
authorize_reconciliation_preservation(r) ==
    [episode EXCEPT ![pass.trigger] = record_reconciliation_action_receipt(@, r)]

preserve_lost_agent_session ==
    \/ /\ InPass("agents") /\ pass.agents = {} /\ NextStep(IF pass.orphan THEN "task" ELSE "done")
       /\ UNCHANGED episode
    \/ \E n \in pass.agents :
         /\ InPass("agents")
         /\ episode' = authorize_reconciliation_preservation(<<"agent", n>>)
         /\ pass' = [pass EXCEPT !.pc = "stall", !.n = n, !.agents = @ \ {n}]
StallAgentSession ==
    /\ InPass("stall") /\ agent' = [agent EXCEPT ![pass.n] = "STALLED"]
    /\ NextStep("agent_task")
(* The task of a lost session, whichever of its attempts the session had;  *)
(* attempt and worktree follow one by one.                                 *)
StallAgentTask ==
    /\ InPass("agent_task")
    /\ IF task.state \in Active \cup {"NEEDS_HELP"}
       THEN task' = Moved("STALLED") /\ NextStep("agent_attempt")
       ELSE UNCHANGED task /\ NextStep("agents")
StallAttempt(here, next) ==
    /\ InPass(here) /\ attempt' = [attempt EXCEPT ![pass.n].state = "STALLED"]
    /\ NextStep(next)
PreserveWorktree(here, next) ==
    /\ InPass(here) /\ NextStep(next)
    /\ worktree' = [worktree EXCEPT ![pass.n] = IF @ = "none" THEN @ ELSE "PRESERVED"]

(* Then the tasks that were active or stalled when the pass began, so that *)
(* a pass cut short by a crash is finished by the next one.                *)
preserve_lost_task_attempt ==
    /\ InPass("task") /\ Current > 0
    /\ episode' = authorize_reconciliation_preservation(<<"attempt", Current>>)
    /\ pass' = [pass EXCEPT !.pc = "task_stall", !.n = Current]
StallTask ==
    /\ InPass("task_stall") /\ NextStep("task_attempt")
    /\ task' = IF task.state # "STALLED" THEN Moved("STALLED") ELSE task
PassDone == InPass("done") /\ pass' = NoPass /\ up' = TRUE

reconcile_orphaned_sessions ==
    \/ record_reconciliation_inventory
    \/ /\ preserve_lost_agent_session
       /\ UNCHANGED <<task, attempt, agent, writer, worktree, lease, up, proof, retry, call, losses>>
    \/ /\ StallAgentSession
       /\ UNCHANGED <<task, attempt, writer, worktree, lease, episode, up, proof, retry, call, losses>>
    \/ /\ StallAgentTask \/ StallTask
       /\ UNCHANGED <<attempt, agent, writer, worktree, lease, episode, up, proof, retry, call, losses>>
    \/ /\ StallAttempt("agent_attempt", "agent_worktree") \/ StallAttempt("task_attempt", "task_worktree")
       /\ UNCHANGED <<task, agent, writer, worktree, lease, episode, up, proof, retry, call, losses>>
    \/ /\ \/ PreserveWorktree("agent_worktree", "agents") \/ PreserveWorktree("task_worktree", "done")
       /\ UNCHANGED <<task, attempt, agent, writer, lease, episode, up, proof, retry, call, losses>>
    \/ /\ preserve_lost_task_attempt
       /\ UNCHANGED <<task, attempt, agent, writer, worktree, lease, up, proof, retry, call, losses>>
    \/ /\ PassDone
       /\ UNCHANGED <<task, attempt, agent, writer, worktree, lease, episode, proof, retry, call, losses>>

AppServerExits ==
    /\ up /\ InPass("idle") /\ losses < MaxLosses /\ losses' = losses + 1
    /\ writer' = {} /\ pass' = [NoPass EXCEPT !.pc = "inventory", !.trigger = "app_server_loss"]
    /\ UNCHANGED <<task, attempt, agent, worktree, lease, episode, up, proof, retry, call>>

DaemonCrash ==
    /\ losses < MaxLosses /\ losses' = losses + 1 /\ writer' = {} /\ up' = FALSE
    /\ pass' = [NoPass EXCEPT !.pc = "inventory"] /\ call' = [c \in Consumers |-> NoCall]
    /\ UNCHANGED <<task, attempt, agent, worktree, lease, episode, proof, retry>>

-----------------------------------------------------------------------------
(* Outside the daemon's own code: a custody issuer releases the leases of  *)
(* a lost attempt and records a proof, which expires; the operator asks    *)
(* for a retry.                                                            *)
CustodyClosed(n) ==
    /\ up /\ n \in lease \ writer /\ lease' = lease \ {n}
    /\ UNCHANGED <<task, attempt, agent, writer, worktree, episode, pass, up, proof, retry, call, losses>>
record_ownership_proof(n) ==
    /\ up /\ n \notin proof.about /\ attempt[n].state # "none"
    /\ proof' = [proof EXCEPT !.about = @ \cup {n}]
    /\ UNCHANGED <<task, attempt, agent, writer, worktree, lease, episode, pass, up, retry, call, losses>>
ProofExpires(n) ==
    /\ n \in proof.about \ proof.expired /\ proof' = [proof EXCEPT !.expired = @ \cup {n}]
    /\ UNCHANGED <<task, attempt, agent, writer, worktree, lease, episode, pass, up, retry, call, losses>>
record_retry_action(n) ==
    /\ up /\ n = Current /\ n \notin retry /\ retry' = retry \cup {n}
    /\ UNCHANGED <<task, attempt, agent, writer, worktree, lease, episode, pass, up, proof, call, losses>>

(* A caller reads the versions it expects, then consumes in one            *)
(* transaction that checks every fact of the proof again.                  *)
ReadVersions(c, n, g) ==
    /\ up /\ call[c].pc = "idle" /\ n \in proof.about /\ episode[g].version > 0
    /\ call' = [call EXCEPT ![c] = [pc |-> "consume", n |-> n, task |-> task.version,
                                    episode |-> episode[g].version, trigger |-> g]]
    /\ UNCHANGED <<task, attempt, agent, writer, worktree, lease, episode, pass, up, proof, retry, losses>>

LeaseReleasedUnchecked(n) == TRUE
LeaseReleased(n) == n \notin lease
ProofHolds(n) ==
    /\ n \notin proof.consumed \cup proof.expired
    /\ CanBecomeReady(task.state) /\ n = Current /\ n < MaxAttempts
    /\ attempt[n].state \in {"FAILED", "STALLED"} /\ worktree[n] = "PRESERVED"
    /\ LeaseReleased(n) /\ agent[n] \in AgentTerminal /\ n \in retry
consume_ownership_proof_for_fresh_attempt(c) ==
    LET n == call[c].n
        g == call[c].trigger IN
    /\ up /\ call[c].pc = "consume" /\ call' = [call EXCEPT ![c] = NoCall]
    /\ IF ProofHolds(n) /\ task.version = call[c].task /\ episode[g].version = call[c].episode
       THEN /\ attempt' = [attempt EXCEPT ![n + 1] = [state |-> "AUTHORIZED", replaces |-> n]]
            /\ task' = [Moved("READY") EXCEPT !.attempt = n + 1]
            /\ proof' = [proof EXCEPT !.consumed = @ \cup {n}]
            /\ episode' = [episode EXCEPT ![g] =
                  [advance_reconciliation_episode(@) EXCEPT !.receipts = @ \cup {<<"fresh", n>>}]]
       ELSE UNCHANGED <<attempt, task, proof, episode>>
    /\ UNCHANGED <<agent, writer, worktree, lease, pass, up, retry, losses>>

-----------------------------------------------------------------------------
Init ==
    /\ task = [state |-> "READY", attempt |-> 0, version |-> 1]
    /\ attempt = [n \in AttemptIds |-> [state |-> "none", replaces |-> 0]]
    /\ agent = [n \in AttemptIds |-> "none"] /\ writer = {}
    /\ worktree = [n \in AttemptIds |-> "none"] /\ lease = {}
    /\ episode = [g \in Triggers |-> NoEpisode] /\ pass = NoPass /\ up = TRUE
    /\ proof = [about |-> {}, expired |-> {}, consumed |-> {}] /\ retry = {}
    /\ call = [c \in Consumers |-> NoCall] /\ losses = 0

Next ==
    \/ lease_authorized_fresh_attempt \/ create_task_attempt \/ start_task \/ TurnFails
    \/ reconcile_orphaned_sessions \/ AppServerExits \/ DaemonCrash
    \/ \E n \in AttemptIds : \/ CustodyClosed(n) \/ record_ownership_proof(n)
                             \/ ProofExpires(n) \/ record_retry_action(n)
    \/ \E c \in Consumers : \/ consume_ownership_proof_for_fresh_attempt(c)
                            \/ \E n \in AttemptIds, g \in Triggers : ReadVersions(c, n, g)
Spec == Init /\ [][Next]_reconcileVars

-----------------------------------------------------------------------------
\* Values the state may take.
TypeOK ==
    /\ task.attempt \in 0..MaxAttempts /\ writer \subseteq AttemptIds /\ lease \subseteq AttemptIds
    /\ \A n \in AttemptIds : worktree[n] \in {"none", "READY", "PRESERVED"}

Receipted(r) == \E g \in Triggers : r \in episode[g].receipts
(* Nothing is preserved without a record made before: a stalled session    *)
(* and a stalled attempt have their receipts and their episode an          *)
(* inventory, wherever the pass was cut off.  A replaced attempt has       *)
(* neither a running turn nor an unreleased lease, and two attempts never  *)
(* write at once.                                                          *)
CustodyPreserved ==
    /\ \A n \in AttemptIds :
         /\ agent[n] = "STALLED" => Receipted(<<"agent", n>>)
         /\ attempt[n].state = "STALLED" => Receipted(<<"agent", n>>) \/ Receipted(<<"attempt", n>>)
    /\ \A g \in Triggers : episode[g].receipts # {} => episode[g].findings # {}
    /\ \A n \in AttemptIds : attempt[n].replaces > 0 =>
          attempt[n].replaces \notin writer \cup lease
    /\ Cardinality(writer) <= 1
=============================================================================
