----------------------------- MODULE CodexLink -----------------------------
(***************************************************************************)
(* The Codex App Server client (crates/harness-codex/src/lib.rs) and the   *)
(* daemon's event pump around it (bins/harnessd/src/main.rs): requests     *)
(* matched to answers by id, the writer and reader loops that copy every   *)
(* frame to one bounded event channel, the child watcher, the bounded      *)
(* restart after an exit, and account switching under switch_lock.         *)
(*                                                                         *)
(* The pump is both the only consumer of the event channel and a caller of *)
(* requests whose answers the reader can only deliver after it has put     *)
(* them on that channel; while it restarts a server it consumes nothing.   *)
(* What keeps this from locking up are the time limits of requests.        *)
(*                                                                         *)
(* Frames are request ids and notifications; the requests that start a     *)
(* server (initialize, the capability probe, account telemetry) are one.   *)
(* A malformed-frame budget overrun kills the child: it is an exit.        *)
(***************************************************************************)
EXTENDS Naturals, Sequences, FiniteSets

CONSTANTS
    Callers,        \* the pump and the other tasks that use the runtime
    Accounts,       \* discovered account homes
    First,          \* the account the daemon starts with
    SinkSize,       \* capacity of the event channel
    WriterSize,     \* capacity of a server's writer channel
    RestartLimit,   \* restarts tried after an exit
    MaxServers,     \* bound on App Server processes
    MaxRequests,    \* bound on ordinary requests of a caller
    MaxNotes,       \* bound on notifications
    MaxExits,       \* bound on exits
    MaxSwitches     \* bound on account switches of a caller

ASSUME LinkAssumption ==
    /\ "pump" \in Callers /\ "free" \notin Callers /\ First \in Accounts
    /\ SinkSize \in Nat /\ WriterSize \in Nat /\ RestartLimit \in Nat
    /\ MaxRequests \in Nat /\ MaxNotes \in Nat /\ MaxExits \in Nat
    /\ MaxServers \in Nat /\ MaxSwitches \in Nat

VARIABLES
    server,     \* the supervisors started so far, oldest first
    active,     \* CodexRuntimeManager::active
    account,    \* CodexRuntimeManager::active_account_id
    switcher,   \* who holds switch_lock, "free" if nobody
    sink,       \* the event channel: <<kind, server>>
    caller,     \* what each caller of the runtime is doing
    gaveUp,     \* the restart limit was reached
    spent       \* bounds consumed

linkVars == <<server, active, account, switcher, sink, caller, gaveUp, spent>>

Up(a) == [account |-> a, child |-> "up", status |-> "starting", watcher |-> "watching",
          writing |-> TRUE, reading |-> TRUE, channel |-> <<>>, asked |-> {},
          pending |-> {}]
Idle == [pc |-> "idle", at |-> 0, id |-> 0, goal |-> "answer", to |-> First, tries |-> 0]
Room == Len(sink) < SinkSize
Id(p) == <<p, caller[p].id>>
At(p, pc) == caller[p].pc = pc

-----------------------------------------------------------------------------
(* Requests: register, enqueue, wait.                                      *)
\* active_supervisor().request(...): ids grow, so no two requests share one.
Request(p, goal) ==
    [caller[p] EXCEPT !.pc = "register", !.at = active, !.id = @ + 1, !.goal = goal]

\* Mutant: the entry of a request that timed out stays.
ForgetNothing(g, p) == server[g]
\* pending.remove: the oneshot can no longer be completed.
Forget(g, p) == [server[g] EXCEPT !.pending = @ \ {Id(p)}]

\* shutdown: kill the process group and abort the four tasks.
Stopped(s) ==
    [s EXCEPT !.child = "dead", !.status = "disabled", !.watcher = "done",
              !.writing = FALSE, !.reading = FALSE, !.channel = <<>>]

(* The request returned.  A server whose first request failed is shut down *)
(* and the caller's switch or restart ends with an error.                  *)
Failed(p, s) ==
    LET starting == caller[p].goal # "answer"
    IN /\ server' = [server EXCEPT ![caller[p].at] = IF starting THEN Stopped(s) ELSE s]
       /\ switcher' = IF starting THEN "free" ELSE switcher
       /\ caller' = [caller EXCEPT ![p].pc = IF caller[p].goal = "restart"
                                             THEN "backoff" ELSE "idle"]

register(p) ==
    /\ At(p, "register")
    /\ server' = [server EXCEPT ![caller[p].at].pending = @ \cup {Id(p)}]
    /\ caller' = [caller EXCEPT ![p].pc = "enqueue"]
    /\ UNCHANGED <<active, account, switcher, sink, gaveUp, spent>>

enqueue_writer_message(p) ==
    LET g == caller[p].at
    IN /\ At(p, "enqueue")
       /\ \/ /\ server[g].writing /\ Len(server[g].channel) < WriterSize
             /\ server' = [server EXCEPT ![g].channel = Append(@, Id(p))]
             /\ caller' = [caller EXCEPT ![p].pc = "wait"]
             /\ UNCHANGED switcher
          \/ /\ ~server[g].writing \/ Len(server[g].channel) = WriterSize
             /\ Failed(p, Forget(g, p))
       /\ UNCHANGED <<active, account, sink, gaveUp, spent>>

\* Mutant: wait for the answer without a time limit.
wait_for_ever(p) == FALSE /\ UNCHANGED linkVars
request_timeout(p) ==
    /\ At(p, "wait")
    /\ Failed(p, Forget(caller[p].at, p))
    /\ UNCHANGED <<active, account, sink, gaveUp, spent>>

-----------------------------------------------------------------------------
(* The tasks of a supervisor                                               *)
\* Every frame is put on the event channel before it is written.
writer_loop(g) ==
    LET s == server[g] IN
    /\ s.writing /\ s.channel # <<>> /\ Room
    /\ sink' = Append(sink, <<"frame", g>>)
    /\ server' = [server EXCEPT ![g] =
          IF s.child = "up"
          THEN [s EXCEPT !.channel = Tail(@), !.asked = @ \cup {Head(s.channel)}]
          ELSE [s EXCEPT !.channel = <<>>, !.writing = FALSE]]
    /\ UNCHANGED <<active, account, switcher, caller, gaveUp, spent>>

\* What became of a request that was answered or drained.
Deliver(g, ids, pc) ==
    [p \in Callers |-> IF At(p, "wait") /\ caller[p].at = g /\ Id(p) \in ids
                       THEN [caller[p] EXCEPT !.pc = pc] ELSE caller[p]]

(* The reader copies an answer to the channel, then completes the request  *)
(* if it is still pending; an answer that comes too late is dropped.       *)
reader_loop(g) ==
    LET s == server[g] IN
    /\ s.reading /\ s.child = "up" /\ Room
    /\ sink' = Append(sink, <<"frame", g>>)
    /\ \/ \E r \in s.asked :
             /\ server' = [server EXCEPT ![g].asked = @ \ {r}, ![g].pending = @ \ {r}]
             /\ caller' = Deliver(g, {r} \cap s.pending, "answered")
             /\ UNCHANGED spent
       \/ /\ spent.notes < MaxNotes
          /\ spent' = [spent EXCEPT !.notes = @ + 1]
          /\ UNCHANGED <<server, caller>>
    /\ UNCHANGED <<active, account, switcher, gaveUp>>

AppServerExits(g) ==
    /\ server[g].child = "up" /\ spent.exits < MaxExits
    /\ server' = [server EXCEPT ![g].child = "dead"]
    /\ spent' = [spent EXCEPT !.exits = @ + 1]
    /\ UNCHANGED <<active, account, switcher, sink, caller, gaveUp>>

\* Mutant: the watcher leaves the requests of the dead process waiting.
drain_nothing(g) == [server[g] EXCEPT !.watcher = "drained", !.status = "unavailable"]
drain(g) == [server[g] EXCEPT !.watcher = "drained", !.status = "unavailable",
                              !.pending = {}]
child_watcher(g) ==
    LET s == server[g] IN
    /\ s.child = "dead"
    /\ \/ /\ s.watcher = "watching"
          /\ server' = [server EXCEPT ![g] = drain(g)]
          /\ caller' = Deliver(g, s.pending, "disconnected")
          /\ UNCHANGED sink
       \/ /\ s.watcher = "drained" /\ Room
          /\ server' = [server EXCEPT ![g].watcher = "done"]
          /\ sink' = Append(sink, <<"exit", g>>)
          /\ UNCHANGED caller
    /\ UNCHANGED <<active, account, switcher, gaveUp, spent>>

-----------------------------------------------------------------------------
(* Starting, restarting and switching                                      *)
Begin(p, goal, to) == [caller[p] EXCEPT !.pc = "lock", !.goal = goal, !.to = to]

(* select_codex_account, or the rotation maintenance decides on while no   *)
(* agent session is active.                                                *)
switch_account(p, a) ==
    /\ p # "pump" /\ At(p, "idle") /\ spent.switches[p] < MaxSwitches
    /\ caller' = [caller EXCEPT ![p] = Begin(p, "switch", a)]
    /\ spent' = [spent EXCEPT !.switches[p] = @ + 1]
    /\ UNCHANGED <<server, active, account, switcher, sink, gaveUp>>

\* Mutant: restart_active does not take switch_lock.
LockForSwitch(p) == caller[p].goal = "restart" \/ switcher = "free"
Lock(p) == switcher = "free"

(* Under the lock the account is read and a process is started for it;     *)
(* its first request goes to the new process, not to the active one.       *)
start(p) ==
    LET a == IF caller[p].goal = "restart" THEN account ELSE caller[p].to
        g == Len(server) + 1
    IN /\ At(p, "lock") /\ Lock(p)
       /\ \/ /\ g <= MaxServers
             /\ server' = Append(server, Up(a))
             /\ switcher' = p
             /\ caller' = [caller EXCEPT ![p].pc = "register", ![p].at = g,
                                         ![p].id = @ + 1, ![p].to = a]
          \/ \* probe_compatibility or spawn fails
             /\ caller' = [caller EXCEPT ![p].pc = IF caller[p].goal = "restart"
                                                   THEN "backoff" ELSE "idle"]
             /\ UNCHANGED <<server, switcher>>
       /\ UNCHANGED <<active, account, sink, gaveUp, spent>>

(* The request ended.  restart_active stores the new supervisor and drops  *)
(* the old one; switch_account also stores the account and then shuts the  *)
(* old supervisor down.                                                    *)
answered(p) ==
    LET g == caller[p].at IN
    \/ /\ At(p, "answered") /\ caller[p].goal = "answer"
       /\ caller' = [caller EXCEPT ![p].pc = "idle"]
       /\ UNCHANGED <<server, active, account, switcher, gaveUp>>
    \/ /\ At(p, "answered") /\ caller[p].goal = "restart"
       /\ server' = [server EXCEPT ![g].status = IF @ = "starting" THEN "ready" ELSE @]
       /\ active' = g /\ switcher' = "free" /\ gaveUp' = FALSE
       /\ caller' = [caller EXCEPT ![p].pc = "idle"]
       /\ UNCHANGED account
    \/ /\ At(p, "answered") /\ caller[p].goal = "switch"
       /\ server' = [server EXCEPT ![g].status = IF @ = "starting" THEN "ready" ELSE @]
       /\ active' = g /\ account' = caller[p].to /\ gaveUp' = FALSE
       /\ caller' = [caller EXCEPT ![p].pc = "shutdown", ![p].at = active]
       /\ UNCHANGED switcher

disconnected(p) ==
    /\ At(p, "disconnected")
    /\ Failed(p, server[caller[p].at])
    /\ UNCHANGED <<active, account, sink, gaveUp, spent>>

shutdown(p) ==
    /\ At(p, "shutdown")
    /\ server' = [server EXCEPT ![caller[p].at] = Stopped(@)]
    /\ switcher' = "free"
    /\ caller' = [caller EXCEPT ![p].pc = "idle"]
    /\ UNCHANGED <<active, account, sink, gaveUp, spent>>

-----------------------------------------------------------------------------
(* Callers                                                                 *)
request(p) ==
    /\ At(p, "idle") /\ p # "pump" /\ spent.requests[p] < MaxRequests
    /\ caller' = [caller EXCEPT ![p] = Request(p, "answer")]
    /\ spent' = [spent EXCEPT !.requests[p] = @ + 1]
    /\ UNCHANGED <<server, active, account, switcher, sink, gaveUp>>

(* The pump handles one event at a time; handling a frame may itself make  *)
(* a request.  The exit of a process that is not the active one is stale.  *)
event_pump ==
    /\ At("pump", "idle") /\ sink # <<>>
    /\ sink' = Tail(sink)
    /\ \/ /\ Head(sink)[1] = "frame" /\ spent.requests["pump"] < MaxRequests
          /\ caller' = [caller EXCEPT !["pump"] = Request("pump", "answer")]
          /\ spent' = [spent EXCEPT !.requests["pump"] = @ + 1]
       \/ /\ Head(sink)[1] = "frame" \/ Head(sink)[2] # active
          /\ UNCHANGED <<caller, spent>>
       \/ /\ Head(sink) = <<"exit", active>>
          /\ caller' = [caller EXCEPT !["pump"].pc = "backoff", !["pump"].tries = 0]
          /\ UNCHANGED spent
    /\ UNCHANGED <<server, active, account, switcher, gaveUp>>

\* Mutant: the restart loop gives up without saying so after the first failure.
backoff_once ==
    /\ At("pump", "backoff")
    /\ caller' = [caller EXCEPT !["pump"] =
          IF @.tries < 1 THEN [Begin("pump", "restart", account) EXCEPT !.tries = @ + 1]
          ELSE [@ EXCEPT !.pc = "idle"]]
    /\ UNCHANGED <<server, active, account, switcher, sink, gaveUp, spent>>
restart_after_exit ==
    /\ At("pump", "backoff")
    /\ \/ /\ caller["pump"].tries < RestartLimit
          /\ caller' = [caller EXCEPT !["pump"] =
                [Begin("pump", "restart", account) EXCEPT !.tries = @ + 1]]
          /\ UNCHANGED gaveUp
       \/ /\ caller["pump"].tries = RestartLimit
          /\ caller' = [caller EXCEPT !["pump"].pc = "idle"]
          /\ gaveUp' = TRUE
    /\ UNCHANGED <<server, active, account, switcher, sink, spent>>

-----------------------------------------------------------------------------
Init ==
    /\ server = <<[Up(First) EXCEPT !.status = "ready"]>>
    /\ active = 1 /\ account = First /\ switcher = "free"
    /\ sink = <<>> /\ gaveUp = FALSE
    /\ caller = [p \in Callers |-> Idle]
    /\ spent = [notes |-> 0, exits |-> 0, requests |-> [p \in Callers |-> 0],
                switches |-> [p \in Callers |-> 0]]

Completed(p) == answered(p) /\ UNCHANGED <<sink, spent>>
Program(p) ==
    \/ register(p) \/ enqueue_writer_message(p) \/ request_timeout(p) \/ start(p)
    \/ Completed(p) \/ disconnected(p) \/ shutdown(p)
Tasks(g) == writer_loop(g) \/ reader_loop(g) \/ child_watcher(g)

Next ==
    \/ \E p \in Callers : Program(p) \/ request(p)
    \/ \E p \in Callers, a \in Accounts : switch_account(p, a)
    \/ \E g \in DOMAIN server : Tasks(g) \/ AppServerExits(g)
    \/ event_pump \/ restart_after_exit

Spec == Init /\ [][Next]_linkVars

(* Tokio runs every task that can run, timers included, and switch_lock is *)
(* FIFO.  The App Server itself need not answer.                           *)
Fairness ==
    /\ \A p \in Callers : WF_linkVars(Program(p)) /\ SF_linkVars(start(p))
    /\ \A g \in 1..MaxServers : WF_linkVars(g \in DOMAIN server /\ child_watcher(g))
    /\ WF_linkVars(event_pump) /\ WF_linkVars(restart_after_exit)
FairSpec == Spec /\ Fairness

-----------------------------------------------------------------------------
(* Values the state may take; what is queued never exceeds its channel.    *)
Ids == Callers \X Nat
Supervisor == [account : Accounts, child : {"up", "dead"},
               status : {"starting", "ready", "unavailable", "disabled"},
               watcher : {"watching", "drained", "done"}, writing : BOOLEAN,
               reading : BOOLEAN, channel : Seq(Ids), asked : SUBSET Ids,
               pending : SUBSET Ids]
Call == [pc : {"idle", "register", "enqueue", "wait", "answered", "disconnected",
               "lock", "shutdown", "backoff"},
         at : Nat, id : Nat, goal : {"answer", "switch", "restart"}, to : Accounts,
         tries : Nat]
Spent == [notes : Nat, exits : Nat, requests : [Callers -> Nat],
          switches : [Callers -> Nat]]
TypeOK ==
    /\ server \in Seq(Supervisor) /\ active \in DOMAIN server /\ account \in Accounts
    /\ switcher \in Callers \cup {"free"} /\ gaveUp \in BOOLEAN
    /\ sink \in Seq({"frame", "exit"} \X Nat) /\ Len(sink) <= SinkSize
    /\ \A g \in DOMAIN server : Len(server[g].channel) <= WriterSize
    /\ caller \in [Callers -> Call]
    /\ spent \in Spent

(* CodexSupervisor::pending holds exactly requests somebody still waits    *)
(* for: nothing leaks, and no answer can reach a later request of the same *)
(* caller.                                                                 *)
PendingOwned ==
    \A g \in DOMAIN server : \A r \in server[g].pending :
        /\ caller[r[1]].at = g /\ caller[r[1]].id = r[2]
        /\ caller[r[1]].pc \in {"enqueue", "wait"}

(* Outside switch_lock the active process runs with the account the        *)
(* manager reports (restart_active and switch_account read, start and      *)
(* store in several steps).                                                *)
ActiveAccountConsistent == switcher = "free" => server[active].account = account

(* Both: a request is answered by the process it was sent to, and that is   *)
(* the process of the account in use.                                       *)
LinkCustody == TypeOK /\ PendingOwned /\ ActiveAccountConsistent

(* Every request returns, and with it the pump: however full the event     *)
(* channel is, whoever holds the lock and whether the process answers.     *)
Busy(p) == caller[p].pc # "idle"
RequestsReturn == \A p \in Callers : Busy(p) ~> ~Busy(p)

(* An exit of the active process is followed by a running one or by the    *)
(* recorded end of the restart limit (with one exit).                      *)
Exited == server[active].child = "dead" /\ server[active].watcher # "done"
Replaced == server[active].child = "up" \/ gaveUp
ExitHandled == Exited ~> Replaced

(* docs/APP_SERVER_EVENT_MAPPING.md: exactly one App Server process.  At   *)
(* rest no process but the active one runs.                                *)
OneServerAtRest ==
    switcher = "free" =>
        \A g \in DOMAIN server : server[g].child = "up" => g = active
=============================================================================
