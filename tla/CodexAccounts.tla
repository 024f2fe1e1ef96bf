--------------------------- MODULE CodexAccounts ---------------------------
(***************************************************************************)
(* The Codex accounts of the daemon: homes on disk, the profiles discovery *)
(* and telemetry keep of them, the device sign-in that creates or renews a *)
(* home, removal, selection, and the rotation away from a depleted account *)
(* between two attempts.  CodexLink models the process a selection starts. *)
(***************************************************************************)
EXTENDS Integers, FiniteSets

CONSTANTS
    External,      \* accounts found outside the managed directory
    Managed,       \* managed accounts the daemon starts with
    Fresh,         \* homes a sign-in may create
    SignIns,       \* sign-in requests
    MaxReadings,   \* bound on telemetry readings
    MaxCommands    \* bound on selections, removals, cancellations and agents

VARIABLES
    home,       \* each account's home: none, empty, or signed in (auth.json)
    profile,    \* each account's profile, as discovery and telemetry left it
    selected,   \* the account of the active App Server
    agents,     \* an agent session is active
    login,      \* each sign-in: its task, its child and its status entry
    discovery,  \* refresh_discovery between its reads and its write
    telemetry,  \* refresh_profiles: the profile being probed
    chooser,    \* removal and rotation between their snapshot and their effect
    removed,    \* accounts the operator removed
    spent       \* readings and commands used

accountVars == <<home, profile, selected, agents, login, discovery, telemetry, chooser, removed, spent>>

Accounts == External \cup Managed \cup Fresh
NoProfile == [listed |-> FALSE, state |-> "detected", limits |-> "none", read |-> 0, observed |-> 0]
NoLogin == [pc |-> "idle", acct |-> "none", new |-> FALSE, status |-> "none", token |-> FALSE,
            canceled |-> FALSE, child |-> "none", signed |-> FALSE]

Init ==
    /\ home = [a \in Accounts |-> IF a \in Fresh THEN "none" ELSE "signed"]
    /\ profile = [a \in Accounts |-> [NoProfile EXCEPT !.listed = a \notin Fresh]]
    /\ selected \in External
    /\ agents = FALSE
    /\ login = [l \in SignIns |-> NoLogin]
    /\ discovery = [pc |-> "idle"]
    /\ telemetry = [pc |-> "idle"]
    /\ chooser = [pc |-> "idle"]
    /\ removed = {}
    /\ spent = [readings |-> 0, commands |-> 0]

Command == spent.commands < MaxCommands /\ spent' = [spent EXCEPT !.commands = @ + 1]
At(l, pc) == login[l].pc = pc
Listed == {a \in Accounts : profile[a].listed}

---------------------------------------------------------------------------
(* Discovery and telemetry.                                                *)

\* A managed home is a candidate once it holds auth.json, the selected one as
\* long as it exists.
discover_managed_account_dirs == {a \in Managed \cup Fresh : home[a] = "signed"}
discover_codex_accounts ==
    External \cup discover_managed_account_dirs \cup {a \in Listed : a = selected /\ home[a] # "none"}

\* What the files of Headroom, another program, may say of an external
\* account: nothing, or a snapshot that counts as a reading.
Detected == [NoProfile EXCEPT !.listed = TRUE]
discover_headroom_codex_accounts ==
    LET n == spent.readings + 1 IN
    {Detected} \cup {[Detected EXCEPT !.state = s, !.limits = r, !.read = n, !.observed = n] :
        s \in IF n <= MaxReadings THEN {"ready", "unavailable"} ELSE {}, r \in {"low", "high"}}

\* refresh_discovery reads the directories and then the profiles; the merged
\* list is written over whatever a telemetry probe stored in the meantime.
DiscoveryReads ==
    /\ discovery.pc = "idle"
    /\ \E h \in [External -> discover_headroom_codex_accounts] :
         /\ discovery' = [pc |-> "write", prior |-> profile,
                          found |-> [a \in discover_codex_accounts |->
                                       IF a \in External THEN h[a] ELSE Detected]]
         /\ spent' = [spent EXCEPT !.readings =
                         IF \E a \in External : h[a] # Detected THEN @ + 1 ELSE @]
    /\ UNCHANGED <<home, profile, selected, agents, login, telemetry, chooser, removed>>

\* A profile that was listed is kept unless Headroom's snapshot is newer.
Merged(prior, found) ==
    IF prior.listed /\ prior.observed >= found.observed THEN prior ELSE found
refresh_discovery ==
    /\ discovery.pc = "write"
    /\ profile' = [a \in Accounts |->
          IF a \in DOMAIN discovery.found THEN Merged(discovery.prior[a], discovery.found[a])
          ELSE NoProfile]
    /\ discovery' = [pc |-> "idle"]
    /\ UNCHANGED <<home, selected, agents, login, telemetry, chooser, removed, spent>>

Probed(p) == [p EXCEPT !.observed = spent.readings + 1]
\* Mutant: the limits of an earlier reading survive a failed one.
limits_kept(p) == Probed(p)
rate_limit_refresh_failed(p) == [Probed(p) EXCEPT !.limits = "none"]
account_read_failed(p) == [Probed(p) EXCEPT !.state = "unavailable", !.limits = "none"]
account_profile(p) ==
    {account_read_failed(p)}
    \cup UNION {{rate_limit_refresh_failed([p EXCEPT !.state = s])}
                \cup {[Probed(p) EXCEPT !.state = s, !.limits = r, !.read = spent.readings + 1] :
                        r \in {"low", "high"}} : s \in {"ready", "signed_out"}}

\* refresh_profiles probes a profile of the list it read ...
queue_passive_profile_refresh(a) ==
    /\ telemetry.pc = "idle" /\ a \in Listed /\ spent.readings < MaxReadings
    /\ \E p \in account_profile(profile[a]) : telemetry' = [pc |-> "replace", acct |-> a, found |-> p]
    /\ spent' = [spent EXCEPT !.readings = @ + 1]
    /\ UNCHANGED <<home, profile, selected, agents, login, discovery, chooser, removed>>

\* ... and replaces it, if it is still listed.
replace_profile ==
    /\ telemetry.pc = "replace"
    /\ profile' = [profile EXCEPT ![telemetry.acct] = IF @.listed THEN telemetry.found ELSE @]
    /\ telemetry' = [pc |-> "idle"]
    /\ UNCHANGED <<home, selected, agents, login, discovery, chooser, removed, spent>>

---------------------------------------------------------------------------
(* start_codex_account_login and the task it spawns.                       *)

Target(a) == \/ a \in Fresh /\ home[a] = "none" /\ a \notin removed
             \/ a \in (Managed \cup Fresh) /\ a \in Listed

\* The home is created or looked up, then the child is spawned; a spawn that
\* fails leaves an empty home behind.
start_codex_account_login(l, a) ==
    LET new == a \notin Listed IN
    /\ At(l, "idle") /\ ~agents /\ Target(a)
    /\ home' = IF new THEN [home EXCEPT ![a] = "empty"] ELSE home
    /\ \E spawned \in BOOLEAN :
         login' = [login EXCEPT ![l] = [NoLogin EXCEPT
                     !.pc = IF spawned THEN "starting" ELSE "refused", !.acct = a, !.new = new,
                     !.child = IF spawned THEN "running" ELSE "none"]]
    /\ UNCHANGED <<profile, selected, agents, discovery, telemetry, chooser, removed, spent>>

Discarded(l) == [home EXCEPT ![login[l].acct] = "none"]

\* Mutant: an unfinished sign-in removes its home whoever created it.
cleanup_always(l) == home' = Discarded(l)
cleanup(l) == home' = IF login[l].new THEN Discarded(l) ELSE home

\* Ten seconds for the instructions; without them the child is killed.
parse_device_login_instructions(l) ==
    /\ At(l, "starting")
    /\ \/ /\ login[l].child # "none"
          /\ login' = [login EXCEPT ![l].pc = "waiting", ![l].status = "waiting_for_user",
                                    ![l].token = TRUE]
          /\ UNCHANGED home
       \/ /\ login' = [login EXCEPT ![l].pc = "refused", ![l].child = "none"]
          /\ cleanup(l)
    /\ UNCHANGED <<profile, selected, agents, discovery, telemetry, chooser, removed, spent>>

\* Mutant: cancelling rewrites the status whether or not a token was left.
cancel_any(l) == login' = [login EXCEPT ![l].token = FALSE, ![l].canceled = TRUE, ![l].status = "canceling"]
TakeToken(l) ==
    login' = IF login[l].token
             THEN [login EXCEPT ![l].token = FALSE, ![l].canceled = TRUE, ![l].status = "canceling"]
             ELSE login

cancel_codex_account_login(l) ==
    /\ Command /\ login[l].status # "none" /\ TakeToken(l)
    /\ UNCHANGED <<home, profile, selected, agents, discovery, telemetry, chooser, removed>>

Settled == {"completed", "failed", "canceled"}

\* The task takes the child's exit or the cancellation, whichever is ready.
LoginEnds(l) ==
    /\ At(l, "waiting")
    /\ \E status \in Settled :
         /\ status = "completed" => login[l].child = "ok"
         /\ status = "failed" => login[l].child = "failed"
         /\ status = "canceled" => login[l].canceled
         /\ login' = [login EXCEPT ![l].pc = "ended", ![l].status = status,
                                   ![l].token = FALSE, ![l].child = "none"]
    /\ UNCHANGED <<home, profile, selected, agents, discovery, telemetry, chooser, removed, spent>>

\* A completed sign-in selects its account if no agent is active by then.
LoginFinishes(l) ==
    /\ At(l, "ended")
    /\ login' = [login EXCEPT ![l].pc = "done"]
    /\ IF login[l].status = "completed"
       THEN /\ selected' = IF ~agents /\ login[l].acct \in discover_codex_accounts
                           THEN login[l].acct ELSE selected
            /\ UNCHANGED home
       ELSE cleanup(l) /\ UNCHANGED selected
    /\ UNCHANGED <<profile, agents, discovery, telemetry, chooser, removed, spent>>

\* codex login writes auth.json and exits, or gives up.
ChildSteps(l) ==
    /\ login[l].child = "running"
    /\ \/ /\ ~login[l].signed /\ home[login[l].acct] # "none"
          /\ home' = [home EXCEPT ![login[l].acct] = "signed"]
          /\ login' = [login EXCEPT ![l].signed = TRUE]
       \/ /\ login' = [login EXCEPT ![l].child = IF login[l].signed THEN "ok" ELSE "failed"]
          /\ UNCHANGED home
    /\ UNCHANGED <<profile, selected, agents, discovery, telemetry, chooser, removed, spent>>

---------------------------------------------------------------------------
(* Selecting, rotating, removing.                                          *)

\* switch_account discovers again under its lock.
select_codex_account(a) ==
    /\ Command /\ ~agents /\ a \in discover_codex_accounts
    /\ selected' = a
    /\ UNCHANGED <<home, profile, agents, login, discovery, telemetry, chooser, removed>>

Usable(a) == profile[a].state \in {"ready", "detected"}

\* maybe_rotate_codex_account: the selected account is depleted and another
\* has more left, or is managed and unknown; then the runtime switches.
maybe_rotate_codex_account(a) ==
    /\ chooser.pc = "idle" /\ Command /\ ~agents
    /\ selected \in Listed /\ profile[selected].limits = "low"
    /\ a \in Listed \ {selected} /\ Usable(a)
    /\ \/ profile[a].limits = "high"
       \/ /\ a \notin External
          /\ \A b \in Listed \ {selected} : Usable(b) => profile[b].limits # "high"
    /\ chooser' = [pc |-> "rotate", acct |-> a]
    /\ UNCHANGED <<home, profile, selected, agents, login, discovery, telemetry, removed>>

Rotate ==
    /\ chooser.pc = "rotate"
    /\ selected' = IF chooser.acct \in discover_codex_accounts THEN chooser.acct ELSE selected
    /\ chooser' = [pc |-> "idle"]
    /\ UNCHANGED <<home, profile, agents, login, discovery, telemetry, removed, spent>>

remove_codex_account(a) ==
    /\ chooser.pc = "idle" /\ Command
    /\ a \in Listed /\ a # selected /\ a \notin External
    /\ chooser' = [pc |-> "remove", acct |-> a]
    /\ UNCHANGED <<home, profile, selected, agents, login, discovery, telemetry, removed>>

RemoveHome ==
    /\ chooser.pc = "remove"
    /\ home' = [home EXCEPT ![chooser.acct] = "none"]
    /\ removed' = removed \cup {chooser.acct}
    /\ chooser' = [pc |-> "idle"]
    /\ UNCHANGED <<profile, selected, agents, login, discovery, telemetry, spent>>

\* Agent sessions start and end.
AgentSession ==
    /\ Command /\ agents' = ~agents
    /\ UNCHANGED <<home, profile, selected, login, discovery, telemetry, chooser, removed>>

Next ==
    \/ \E l \in SignIns :
         \/ \E a \in Accounts : start_codex_account_login(l, a)
         \/ parse_device_login_instructions(l) \/ cancel_codex_account_login(l)
         \/ LoginEnds(l) \/ LoginFinishes(l) \/ ChildSteps(l)
    \/ \E a \in Accounts :
         \/ queue_passive_profile_refresh(a) \/ select_codex_account(a)
         \/ maybe_rotate_codex_account(a) \/ remove_codex_account(a)
    \/ DiscoveryReads \/ refresh_discovery \/ replace_profile
    \/ Rotate \/ RemoveHome \/ AgentSession

Spec == Init /\ [][Next]_accountVars

---------------------------------------------------------------------------

\* A sign-in that fails or is cancelled removes no account but the one it
\* created: one that was there before goes only when the operator removes it.
AccountsKept == \A a \in Managed \ removed : home[a] = "signed"

\* Once its task has ended, a sign-in's status says how, for good.
SignInSettles ==
    \A l \in SignIns : login[l].pc \in {"ended", "done"} => login[l].status \in Settled

\* "a failed limit read must never re-label an older capacity snapshot as
\* new": the capacity rotation compares is that of the last observation.
CapacityIsFresh == \A a \in Accounts : profile[a].limits # "none" => profile[a].read = profile[a].observed

AccountCustody == AccountsKept /\ SignInSettles /\ CapacityIsFresh

\* remove_codex_account: "select another Codex account before removing this one".
SelectedHomeKept == home[selected] # "none"
=============================================================================
