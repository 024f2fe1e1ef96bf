-------------------------- MODULE CodexLinkProofs --------------------------
(***************************************************************************)
(* Custody of requests and accounts in the Codex client, for every set of  *)
(* callers and accounts, every channel size and every bound.               *)
(***************************************************************************)
EXTENDS CodexLink, SequenceTheorems, TLAPS

(* A caller uses one supervisor from the start of its request until the     *)
(* request has returned; a switch then still has the old one to shut down.  *)
Requesting == {"register", "enqueue", "wait", "answered", "disconnected"}
Using(p) == caller[p].pc \in Requesting \cup {"shutdown"}
Holds(p) == caller[p].goal # "answer" /\ Using(p)

(* What a caller may rely on.  It holds switch_lock exactly while it starts *)
(* a server or shuts one down after a switch.  The server it starts runs    *)
(* with the account it was started for, and a restart stores it under the   *)
(* account it read: nobody has stored another one meanwhile.                *)
Relies(p) ==
    /\ Using(p) => caller[p].at \in DOMAIN server
    /\ (switcher = p) <=> Holds(p)
    /\ caller[p].pc = "lock" => caller[p].goal # "answer"
    /\ caller[p].pc = "shutdown" => caller[p].goal = "switch"
    /\ caller[p].goal # "answer" /\ caller[p].pc \in Requesting =>
          server[caller[p].at].account = caller[p].to
    /\ caller[p].goal = "restart" /\ caller[p].pc \in Requesting =>
          caller[p].to = account

InUse == server[active].account = account

KInv == TypeOK /\ PendingOwned /\ InUse /\ \A p \in Callers : Relies(p)

-----------------------------------------------------------------------------
(* Sequences of supervisors                                                *)
LEMMA SetServer ==
    ASSUME server \in Seq(Supervisor), NEW g \in DOMAIN server, NEW s \in Supervisor,
           server' = [server EXCEPT ![g] = s]
    PROVE  /\ server' \in Seq(Supervisor) /\ DOMAIN server' = DOMAIN server
           /\ server'[g] = s /\ \A h \in DOMAIN server \ {g} : server'[h] = server[h]
  BY ExceptSeq

LEMMA AddServer ==
    ASSUME server \in Seq(Supervisor), NEW s \in Supervisor,
           server' = Append(server, s)
    PROVE  /\ server' \in Seq(Supervisor) /\ Len(server) + 1 \in DOMAIN server'
           /\ DOMAIN server \subseteq DOMAIN server'
           /\ DOMAIN server' = DOMAIN server \cup {Len(server) + 1}
           /\ Len(server) + 1 \notin DOMAIN server
           /\ server'[Len(server) + 1] = s
           /\ \A h \in DOMAIN server : server'[h] = server[h]
  BY AppendProperties

LEMMA Supervised ==
    ASSUME TypeOK, NEW g \in DOMAIN server
    PROVE  server[g] \in Supervisor
  BY DEF TypeOK

(* Supervisors are only added, and an App Server keeps its account.         *)
ServersKept ==
    /\ DOMAIN server \subseteq DOMAIN server'
    /\ \A g \in DOMAIN server : server'[g].account = server[g].account

(* What a step leaves to a caller whose request it at most moves on.        *)
LEMMA ReliesKept ==
    ASSUME NEW p \in Callers, Relies(p), ServersKept,
           caller'[p].at = caller[p].at, caller'[p].goal = caller[p].goal,
           caller'[p].to = caller[p].to,
           \/ caller'[p].pc = caller[p].pc
           \/ caller[p].pc \in Requesting /\ caller'[p].pc \in Requesting,
           (switcher' = p) <=> (switcher = p),
           account' = account \/ switcher # p
    PROVE  Relies(p)'
  BY DEF Relies, Holds, Using, Requesting, ServersKept

(* shutdown forgets no request: its caller does.                            *)
LEMMA StoppedSupervisor ==
    ASSUME NEW s \in Supervisor
    PROVE  /\ Stopped(s) \in Supervisor /\ Stopped(s).account = s.account
           /\ Stopped(s).channel = <<>> /\ Len(Stopped(s).channel) = 0
           /\ Stopped(s).pending = s.pending
  <1>1. <<>> \in Seq(Ids) /\ Len(<<>>) = 0
    BY EmptySeq
  <1>2. Stopped(s).channel = <<>>
    BY DEF Stopped, Supervisor
  <1>3. Stopped(s).account = s.account /\ Stopped(s).pending = s.pending
    BY DEF Stopped, Supervisor
  <1>4. Stopped(s) \in Supervisor
    BY <1>1 DEF Stopped, Supervisor
  <1> QED
    BY <1>1, <1>2, <1>3, <1>4

(* A step on one supervisor, which keeps its account and its limits.        *)
LEMMA OneServer ==
    ASSUME TypeOK, InUse, NEW g \in DOMAIN server, NEW s \in Supervisor,
           server' = [server EXCEPT ![g] = s],
           s.account = server[g].account, Len(s.channel) <= WriterSize
    PROVE  /\ server' \in Seq(Supervisor) /\ DOMAIN server' = DOMAIN server
           /\ server'[g] = s /\ \A h \in DOMAIN server \ {g} : server'[h] = server[h]
           /\ \A h \in DOMAIN server' : Len(server'[h].channel) <= WriterSize
           /\ ServersKept
  <1>1. /\ server' \in Seq(Supervisor) /\ DOMAIN server' = DOMAIN server
        /\ server'[g] = s /\ \A h \in DOMAIN server \ {g} : server'[h] = server[h]
    BY SetServer DEF TypeOK
  <1>2. \A h \in DOMAIN server' : Len(server'[h].channel) <= WriterSize
    BY <1>1 DEF TypeOK
  <1>3. ServersKept
    BY <1>1 DEF ServersKept
  <1> QED
    BY <1>1, <1>2, <1>3

(* Nobody waits twice: a request that is pending is the caller's current    *)
(* one.                                                                     *)
LEMMA CurrentOnly ==
    ASSUME TypeOK, PendingOwned, NEW p \in Callers, NEW h \in DOMAIN server,
           NEW r \in server[h].pending, r[1] = p
    PROVE  r = Id(p) /\ h = caller[p].at /\ At(p, caller[p].pc)
           /\ caller[p].pc \in {"enqueue", "wait"}
  <1>1. r \in Ids
    BY Supervised DEF Supervisor
  <1> QED
    BY <1>1 DEF PendingOwned, Id, At, Ids

-----------------------------------------------------------------------------
(* Requests                                                                *)
(* A request that ends without an answer takes its entry with it, and a     *)
(* caller that was starting a server gives the lock back.                   *)
LEMMA FailedKeeps ==
    ASSUME KInv, NEW p \in Callers,
           caller[p].pc \in {"enqueue", "wait", "disconnected"},
           NEW s \in {server[caller[p].at], Forget(caller[p].at, p)},
           Id(p) \notin s.pending,
           Failed(p, s), UNCHANGED <<active, account, sink, gaveUp, spent>>
    PROVE  KInv'
  <1> DEFINE g == caller[p].at
             starting == caller[p].goal # "answer"
             t == IF starting THEN Stopped(s) ELSE s
  <1>0. /\ g \in DOMAIN server /\ server[g] \in Supervisor /\ caller[p] \in Call
        /\ Len(server[g].channel) <= WriterSize
    BY Supervised DEF KInv, TypeOK, Relies, Using, Requesting
  <1>1. /\ s \in Supervisor /\ s.account = server[g].account
        /\ Len(s.channel) <= WriterSize /\ s.pending \subseteq server[g].pending
    BY <1>0 DEF Forget, Supervisor
  <1>2. /\ t \in Supervisor /\ t.account = server[g].account
        /\ Len(t.channel) <= WriterSize /\ t.pending = s.pending
    <2>1. CASE starting
      BY <2>1, <1>1, StoppedSupervisor, LinkAssumption
    <2>2. CASE ~starting
      BY <2>2, <1>1
    <2> QED BY <2>1, <2>2
  <1>3. server' = [server EXCEPT ![g] = t]
    BY DEF Failed
  <1> HIDE DEF t
  <1>4. /\ server' \in Seq(Supervisor) /\ DOMAIN server' = DOMAIN server
        /\ server'[g] = t /\ \A h \in DOMAIN server \ {g} : server'[h] = server[h]
        /\ \A h \in DOMAIN server' : Len(server'[h].channel) <= WriterSize
        /\ ServersKept
    BY <1>0, <1>2, <1>3, OneServer DEF KInv
  <1>5. /\ caller' \in [Callers -> Call] /\ caller'[p].pc \in {"idle", "backoff"}
        /\ \A q \in Callers \ {p} : caller'[q] = caller[q]
    BY <1>0 DEF Failed, KInv, TypeOK, Call
  <1>6. TypeOK'
    BY <1>4, <1>5 DEF KInv, TypeOK, Failed
  <1>7. PendingOwned'
    <2> SUFFICES ASSUME NEW h \in DOMAIN server', NEW r \in server'[h].pending
                 PROVE  /\ caller'[r[1]].at = h /\ caller'[r[1]].id = r[2]
                        /\ caller'[r[1]].pc \in {"enqueue", "wait"}
      BY DEF PendingOwned
    <2>1. h \in DOMAIN server /\ r \in server[h].pending /\ r[1] \in Callers
      <3>1. h \in DOMAIN server /\ r \in server[h].pending
        BY <1>1, <1>2, <1>4
      <3>2. server[h] \in Supervisor
        BY <3>1, Supervised DEF KInv
      <3> QED
        BY <3>1, <3>2 DEF Supervisor, Ids
    <2>2. r[1] # p
      BY <2>1, <1>2, <1>4, CurrentOnly DEF KInv
    <2> QED
      BY <2>1, <2>2, <1>5 DEF KInv, PendingOwned
  <1>8. InUse'
    BY <1>4 DEF KInv, InUse, ServersKept, TypeOK
  <1>9. ASSUME NEW q \in Callers PROVE Relies(q)'
    <2>1. (switcher' = q) <=> (q # p /\ switcher = q)
      <3>1. CASE starting
        BY <3>1, <1>0, LinkAssumption DEF Failed, KInv, Relies, Holds, Using, Requesting
      <3>2. CASE ~starting
        BY <3>2, <1>0 DEF Failed, KInv, Relies, Holds, Using, Requesting
      <3> QED BY <3>1, <3>2
    <2>2. CASE q = p
      BY <2>1, <2>2, <1>5 DEF Relies, Holds, Using, Requesting
    <2>3. CASE q # p
      BY <2>1, <2>3, <1>4, <1>5, ReliesKept DEF KInv
    <2> QED BY <2>2, <2>3
  <1> QED
    BY <1>6, <1>7, <1>8, <1>9 DEF KInv

LEMMA RegisterKeeps ==
    ASSUME KInv, NEW p \in Callers, register(p)
    PROVE  KInv'
  <1> DEFINE g == caller[p].at
             t == [server[g] EXCEPT !.pending = @ \cup {Id(p)}]
  <1>0. /\ g \in DOMAIN server /\ server[g] \in Supervisor /\ caller[p] \in Call
        /\ caller[p].pc = "register" /\ Len(server[g].channel) <= WriterSize
    BY Supervised DEF KInv, TypeOK, Relies, Using, Requesting, register, At
  <1>1. Id(p) \in Ids
    BY <1>0 DEF Id, Ids, Call
  <1>2. /\ t \in Supervisor /\ t.account = server[g].account
        /\ Len(t.channel) <= WriterSize /\ t.pending = server[g].pending \cup {Id(p)}
    BY <1>0, <1>1 DEF Supervisor
  <1>3. server' = [server EXCEPT ![g] = t]
    BY <1>0 DEF register
  <1> HIDE DEF t
  <1>4. /\ server' \in Seq(Supervisor) /\ DOMAIN server' = DOMAIN server
        /\ server'[g] = t /\ \A h \in DOMAIN server \ {g} : server'[h] = server[h]
        /\ \A h \in DOMAIN server' : Len(server'[h].channel) <= WriterSize
        /\ ServersKept
    BY <1>0, <1>2, <1>3, OneServer DEF KInv
  <1>5. /\ caller' \in [Callers -> Call] /\ caller'[p] = [caller[p] EXCEPT !.pc = "enqueue"]
        /\ \A q \in Callers \ {p} : caller'[q] = caller[q]
    BY <1>0 DEF register, KInv, TypeOK, Call
  <1>6. TypeOK'
    BY <1>4, <1>5 DEF KInv, TypeOK, register
  <1>7. PendingOwned'
    <2> SUFFICES ASSUME NEW h \in DOMAIN server', NEW r \in server'[h].pending
                 PROVE  /\ caller'[r[1]].at = h /\ caller'[r[1]].id = r[2]
                        /\ caller'[r[1]].pc \in {"enqueue", "wait"}
      BY DEF PendingOwned
    <2>1. CASE h = g /\ r = Id(p)
      BY <2>1, <1>0, <1>5 DEF Id, Call
    <2>2. CASE ~(h = g /\ r = Id(p))
      <3>1. h \in DOMAIN server /\ r \in server[h].pending /\ r[1] \in Callers
        BY <2>2, <1>2, <1>4, Supervised DEF KInv, Supervisor, Ids
      <3>2. r[1] # p
        BY <3>1, <1>0, CurrentOnly DEF KInv
      <3> QED
        BY <3>1, <3>2, <1>5 DEF KInv, PendingOwned
    <2> QED BY <2>1, <2>2
  <1>8. InUse'
    BY <1>4 DEF KInv, InUse, ServersKept, TypeOK, register
  <1>9. ASSUME NEW q \in Callers PROVE Relies(q)'
    <2>1. UNCHANGED <<account, switcher>>
      BY DEF register
    <2>2. CASE q = p
      BY <2>1, <2>2, <1>0, <1>4, <1>5, ReliesKept DEF KInv, Call, Requesting
    <2>3. CASE q # p
      BY <2>1, <2>3, <1>4, <1>5, ReliesKept DEF KInv
    <2> QED BY <2>2, <2>3
  <1> QED
    BY <1>6, <1>7, <1>8, <1>9 DEF KInv

LEMMA ForgetsOwn ==
    ASSUME TypeOK, NEW p \in Callers, caller[p].at \in DOMAIN server
    PROVE  Id(p) \notin Forget(caller[p].at, p).pending
  BY Supervised DEF Forget, Supervisor

LEMMA TimeoutKeeps ==
    ASSUME KInv, NEW p \in Callers, request_timeout(p)
    PROVE  KInv'
  <1>1. caller[p].pc = "wait" /\ caller[p].at \in DOMAIN server
    BY DEF request_timeout, At, KInv, Relies, Using, Requesting
  <1>2. Id(p) \notin Forget(caller[p].at, p).pending
    BY <1>1, ForgetsOwn DEF KInv
  <1> QED
    BY <1>1, <1>2, FailedKeeps DEF request_timeout

LEMMA DisconnectedKeeps ==
    ASSUME KInv, NEW p \in Callers, disconnected(p)
    PROVE  KInv'
  <1>1. caller[p].pc = "disconnected" /\ caller[p].at \in DOMAIN server
    BY DEF disconnected, At, KInv, Relies, Using, Requesting
  <1>2. Id(p) \notin server[caller[p].at].pending
    BY <1>1, CurrentOnly DEF KInv, Id
  <1> QED
    BY <1>1, <1>2, FailedKeeps DEF disconnected

LEMMA EnqueueKeeps ==
    ASSUME KInv, NEW p \in Callers, enqueue_writer_message(p)
    PROVE  KInv'
  <1> DEFINE g == caller[p].at
             t == [server[g] EXCEPT !.channel = Append(@, Id(p))]
  <1>0. /\ g \in DOMAIN server /\ server[g] \in Supervisor /\ caller[p] \in Call
        /\ caller[p].pc = "enqueue"
    BY Supervised DEF KInv, TypeOK, Relies, Using, Requesting, enqueue_writer_message, At
  <1>a. CASE ~server[g].writing \/ Len(server[g].channel) = WriterSize
    <2>1. Failed(p, Forget(g, p)) /\ UNCHANGED <<active, account, sink, gaveUp, spent>>
      BY <1>a, <1>0, LinkAssumption DEF enqueue_writer_message
    <2>2. Id(p) \notin Forget(g, p).pending
      BY <1>0, ForgetsOwn DEF KInv
    <2> QED
      BY <1>0, <2>1, <2>2, FailedKeeps
  <1>b. CASE server[g].writing /\ Len(server[g].channel) < WriterSize
    <2>1. Id(p) \in Ids /\ server[g].channel \in Seq(Ids)
      BY <1>0 DEF Id, Ids, Call, Supervisor
    <2>2. Append(server[g].channel, Id(p)) \in Seq(Ids)
          /\ Len(Append(server[g].channel, Id(p))) = Len(server[g].channel) + 1
      BY <2>1, AppendProperties
    <2>3. Len(server[g].channel) + 1 <= WriterSize
      BY <1>b, <2>1, LinkAssumption
    <2>4. /\ t \in Supervisor /\ t.account = server[g].account
          /\ Len(t.channel) <= WriterSize /\ t.pending = server[g].pending
      BY <1>0, <2>2, <2>3 DEF Supervisor
    <2>5. /\ server' = [server EXCEPT ![g] = t]
          /\ caller' = [caller EXCEPT ![p].pc = "wait"]
          /\ UNCHANGED <<active, account, switcher, sink, gaveUp, spent>>
      BY <1>b, <1>0, <2>1, LinkAssumption DEF enqueue_writer_message
    <2> HIDE DEF t
    <2>6. /\ server' \in Seq(Supervisor) /\ DOMAIN server' = DOMAIN server
          /\ server'[g] = t /\ \A h \in DOMAIN server \ {g} : server'[h] = server[h]
          /\ \A h \in DOMAIN server' : Len(server'[h].channel) <= WriterSize
          /\ ServersKept
      BY <1>0, <2>4, <2>5, OneServer DEF KInv
    <2>7. /\ caller' \in [Callers -> Call] /\ caller'[p] = [caller[p] EXCEPT !.pc = "wait"]
          /\ \A q \in Callers \ {p} : caller'[q] = caller[q]
      BY <1>0, <2>5 DEF KInv, TypeOK, Call
    <2>8. TypeOK'
      BY <2>5, <2>6, <2>7 DEF KInv, TypeOK
    <2>9. PendingOwned'
      <3> SUFFICES ASSUME NEW h \in DOMAIN server', NEW r \in server'[h].pending
                   PROVE  /\ caller'[r[1]].at = h /\ caller'[r[1]].id = r[2]
                          /\ caller'[r[1]].pc \in {"enqueue", "wait"}
        BY DEF PendingOwned
      <3>1. h \in DOMAIN server /\ r \in server[h].pending
        BY <2>4, <2>6
      <3>2. server[h] \in Supervisor
        BY <3>1, Supervised DEF KInv
      <3>3. r[1] \in Callers
        BY <3>1, <3>2 DEF Supervisor, Ids
      <3> QED
        BY <3>1, <3>3, <1>0, <2>7 DEF KInv, PendingOwned, Call
    <2>10. InUse'
      BY <2>5, <2>6 DEF KInv, InUse, ServersKept, TypeOK
    <2>11. ASSUME NEW q \in Callers PROVE Relies(q)'
      <3>1. CASE q = p
        BY <3>1, <1>0, <2>5, <2>6, <2>7, ReliesKept DEF KInv, Call, Requesting
      <3>2. CASE q # p
        BY <3>2, <2>5, <2>6, <2>7, ReliesKept DEF KInv
      <3> QED BY <3>1, <3>2
    <2> QED
      BY <2>8, <2>9, <2>10, <2>11 DEF KInv
  <1> QED
    BY <1>a, <1>b DEF enqueue_writer_message

-----------------------------------------------------------------------------
(* The tasks of a supervisor touch nothing but it and the requests it       *)
(* completes, and they complete a request only once it is not pending.      *)
Completes(g) ==
    /\ caller' \in [Callers -> Call]
    /\ \A q \in Callers :
          \/ caller'[q] = caller[q]
          \/ /\ At(q, "wait") /\ caller[q].at = g /\ Id(q) \notin server'[g].pending
             /\ \E pc \in {"answered", "disconnected"} :
                   caller'[q] = [caller[q] EXCEPT !.pc = pc]

LEMMA TaskKeeps ==
    ASSUME KInv, NEW g \in DOMAIN server, NEW s \in Supervisor,
           server' = [server EXCEPT ![g] = s], s.account = server[g].account,
           Len(s.channel) <= WriterSize, s.pending \subseteq server[g].pending,
           Completes(g), UNCHANGED <<active, account, switcher, gaveUp>>,
           sink' \in Seq({"frame", "exit"} \X Nat), Len(sink') <= SinkSize,
           spent' \in Spent
    PROVE  KInv'
  <1>1. /\ server' \in Seq(Supervisor) /\ DOMAIN server' = DOMAIN server
        /\ server'[g] = s /\ \A h \in DOMAIN server \ {g} : server'[h] = server[h]
        /\ \A h \in DOMAIN server' : Len(server'[h].channel) <= WriterSize
        /\ ServersKept
    BY OneServer DEF KInv
  <1>2. TypeOK'
    BY <1>1 DEF KInv, TypeOK, Completes
  <1>3. PendingOwned'
    <2> SUFFICES ASSUME NEW h \in DOMAIN server', NEW r \in server'[h].pending
                 PROVE  /\ caller'[r[1]].at = h /\ caller'[r[1]].id = r[2]
                        /\ caller'[r[1]].pc \in {"enqueue", "wait"}
      BY DEF PendingOwned
    <2>1. h \in DOMAIN server /\ r \in server[h].pending
      BY <1>1
    <2>2. server[h] \in Supervisor
      BY <2>1, Supervised DEF KInv
    <2>3. r[1] \in Callers
      BY <2>1, <2>2 DEF Supervisor, Ids
    <2>4. r = Id(r[1]) /\ h = caller[r[1]].at
      BY <2>1, <2>3, CurrentOnly DEF KInv
    <2>5. caller'[r[1]] = caller[r[1]]
      BY <2>3, <2>4 DEF Completes
    <2> QED
      BY <2>1, <2>5 DEF KInv, PendingOwned
  <1>4. InUse'
    BY <1>1 DEF KInv, InUse, ServersKept, TypeOK
  <1>5. ASSUME NEW q \in Callers PROVE Relies(q)'
    <2>0. caller[q] \in Call
      BY DEF KInv, TypeOK
    <2>1. CASE caller'[q] = caller[q]
      BY <2>1, <1>1, ReliesKept DEF KInv
    <2>2. CASE caller'[q] # caller[q]
      <3>1. PICK pc \in {"answered", "disconnected"} :
               caller'[q] = [caller[q] EXCEPT !.pc = pc]
        BY <2>2 DEF Completes
      <3>2. caller[q].pc = "wait"
        BY <2>2 DEF Completes, At
      <3> QED
        BY <2>0, <3>1, <3>2, <1>1, ReliesKept DEF KInv, Call, Requesting
    <2> QED BY <2>1, <2>2
  <1> QED
    BY <1>2, <1>3, <1>4, <1>5 DEF KInv

(* The bounds stay numbers.                                                 *)
LEMMA SpentMore ==
    ASSUME spent \in Spent, NEW p \in Callers
    PROVE  /\ [spent EXCEPT !.notes = @ + 1] \in Spent
           /\ [spent EXCEPT !.exits = @ + 1] \in Spent
           /\ [spent EXCEPT !.requests[p] = @ + 1] \in Spent
           /\ [spent EXCEPT !.switches[p] = @ + 1] \in Spent
  <1>1. [spent EXCEPT !.notes = @ + 1] \in Spent
    BY DEF Spent
  <1>2. [spent EXCEPT !.exits = @ + 1] \in Spent
    BY DEF Spent
  <1>3. [spent EXCEPT !.requests[p] = @ + 1] \in Spent
    BY DEF Spent
  <1>4. [spent EXCEPT !.switches[p] = @ + 1] \in Spent
    BY DEF Spent
  <1> QED
    BY <1>1, <1>2, <1>3, <1>4

(* One more event: there is room for it.                                    *)
LEMMA OneEvent ==
    ASSUME TypeOK, Room, NEW k \in {"frame", "exit"}, NEW g \in DOMAIN server,
           sink' = Append(sink, <<k, g>>)
    PROVE  sink' \in Seq({"frame", "exit"} \X Nat) /\ Len(sink') <= SinkSize
  <1>1. g \in Nat
    BY DEF TypeOK
  <1>2. <<k, g>> \in {"frame", "exit"} \X Nat
    BY <1>1
  <1>3. sink' \in Seq({"frame", "exit"} \X Nat) /\ Len(sink') = Len(sink) + 1
    BY <1>2, AppendProperties DEF TypeOK
  <1>4. Len(sink) \in Nat
    BY DEF TypeOK
  <1> QED
    BY <1>3, <1>4, LinkAssumption DEF Room

LEMMA NobodyCompleted ==
    ASSUME KInv, NEW g, UNCHANGED caller
    PROVE  Completes(g)
  BY DEF Completes, KInv, TypeOK

LEMMA WriterKeeps ==
    ASSUME KInv, NEW g \in DOMAIN server, writer_loop(g)
    PROVE  KInv'
  <1> DEFINE s == server[g]
             t == IF s.child = "up"
                  THEN [s EXCEPT !.channel = Tail(@), !.asked = @ \cup {Head(s.channel)}]
                  ELSE [s EXCEPT !.channel = <<>>, !.writing = FALSE]
  <1>1. s \in Supervisor /\ s.channel \in Seq(Ids) /\ Len(s.channel) <= WriterSize
    BY Supervised DEF KInv, TypeOK, Supervisor
  <1>2. s.channel # <<>> /\ Room /\ sink' = Append(sink, <<"frame", g>>)
        /\ server' = [server EXCEPT ![g] = t]
        /\ UNCHANGED <<active, account, switcher, caller, gaveUp, spent>>
    BY DEF writer_loop
  <1>3. /\ Head(s.channel) \in Ids /\ Tail(s.channel) \in Seq(Ids)
        /\ Len(Tail(s.channel)) = Len(s.channel) - 1 /\ Len(s.channel) \in Nat
    BY <1>1, <1>2, HeadTailProperties
  <1>4. <<>> \in Seq(Ids) /\ Len(<<>>) = 0
    BY EmptySeq
  <1>5. /\ t \in Supervisor /\ t.account = s.account /\ Len(t.channel) <= WriterSize
        /\ t.pending = s.pending
    <2>1. CASE s.child = "up"
      <3>1. t = [s EXCEPT !.channel = Tail(@), !.asked = @ \cup {Head(s.channel)}]
        BY <2>1
      <3> HIDE DEF t, s
      <3>2. t \in Supervisor /\ t.account = s.account /\ t.pending = s.pending
            /\ t.channel = Tail(s.channel)
        BY <3>1, <1>1, <1>3 DEF Supervisor
      <3> QED
        BY <3>2, <1>1, <1>3, LinkAssumption
    <2>2. CASE s.child # "up"
      <3>1. t = [s EXCEPT !.channel = <<>>, !.writing = FALSE]
        BY <2>2
      <3> HIDE DEF t, s
      <3>2. t \in Supervisor /\ t.account = s.account /\ t.pending = s.pending
            /\ t.channel = <<>>
        BY <3>1, <1>1, <1>4 DEF Supervisor
      <3> QED
        BY <3>2, <1>4, LinkAssumption
    <2> QED BY <2>1, <2>2
  <1>6. sink' \in Seq({"frame", "exit"} \X Nat) /\ Len(sink') <= SinkSize
    BY <1>2, OneEvent DEF KInv
  <1>7. Completes(g)
    BY <1>2, NobodyCompleted
  <1>8. spent' \in Spent
    BY <1>2 DEF KInv, TypeOK
  <1> HIDE DEF t
  <1> QED
    BY <1>2, <1>5, <1>6, <1>7, <1>8, TaskKeeps

(* An answer or the end of the process completes requests that wait for it. *)
LEMMA DeliverCompletes ==
    ASSUME KInv, NEW g \in DOMAIN server, NEW ids, NEW pc \in {"answered", "disconnected"},
           caller' = Deliver(g, ids, pc), ids \cap server'[g].pending = {}
    PROVE  Completes(g)
  <1>1. caller' \in [Callers -> Call]
    <2> SUFFICES ASSUME NEW q \in Callers
                 PROVE  (IF At(q, "wait") /\ caller[q].at = g /\ Id(q) \in ids
                         THEN [caller[q] EXCEPT !.pc = pc] ELSE caller[q]) \in Call
      BY DEF Deliver
    <2>1. caller[q] \in Call
      BY DEF KInv, TypeOK
    <2>2. [caller[q] EXCEPT !.pc = pc] \in Call
      BY <2>1 DEF Call
    <2> QED BY <2>1, <2>2
  <1>2. ASSUME NEW q \in Callers
        PROVE  \/ caller'[q] = caller[q]
               \/ /\ At(q, "wait") /\ caller[q].at = g /\ Id(q) \notin server'[g].pending
                  /\ \E x \in {"answered", "disconnected"} :
                        caller'[q] = [caller[q] EXCEPT !.pc = x]
    BY DEF Deliver
  <1> QED
    BY <1>1, <1>2 DEF Completes

LEMMA ReaderKeeps ==
    ASSUME KInv, NEW g \in DOMAIN server, reader_loop(g)
    PROVE  KInv'
  <1> DEFINE s == server[g]
  <1>1. s \in Supervisor /\ Len(s.channel) <= WriterSize
    BY Supervised DEF KInv, TypeOK
  <1>2. sink' \in Seq({"frame", "exit"} \X Nat) /\ Len(sink') <= SinkSize
    BY OneEvent DEF KInv, reader_loop
  <1>3. CASE \E r \in s.asked :
                /\ server' = [server EXCEPT ![g].asked = @ \ {r}, ![g].pending = @ \ {r}]
                /\ caller' = Deliver(g, {r} \cap s.pending, "answered")
                /\ UNCHANGED spent
    <2>1. PICK r \in s.asked :
                /\ server' = [server EXCEPT ![g].asked = @ \ {r}, ![g].pending = @ \ {r}]
                /\ caller' = Deliver(g, {r} \cap s.pending, "answered")
                /\ UNCHANGED spent
      BY <1>3
    <2> DEFINE t == [s EXCEPT !.asked = @ \ {r}, !.pending = @ \ {r}]
    <2>2. server' = [server EXCEPT ![g] = t]
      BY <2>1, <1>1 DEF Supervisor, KInv, TypeOK
    <2>3. /\ t \in Supervisor /\ t.account = s.account /\ Len(t.channel) <= WriterSize
          /\ t.pending = s.pending \ {r}
      BY <1>1 DEF Supervisor
    <2> HIDE DEF t
    <2>4. server'[g] = t
      BY <2>2, <2>3, OneServer DEF KInv
    <2>5. Completes(g)
      BY <2>1, <2>3, <2>4, DeliverCompletes
    <2>6. UNCHANGED <<active, account, switcher, gaveUp>>
      BY DEF reader_loop
    <2>7. spent' \in Spent
      BY <2>1 DEF KInv, TypeOK
    <2> QED
      BY <1>2, <2>2, <2>3, <2>5, <2>6, <2>7, TaskKeeps
  <1>4. CASE /\ spent.notes < MaxNotes
             /\ spent' = [spent EXCEPT !.notes = @ + 1]
             /\ UNCHANGED <<server, caller>>
    <2>1. server' = [server EXCEPT ![g] = s]
      BY <1>4 DEF KInv, TypeOK
    <2>2. Completes(g)
      BY <1>4, NobodyCompleted
    <2>3. spent' \in Spent
      BY <1>4, SpentMore, LinkAssumption DEF KInv, TypeOK
    <2>4. UNCHANGED <<active, account, switcher, gaveUp>>
      BY DEF reader_loop
    <2> QED
      BY <1>1, <1>2, <2>1, <2>2, <2>3, <2>4, TaskKeeps
  <1> QED
    BY <1>3, <1>4 DEF reader_loop

LEMMA ExitKeeps ==
    ASSUME KInv, NEW g \in DOMAIN server, AppServerExits(g)
    PROVE  KInv'
  <1> DEFINE s == server[g]
             t == [s EXCEPT !.child = "dead"]
  <1>1. s \in Supervisor /\ Len(s.channel) <= WriterSize
    BY Supervised DEF KInv, TypeOK
  <1>2. server' = [server EXCEPT ![g] = t]
    BY DEF AppServerExits, KInv, TypeOK
  <1>3. /\ t \in Supervisor /\ t.account = s.account /\ Len(t.channel) <= WriterSize
        /\ t.pending = s.pending
    BY <1>1 DEF Supervisor
  <1> HIDE DEF t
  <1>4. Completes(g)
    BY NobodyCompleted DEF AppServerExits
  <1>5. spent' \in Spent
    BY SpentMore, LinkAssumption DEF KInv, TypeOK, AppServerExits
  <1>6. /\ sink' \in Seq({"frame", "exit"} \X Nat) /\ Len(sink') <= SinkSize
        /\ UNCHANGED <<active, account, switcher, gaveUp>>
    BY DEF KInv, TypeOK, AppServerExits
  <1> QED
    BY <1>2, <1>3, <1>4, <1>5, <1>6, TaskKeeps

LEMMA WatcherKeeps ==
    ASSUME KInv, NEW g \in DOMAIN server, child_watcher(g)
    PROVE  KInv'
  <1> DEFINE s == server[g]
  <1>1. s \in Supervisor /\ Len(s.channel) <= WriterSize
    BY Supervised DEF KInv, TypeOK
  <1>2. UNCHANGED <<active, account, switcher, gaveUp, spent>>
    BY DEF child_watcher
  <1>3. spent' \in Spent
    BY <1>2 DEF KInv, TypeOK
  <1>4. CASE /\ server' = [server EXCEPT ![g] = drain(g)]
             /\ caller' = Deliver(g, s.pending, "disconnected")
             /\ UNCHANGED sink
    <2>1. /\ drain(g) \in Supervisor /\ drain(g).account = s.account
          /\ Len(drain(g).channel) <= WriterSize /\ drain(g).pending = {}
      BY <1>1 DEF drain, Supervisor
    <2>2. server'[g] = drain(g)
      BY <1>4, <2>1, OneServer DEF KInv
    <2>3. Completes(g)
      BY <1>4, <2>1, <2>2, DeliverCompletes
    <2>4. sink' \in Seq({"frame", "exit"} \X Nat) /\ Len(sink') <= SinkSize
      BY <1>4 DEF KInv, TypeOK
    <2> QED
      BY <1>2, <1>3, <1>4, <2>1, <2>3, <2>4, TaskKeeps
  <1>5. CASE /\ Room
             /\ server' = [server EXCEPT ![g].watcher = "done"]
             /\ sink' = Append(sink, <<"exit", g>>)
             /\ UNCHANGED caller
    <2> DEFINE t == [s EXCEPT !.watcher = "done"]
    <2>1. server' = [server EXCEPT ![g] = t]
      BY <1>5 DEF KInv, TypeOK
    <2>2. /\ t \in Supervisor /\ t.account = s.account /\ Len(t.channel) <= WriterSize
          /\ t.pending = s.pending
      BY <1>1 DEF Supervisor
    <2> HIDE DEF t
    <2>3. sink' \in Seq({"frame", "exit"} \X Nat) /\ Len(sink') <= SinkSize
      BY <1>5, OneEvent DEF KInv
    <2>4. Completes(g)
      BY <1>5, NobodyCompleted
    <2> QED
      BY <1>2, <1>3, <2>1, <2>2, <2>3, <2>4, TaskKeeps
  <1> QED
    BY <1>4, <1>5 DEF child_watcher

-----------------------------------------------------------------------------
(* Callers                                                                 *)
(* A caller that waits for nothing begins or ends something.                *)
LEMMA CallerKeeps ==
    ASSUME KInv, NEW p \in Callers, caller[p].pc \notin {"enqueue", "wait"},
           NEW c \in Call, caller' = [caller EXCEPT ![p] = c],
           UNCHANGED <<server, active, account, switcher>>, gaveUp' \in BOOLEAN,
           sink' \in Seq({"frame", "exit"} \X Nat), Len(sink') <= SinkSize,
           spent' \in Spent, Relies(p)'
    PROVE  KInv'
  <1>1. /\ caller' \in [Callers -> Call] /\ caller'[p] = c
        /\ \A q \in Callers \ {p} : caller'[q] = caller[q]
    BY DEF KInv, TypeOK
  <1>2. TypeOK'
    BY <1>1 DEF KInv, TypeOK
  <1>3. PendingOwned'
    <2> SUFFICES ASSUME NEW h \in DOMAIN server, NEW r \in server[h].pending
                 PROVE  /\ caller'[r[1]].at = h /\ caller'[r[1]].id = r[2]
                        /\ caller'[r[1]].pc \in {"enqueue", "wait"}
      BY DEF PendingOwned
    <2>1. server[h] \in Supervisor
      BY Supervised DEF KInv
    <2>2. r[1] \in Callers
      BY <2>1 DEF Supervisor, Ids
    <2>3. r[1] # p
      BY <2>2, CurrentOnly DEF KInv
    <2> QED
      BY <2>2, <2>3, <1>1 DEF KInv, PendingOwned
  <1>4. InUse'
    BY DEF KInv, InUse
  <1>5. ASSUME NEW q \in Callers PROVE Relies(q)'
    <2>1. CASE q = p
      BY <2>1
    <2>2. CASE q # p
      <3>1. ServersKept
        BY DEF ServersKept
      <3> QED
        BY <2>2, <3>1, <1>1, ReliesKept DEF KInv
    <2> QED BY <2>1, <2>2
  <1> QED
    BY <1>2, <1>3, <1>4, <1>5 DEF KInv

(* Between two requests a caller holds no lock.                             *)
LEMMA RestFree ==
    ASSUME KInv, NEW p \in Callers, caller[p].pc \in {"idle", "lock", "backoff"}
    PROVE  switcher # p /\ caller[p] \in Call
  BY DEF KInv, Relies, Holds, Using, Requesting, TypeOK

LEMMA SwitchKeeps ==
    ASSUME KInv, NEW p \in Callers, NEW a \in Accounts, switch_account(p, a)
    PROVE  KInv'
  <1> DEFINE c == Begin(p, "switch", a)
  <1>1. caller[p].pc = "idle" /\ caller' = [caller EXCEPT ![p] = c]
        /\ UNCHANGED <<server, active, account, switcher, sink, gaveUp>>
    BY DEF switch_account, At
  <1>2. switcher # p /\ caller[p] \in Call
    BY <1>1, RestFree
  <1>3. c \in Call /\ c.pc = "lock" /\ c.goal = "switch"
    BY <1>2 DEF Begin, Call
  <1> HIDE DEF c
  <1>4. caller'[p] = c
    BY <1>1 DEF KInv, TypeOK
  <1>5. Relies(p)'
    BY <1>1, <1>2, <1>3, <1>4 DEF Relies, Holds, Using, Requesting
  <1>6. spent' \in Spent
    BY SpentMore DEF switch_account, KInv, TypeOK
  <1> QED
    BY <1>1, <1>3, <1>5, <1>6, CallerKeeps DEF KInv, TypeOK

(* A request of an idle caller goes to the active supervisor.               *)
LEMMA AsksActive ==
    ASSUME KInv, NEW p \in Callers, caller[p].pc = "idle",
           caller' = [caller EXCEPT ![p] = Request(p, "answer")],
           UNCHANGED <<server, active, account, switcher, gaveUp>>,
           sink' \in Seq({"frame", "exit"} \X Nat), Len(sink') <= SinkSize,
           spent' \in Spent
    PROVE  KInv'
  <1> DEFINE c == Request(p, "answer")
  <1>1. switcher # p /\ caller[p] \in Call
    BY RestFree
  <1>2. active \in DOMAIN server /\ active \in Nat
    BY DEF KInv, TypeOK
  <1>3. c \in Call /\ c.pc = "register" /\ c.goal = "answer" /\ c.at = active
    <2>1. c = [caller[p] EXCEPT !.pc = "register", !.at = active, !.id = @ + 1,
                                !.goal = "answer"]
      BY DEF Request
    <2> HIDE DEF c
    <2>2. caller[p].id + 1 \in Nat
      BY <1>1 DEF Call
    <2>3. c \in Call
      BY <1>1, <1>2, <2>1, <2>2 DEF Call
    <2> QED
      BY <1>1, <2>1, <2>3 DEF Call
  <1>4. caller' = [caller EXCEPT ![p] = c] /\ caller'[p] = c
    BY DEF KInv, TypeOK
  <1> HIDE DEF c
  <1>5. Relies(p)'
    BY <1>1, <1>2, <1>3, <1>4 DEF Relies, Holds, Using, Requesting
  <1> QED
    BY <1>3, <1>4, <1>5, CallerKeeps DEF KInv, TypeOK

LEMMA RequestKeeps ==
    ASSUME KInv, NEW p \in Callers, request(p)
    PROVE  KInv'
  <1>1. spent' \in Spent
    BY SpentMore DEF request, KInv, TypeOK
  <1>2. sink' \in Seq({"frame", "exit"} \X Nat) /\ Len(sink') <= SinkSize
    BY DEF request, KInv, TypeOK
  <1> QED
    BY <1>1, <1>2, AsksActive DEF request, At

LEMMA PumpKeeps ==
    ASSUME KInv, event_pump
    PROVE  KInv'
  <1>0. "pump" \in Callers /\ caller["pump"].pc = "idle" /\ sink # <<>>
        /\ sink' = Tail(sink) /\ UNCHANGED <<server, active, account, switcher, gaveUp>>
    BY LinkAssumption DEF event_pump, At
  <1>1. switcher # "pump" /\ caller["pump"] \in Call
    BY <1>0, RestFree
  <1>2. sink' \in Seq({"frame", "exit"} \X Nat) /\ Len(sink') <= SinkSize
    <2>1. sink' \in Seq({"frame", "exit"} \X Nat) /\ Len(sink') = Len(sink) - 1
      BY <1>0, HeadTailProperties DEF KInv, TypeOK
    <2>2. Len(sink) \in Nat /\ Len(sink) <= SinkSize
      BY DEF KInv, TypeOK
    <2> QED
      BY <2>1, <2>2, LinkAssumption
  <1>3. CASE /\ caller' = [caller EXCEPT !["pump"] = Request("pump", "answer")]
             /\ spent' = [spent EXCEPT !.requests["pump"] = @ + 1]
    <2>1. spent' \in Spent
      BY <1>0, <1>3, SpentMore DEF KInv, TypeOK
    <2> QED
      BY <1>0, <1>2, <1>3, <2>1, AsksActive
  <1>4. CASE UNCHANGED <<caller, spent>>
    <2>1. caller' = [caller EXCEPT !["pump"] = caller["pump"]]
      BY <1>0, <1>4 DEF KInv, TypeOK
    <2>2. ServersKept
      BY <1>0 DEF ServersKept
    <2>3. Relies("pump")'
      BY <1>0, <1>4, <2>2, ReliesKept DEF KInv
    <2> QED
      BY <1>0, <1>1, <1>2, <1>4, <2>1, <2>3, CallerKeeps DEF KInv, TypeOK
  <1>5. CASE /\ caller' = [caller EXCEPT !["pump"].pc = "backoff", !["pump"].tries = 0]
             /\ UNCHANGED spent
    <2> DEFINE c == [caller["pump"] EXCEPT !.pc = "backoff", !.tries = 0]
    <2>1. c \in Call /\ c.pc = "backoff"
      BY <1>1 DEF Call
    <2>2. caller' = [caller EXCEPT !["pump"] = c] /\ caller'["pump"] = c
      BY <1>0, <1>5 DEF KInv, TypeOK
    <2> HIDE DEF c
    <2>3. Relies("pump")'
      BY <1>0, <1>1, <2>1, <2>2 DEF Relies, Holds, Using, Requesting
    <2> QED
      BY <1>0, <1>2, <1>5, <2>1, <2>2, <2>3, CallerKeeps DEF KInv, TypeOK
  <1> QED
    BY <1>3, <1>4, <1>5 DEF event_pump

LEMMA RestartKeeps ==
    ASSUME KInv, restart_after_exit
    PROVE  KInv'
  <1>0. "pump" \in Callers /\ caller["pump"].pc = "backoff"
        /\ UNCHANGED <<server, active, account, switcher, sink, spent>>
    BY LinkAssumption DEF restart_after_exit, At
  <1>1. switcher # "pump" /\ caller["pump"] \in Call
    BY <1>0, RestFree
  <1>2. CASE /\ caller' = [caller EXCEPT !["pump"] =
                   [Begin("pump", "restart", account) EXCEPT !.tries = @ + 1]]
             /\ UNCHANGED gaveUp
    <2> DEFINE c == [Begin("pump", "restart", account) EXCEPT !.tries = @ + 1]
    <2>0. account \in Accounts
      BY DEF KInv, TypeOK
    <2>a. Begin("pump", "restart", account) \in Call
          /\ Begin("pump", "restart", account).pc = "lock"
          /\ Begin("pump", "restart", account).goal = "restart"
      BY <1>1, <2>0 DEF Call, Begin
    <2>1. c \in Call /\ c.pc = "lock" /\ c.goal = "restart"
      BY <2>a DEF Call
    <2>2. caller' = [caller EXCEPT !["pump"] = c] /\ caller'["pump"] = c
      BY <1>0, <1>2 DEF KInv, TypeOK
    <2> HIDE DEF c
    <2>3. Relies("pump")'
      BY <1>0, <1>1, <2>1, <2>2 DEF Relies, Holds, Using, Requesting
    <2> QED
      BY <1>0, <1>2, <2>1, <2>2, <2>3, CallerKeeps DEF KInv, TypeOK
  <1>3. CASE /\ caller' = [caller EXCEPT !["pump"].pc = "idle"]
             /\ gaveUp' = TRUE
    <2> DEFINE c == [caller["pump"] EXCEPT !.pc = "idle"]
    <2>1. c \in Call /\ c.pc = "idle"
      BY <1>1 DEF Call
    <2>2. caller' = [caller EXCEPT !["pump"] = c] /\ caller'["pump"] = c
      BY <1>0, <1>3 DEF KInv, TypeOK
    <2> HIDE DEF c
    <2>3. Relies("pump")'
      BY <1>0, <1>1, <2>1, <2>2 DEF Relies, Holds, Using, Requesting
    <2> QED
      BY <1>0, <1>3, <2>1, <2>2, <2>3, CallerKeeps DEF KInv, TypeOK
  <1> QED
    BY <1>2, <1>3 DEF restart_after_exit

-----------------------------------------------------------------------------
(* Starting, restarting and switching                                      *)
(* start takes the lock: nobody else uses a server he started.              *)
LEMMA StartKeeps ==
    ASSUME KInv, NEW p \in Callers, start(p)
    PROVE  KInv'
  <1> DEFINE a == IF caller[p].goal = "restart" THEN account ELSE caller[p].to
             g == Len(server) + 1
  <1>0. caller[p].pc = "lock" /\ switcher = "free"
        /\ UNCHANGED <<active, account, sink, gaveUp, spent>>
    BY DEF start, At, Lock
  <1>1. switcher # p /\ caller[p] \in Call /\ caller[p].goal # "answer"
    BY <1>0, RestFree DEF KInv, Relies
  <1>2. a \in Accounts /\ (caller[p].goal = "restart" => a = account)
    BY <1>1 DEF KInv, TypeOK, Call
  <1>3. CASE /\ caller' = [caller EXCEPT ![p].pc = IF caller[p].goal = "restart"
                                                   THEN "backoff" ELSE "idle"]
             /\ UNCHANGED <<server, switcher>>
    <2> DEFINE c == [caller[p] EXCEPT !.pc = IF caller[p].goal = "restart"
                                             THEN "backoff" ELSE "idle"]
    <2>1. c \in Call /\ c.pc \in {"backoff", "idle"}
      BY <1>1 DEF Call
    <2>2. caller' = [caller EXCEPT ![p] = c] /\ caller'[p] = c
      BY <1>3 DEF KInv, TypeOK
    <2> HIDE DEF c
    <2>3. Relies(p)'
      BY <1>0, <1>1, <1>3, <2>1, <2>2 DEF Relies, Holds, Using, Requesting
    <2> QED
      BY <1>0, <1>3, <2>1, <2>2, <2>3, CallerKeeps DEF KInv, TypeOK
  <1>4. CASE /\ server' = Append(server, Up(a))
             /\ switcher' = p
             /\ caller' = [caller EXCEPT ![p].pc = "register", ![p].at = g,
                                         ![p].id = @ + 1, ![p].to = a]
    <2> DEFINE c == [caller[p] EXCEPT !.pc = "register", !.at = g, !.id = @ + 1, !.to = a]
    <2> HIDE DEF a
    <2>1. g \in Nat
      BY DEF KInv, TypeOK
    <2>2. /\ Up(a) \in Supervisor /\ Up(a).account = a /\ Up(a).pending = {}
          /\ Len(Up(a).channel) = 0
      <3>1. <<>> \in Seq(Ids) /\ Len(<<>>) = 0
        BY EmptySeq
      <3> QED
        BY <1>2, <3>1 DEF Up, Supervisor
    <2>3. /\ server' \in Seq(Supervisor) /\ DOMAIN server' = DOMAIN server \cup {g}
          /\ g \notin DOMAIN server /\ server'[g] = Up(a)
          /\ \A h \in DOMAIN server : server'[h] = server[h]
      BY <1>4, <2>2, AddServer DEF KInv, TypeOK
    <2> HIDE DEF g
    <2>4. /\ c \in Call /\ c.pc = "register" /\ c.at = g /\ c.to = a
          /\ c.goal = caller[p].goal
      <3>1. caller[p].id + 1 \in Nat
        BY <1>1 DEF Call
      <3> QED
        BY <1>1, <1>2, <2>1, <3>1 DEF Call
    <2>5. caller' = [caller EXCEPT ![p] = c]
      BY <1>4 DEF KInv, TypeOK
    <2> HIDE DEF c
    <2>6. /\ caller' \in [Callers -> Call] /\ caller'[p] = c
          /\ \A q \in Callers \ {p} : caller'[q] = caller[q]
      BY <2>4, <2>5 DEF KInv, TypeOK
    <2>7. TypeOK'
      <3>1. \A h \in DOMAIN server' : Len(server'[h].channel) <= WriterSize
        BY <2>2, <2>3, LinkAssumption DEF KInv, TypeOK
      <3> QED
        BY <1>0, <1>4, <2>3, <2>6, <3>1 DEF KInv, TypeOK
    <2>8. PendingOwned'
      <3> SUFFICES ASSUME NEW h \in DOMAIN server', NEW r \in server'[h].pending
                   PROVE  /\ caller'[r[1]].at = h /\ caller'[r[1]].id = r[2]
                          /\ caller'[r[1]].pc \in {"enqueue", "wait"}
        BY DEF PendingOwned
      <3>1. h \in DOMAIN server /\ r \in server[h].pending
        BY <2>2, <2>3
      <3>2. server[h] \in Supervisor
        BY <3>1, Supervised DEF KInv
      <3>3. r[1] \in Callers
        BY <3>1, <3>2 DEF Supervisor, Ids
      <3>4. r[1] # p
        BY <1>0, <3>1, <3>3, CurrentOnly DEF KInv
      <3> QED
        BY <3>1, <3>3, <3>4, <2>6 DEF KInv, PendingOwned
    <2>9. InUse'
      BY <1>0, <2>3 DEF KInv, InUse, TypeOK
    <2>10. ASSUME NEW q \in Callers PROVE Relies(q)'
      <3>1. CASE q = p
        BY <3>1, <1>0, <1>1, <1>2, <1>4, <2>2, <2>3, <2>4, <2>6
        DEF Relies, Holds, Using, Requesting
      <3>2. CASE q # p
        <4>1. ServersKept
          BY <2>3 DEF ServersKept
        <4>2. (switcher' = q) <=> (switcher = q)
          BY <1>0, <1>4, <3>2, LinkAssumption
        <4> QED
          BY <1>0, <3>2, <2>6, <4>1, <4>2, ReliesKept DEF KInv
      <3> QED BY <3>1, <3>2
    <2> QED
      BY <2>7, <2>8, <2>9, <2>10 DEF KInv
  <1> QED
    BY <1>3, <1>4 DEF start

(* The end of a switch or a restart: the server it stores runs with the     *)
(* account in use from now on.                                              *)
LEMMA AdoptKeeps ==
    ASSUME KInv, NEW p \in Callers, NEW g \in DOMAIN server, NEW s \in Supervisor,
           server' = [server EXCEPT ![g] = s], s.account = server[g].account,
           Len(s.channel) <= WriterSize, s.pending = server[g].pending,
           caller[p].pc \notin {"enqueue", "wait"}, switcher = p,
           NEW c \in Call, caller' = [caller EXCEPT ![p] = c],
           active' \in DOMAIN server, account' \in Accounts,
           server[active'].account = account', switcher' \in {p, "free"},
           gaveUp' \in BOOLEAN, UNCHANGED <<sink, spent>>, Relies(p)'
    PROVE  KInv'
  <1>1. /\ server' \in Seq(Supervisor) /\ DOMAIN server' = DOMAIN server
        /\ server'[g] = s /\ \A h \in DOMAIN server \ {g} : server'[h] = server[h]
        /\ \A h \in DOMAIN server' : Len(server'[h].channel) <= WriterSize
        /\ ServersKept
    BY OneServer DEF KInv
  <1>2. /\ caller' \in [Callers -> Call] /\ caller'[p] = c
        /\ \A q \in Callers \ {p} : caller'[q] = caller[q]
    BY DEF KInv, TypeOK
  <1>3. TypeOK'
    BY <1>1, <1>2 DEF KInv, TypeOK
  <1>4. PendingOwned'
    <2> SUFFICES ASSUME NEW h \in DOMAIN server', NEW r \in server'[h].pending
                 PROVE  /\ caller'[r[1]].at = h /\ caller'[r[1]].id = r[2]
                        /\ caller'[r[1]].pc \in {"enqueue", "wait"}
      BY DEF PendingOwned
    <2>1. h \in DOMAIN server /\ r \in server[h].pending
      BY <1>1
    <2>2. server[h] \in Supervisor
      BY <2>1, Supervised DEF KInv
    <2>3. r[1] \in Callers
      BY <2>1, <2>2 DEF Supervisor, Ids
    <2>4. r[1] # p
      BY <2>1, <2>3, CurrentOnly DEF KInv
    <2> QED
      BY <2>1, <2>3, <2>4, <1>2 DEF KInv, PendingOwned
  <1>5. InUse'
    BY <1>1 DEF InUse, ServersKept
  <1>6. ASSUME NEW q \in Callers PROVE Relies(q)'
    <2>1. CASE q = p
      BY <2>1
    <2>2. CASE q # p
      <3>1. (switcher' = q) <=> (switcher = q)
        BY <2>2, LinkAssumption
      <3> QED
        BY <2>2, <3>1, <1>1, <1>2, ReliesKept DEF KInv
    <2> QED BY <2>1, <2>2
  <1> QED
    BY <1>3, <1>4, <1>5, <1>6 DEF KInv

LEMMA ShutdownKeeps ==
    ASSUME KInv, NEW p \in Callers, shutdown(p)
    PROVE  KInv'
  <1> DEFINE g == caller[p].at
             c == [caller[p] EXCEPT !.pc = "idle"]
  <1>0. /\ caller[p].pc = "shutdown" /\ caller[p].goal = "switch" /\ switcher = p
        /\ g \in DOMAIN server /\ caller[p] \in Call
    BY DEF shutdown, At, KInv, Relies, Holds, Using, TypeOK
  <1>1. server[g] \in Supervisor
    BY <1>0, Supervised DEF KInv
  <1>2. /\ Stopped(server[g]) \in Supervisor /\ Len(Stopped(server[g]).channel) <= WriterSize
        /\ Stopped(server[g]).account = server[g].account
        /\ Stopped(server[g]).pending = server[g].pending
    BY <1>1, StoppedSupervisor, LinkAssumption
  <1>3. /\ server' = [server EXCEPT ![g] = Stopped(server[g])] /\ switcher' = "free"
        /\ UNCHANGED <<active, account, sink, gaveUp, spent>>
    BY DEF shutdown
  <1>4. c \in Call /\ c.pc = "idle"
    BY <1>0 DEF Call
  <1>5. caller' = [caller EXCEPT ![p] = c] /\ caller'[p] = c
    BY DEF shutdown, KInv, TypeOK
  <1> HIDE DEF c
  <1>6. Relies(p)'
    BY <1>3, <1>4, <1>5, LinkAssumption DEF Relies, Holds, Using, Requesting
  <1>7. /\ active' \in DOMAIN server /\ account' \in Accounts /\ gaveUp' \in BOOLEAN
        /\ server[active'].account = account'
    BY <1>3 DEF KInv, TypeOK, InUse
  <1> QED
    BY <1>0, <1>2, <1>3, <1>4, <1>5, <1>6, <1>7, AdoptKeeps

LEMMA AnsweredKeeps ==
    ASSUME KInv, NEW p \in Callers, Completed(p)
    PROVE  KInv'
  <1> DEFINE g == caller[p].at
             st == IF server[g].status = "starting" THEN "ready" ELSE server[g].status
             s == [server[g] EXCEPT !.status = st]
  <1>0. /\ caller[p].pc = "answered" /\ g \in DOMAIN server /\ caller[p] \in Call
        /\ Len(server[g].channel) <= WriterSize /\ UNCHANGED <<sink, spent>>
    BY DEF Completed, answered, At, KInv, Relies, Using, Requesting, TypeOK
  <1>1. server[g] \in Supervisor
    BY <1>0, Supervised DEF KInv
  <1>2. /\ s \in Supervisor /\ s.account = server[g].account
        /\ Len(s.channel) <= WriterSize /\ s.pending = server[g].pending
    BY <1>0, <1>1 DEF Supervisor
  <1>3. CASE caller[p].goal = "answer"
    <2> DEFINE c == [caller[p] EXCEPT !.pc = "idle"]
    <2>1. c \in Call /\ c.pc = "idle"
      BY <1>0 DEF Call
    <2>2. /\ caller' = [caller EXCEPT ![p] = c] /\ caller'[p] = c
          /\ UNCHANGED <<server, active, account, switcher, gaveUp>>
      BY <1>3, <1>0 DEF Completed, answered, KInv, TypeOK
    <2> HIDE DEF c
    <2>3. switcher # p
      BY <1>3 DEF KInv, Relies, Holds
    <2>4. Relies(p)'
      BY <2>1, <2>2, <2>3 DEF Relies, Holds, Using, Requesting
    <2> QED
      BY <1>0, <2>1, <2>2, <2>4, CallerKeeps DEF KInv, TypeOK
  <1>4. CASE caller[p].goal = "restart"
    <2> DEFINE c == [caller[p] EXCEPT !.pc = "idle"]
    <2>1. c \in Call /\ c.pc = "idle"
      BY <1>0 DEF Call
    <2>2. caller' = [caller EXCEPT ![p] = c] /\ caller'[p] = c
      BY <1>4, <1>0 DEF Completed, answered, KInv, TypeOK
    <2>3. /\ server' = [server EXCEPT ![g] = s] /\ active' = g /\ switcher' = "free"
          /\ gaveUp' = FALSE /\ UNCHANGED account
      BY <1>4, <1>0 DEF Completed, answered
    <2> HIDE DEF c, s
    <2>4. switcher = p /\ server[g].account = account /\ account \in Accounts
      BY <1>0, <1>4 DEF KInv, Relies, Holds, Using, Requesting, TypeOK
    <2>5. Relies(p)'
      BY <2>1, <2>2, <2>3, LinkAssumption DEF Relies, Holds, Using, Requesting
    <2>6. /\ active' \in DOMAIN server /\ account' \in Accounts /\ gaveUp' \in BOOLEAN
          /\ server[active'].account = account' /\ switcher' \in {p, "free"}
      BY <1>0, <2>3, <2>4
    <2> QED
      BY <1>0, <1>2, <2>1, <2>2, <2>3, <2>4, <2>5, <2>6, AdoptKeeps
  <1>5. CASE caller[p].goal = "switch"
    <2> DEFINE c == [caller[p] EXCEPT !.pc = "shutdown", !.at = active]
    <2>0. active \in DOMAIN server /\ active \in Nat
      BY DEF KInv, TypeOK
    <2>1. c \in Call /\ c.pc = "shutdown" /\ c.at = active /\ c.goal = "switch"
      BY <1>0, <1>5, <2>0 DEF Call
    <2>2. caller' = [caller EXCEPT ![p] = c] /\ caller'[p] = c
      BY <1>5, <1>0 DEF Completed, answered, KInv, TypeOK
    <2>3. /\ server' = [server EXCEPT ![g] = s] /\ active' = g
          /\ account' = caller[p].to /\ gaveUp' = FALSE /\ UNCHANGED switcher
      BY <1>5, <1>0 DEF Completed, answered
    <2> HIDE DEF c, s
    <2>4. switcher = p /\ server[g].account = caller[p].to /\ caller[p].to \in Accounts
      BY <1>0, <1>5 DEF KInv, Relies, Holds, Using, Requesting, Call
    <2>5. DOMAIN server' = DOMAIN server
      BY <1>0, <1>2, <2>3, OneServer DEF KInv
    <2>6. Relies(p)'
      BY <2>0, <2>1, <2>2, <2>3, <2>4, <2>5 DEF Relies, Holds, Using, Requesting
    <2>7. /\ active' \in DOMAIN server /\ account' \in Accounts /\ gaveUp' \in BOOLEAN
          /\ server[active'].account = account' /\ switcher' \in {p, "free"}
      BY <1>0, <2>3, <2>4
    <2> QED
      BY <1>0, <1>2, <2>1, <2>2, <2>3, <2>4, <2>6, <2>7, AdoptKeeps
  <1> QED
    BY <1>0, <1>3, <1>4, <1>5 DEF Call

-----------------------------------------------------------------------------
LEMMA LinkStarts ==
    Init => KInv
  <1> SUFFICES ASSUME Init PROVE KInv
    OBVIOUS
  <1> DEFINE s == [Up(First) EXCEPT !.status = "ready"]
  <1>1. <<>> \in Seq(Ids) /\ Len(<<>>) = 0 /\ <<>> \in Seq({"frame", "exit"} \X Nat)
    BY EmptySeq
  <1>2. s \in Supervisor /\ s.account = First /\ s.pending = {} /\ Len(s.channel) = 0
    BY <1>1, LinkAssumption DEF Up, Supervisor
  <1>3. server = <<s>> /\ active = 1 /\ account = First /\ switcher = "free"
        /\ sink = <<>> /\ gaveUp = FALSE /\ caller = [p \in Callers |-> Idle]
    BY DEF Init
  <1> HIDE DEF s
  <1>4. server \in Seq(Supervisor) /\ DOMAIN server = {1} /\ server[1] = s
    BY <1>2, <1>3
  <1>5. Idle \in Call /\ Idle.pc = "idle"
    BY LinkAssumption DEF Idle, Call
  <1>6. spent \in Spent
    BY DEF Init, Spent
  <1>7. TypeOK
    <2>1. caller \in [Callers -> Call]
      BY <1>3, <1>5
    <2>2. sink \in Seq({"frame", "exit"} \X Nat) /\ Len(sink) <= SinkSize
      BY <1>1, <1>3, LinkAssumption
    <2>3. \A g \in DOMAIN server : Len(server[g].channel) <= WriterSize
      BY <1>2, <1>4, LinkAssumption
    <2> QED
      BY <1>3, <1>4, <1>6, <2>1, <2>2, <2>3, LinkAssumption DEF TypeOK
  <1>8. PendingOwned /\ InUse
    BY <1>2, <1>3, <1>4 DEF PendingOwned, InUse
  <1>9. ASSUME NEW p \in Callers PROVE Relies(p)
    BY <1>3, <1>5, LinkAssumption DEF Relies, Holds, Using, Requesting
  <1> QED
    BY <1>7, <1>8, <1>9 DEF KInv

LEMMA LinkKeeps ==
    KInv /\ [Next]_linkVars => KInv'
  <1> SUFFICES ASSUME KInv, [Next]_linkVars PROVE KInv'
    OBVIOUS
  <1>1. ASSUME NEW p \in Callers, Program(p) PROVE KInv'
    BY <1>1, RegisterKeeps, EnqueueKeeps, TimeoutKeeps, StartKeeps, AnsweredKeeps,
       DisconnectedKeeps, ShutdownKeeps DEF Program
  <1>2. ASSUME NEW g \in DOMAIN server, Tasks(g) PROVE KInv'
    BY <1>2, WriterKeeps, ReaderKeeps, WatcherKeeps DEF Tasks
  <1>3. CASE UNCHANGED linkVars
    BY <1>3 DEF linkVars, KInv, TypeOK, PendingOwned, InUse, Relies, Holds, Using
  <1> QED
    BY <1>1, <1>2, <1>3, RequestKeeps, SwitchKeeps, ExitKeeps, PumpKeeps, RestartKeeps
    DEF Next

LEMMA CustodyFollows ==
    KInv => LinkCustody
  BY DEF KInv, LinkCustody, ActiveAccountConsistent, InUse

(* What every caller may rely on at every point of a request, a restart or  *)
(* a switch (harness-codex, CodexRuntimeManager): the inductive invariant.  *)
THEOREM CallersRely ==
    Spec => []KInv
  BY LinkStarts, LinkKeeps, PTL DEF Spec

(* A pending entry belongs to the request its caller waits for, so that no  *)
(* answer reaches another request and none leaks, no channel outgrows its   *)
(* size, and outside switch_lock the active App Server runs with the        *)
(* account the manager reports.                                             *)
THEOREM LinkCustodyHolds ==
    Spec => []LinkCustody
  BY CallersRely, CustodyFollows, PTL
=============================================================================
