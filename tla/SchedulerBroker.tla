--------------------------- MODULE SchedulerBroker ---------------------------
(***************************************************************************)
(* The broker of the scheduler process (scheduler/broker.py) and the       *)
(* worker processes it spawns (scheduler/worker.py, zmq_bus/daemon.py).    *)
(*                                                                         *)
(* The broker is one asyncio loop: a step here is what a coroutine does    *)
(* between two suspension points.  A send on the ROUTER socket does not    *)
(* suspend, and process.join blocks the whole loop, so _stop_process is    *)
(* one step.  The coroutines that do suspend are the startup polls of      *)
(* ensure_pa, dispatch_sub_agent and _spawn_cron_process (`polling') and   *)
(* the health check, which awaits the poll of the cron process it restarts *)
(* and then goes on with the list it copied before (`todo', `awaited').    *)
(*                                                                         *)
(* Time is abstract: `age' says how old last_active_at is, `since' how     *)
(* long an entry has been RUNNING.  A worker's messages outlive it.        *)
(***************************************************************************)
EXTENDS Naturals, Sequences

CONSTANTS
    PAs,        \* identities of personal assistants, "pa:<session_id>"
    Subs,       \* identities of sub agents, "sub:<name>:<task_id>"
    Cron,       \* "cron:scheduler"
    Proc,       \* operating system processes that can be spawned (a bound)
    None,       \* no process, no identity
    Stoppable,  \* identities that clients ask to stop (a bound)
    MaxInbox,   \* bound: requests waiting in one worker
    MaxMail,    \* bound: a worker sends while none has so many on their way
    Oldest      \* bound: the age no entry passes, "fresh", "old" or "idle"

Identity == PAs \cup Subs \cup {Cron}

ASSUME IdentityAssumption ==
    /\ Cron \notin PAs \cup Subs
    /\ PAs \cap Subs = {}
    /\ None \notin Identity \cup Proc
    /\ Stoppable \subseteq Identity

ASSUME BoundAssumption ==
    MaxInbox \in Nat /\ MaxMail \in Nat /\ Oldest \in {"fresh", "old", "idle"}

VARIABLES
    \* the broker
    processes,  \* _processes: the process registered under each identity
    owner,      \* the identity each process was spawned for
    state,      \* ProcessInfo.state of each process
    since,      \* running_since: "zero", "recent", or "over" the maximum
    age,        \* last_active_at: "fresh", "old" (> 300 s), "idle" (> PA timeout)
    polling,    \* processes whose startup is still being polled
    todo,       \* entries the current health check has still to visit
    awaited,    \* the cron process whose startup the health check awaits
    phase,      \* "up", "stopping" (after stop()), "down" (process gone)
    \* the workers
    os,         \* "unborn", "alive" or "exited"
    link,       \* DEALER socket: "none", "connected", "registered"
    inbox,      \* the daemon's task queue
    busy,       \* whether its work loop is handling a request
    \* what is on its way, oldest first
    mail,       \* worker to ROUTER
    events      \* worker to XSUB

brokerVars == <<processes, owner, state, since, age, polling, todo, awaited, phase>>
workerVars == <<os, link, inbox, busy>>
netVars == <<mail, events>>
vars == <<processes, owner, state, since, age, polling, todo, awaited, phase,
          os, link, inbox, busy, mail, events>>

Terminal == {"stopped", "failed"}
AgentState == {"pending", "starting", "running", "idle"} \cup Terminal
Mail == {"register", "heartbeat", "response"}
Event == {"done", "error"}
Request == {"chat", "task"}

TypeOK ==
    /\ processes \in [Identity -> Proc \cup {None}]
    /\ owner \in [Proc -> Identity \cup {None}]
    /\ state \in [Proc -> AgentState]
    /\ since \in [Proc -> {"zero", "recent", "over"}]
    /\ age \in [Proc -> {"fresh", "old", "idle"}]
    /\ polling \subseteq Proc
    /\ todo \subseteq Proc
    /\ awaited \in Proc \cup {None}
    /\ phase \in {"up", "stopping", "down"}
    /\ os \in [Proc -> {"unborn", "alive", "exited"}]
    /\ link \in [Proc -> {"none", "connected", "registered"}]
    /\ inbox \in [Proc -> Seq(Request)]
    /\ busy \in [Proc -> BOOLEAN]
    /\ mail \in [Proc -> Seq(Mail)]
    /\ events \in [Proc -> Seq(Event)]

Init ==
    /\ processes = [i \in Identity |-> None]
    /\ owner = [p \in Proc |-> None]
    /\ state = [p \in Proc |-> "pending"]
    /\ since = [p \in Proc |-> "zero"]
    /\ age = [p \in Proc |-> "fresh"]
    /\ polling = {}
    /\ todo = {}
    /\ awaited = None
    /\ phase = "up"
    /\ os = [p \in Proc |-> "unborn"]
    /\ link = [p \in Proc |-> "none"]
    /\ inbox = [p \in Proc |-> <<>>]
    /\ busy = [p \in Proc |-> FALSE]
    /\ mail = [p \in Proc |-> <<>>]
    /\ events = [p \in Proc |-> <<>>]

-----------------------------------------------------------------------------
(* The registry *)

Registered == {p \in Proc : owner[p] # None /\ processes[owner[p]] = p}

Live(i) == processes[i] # None /\ os[processes[i]] = "alive"

Unborn == {p \in Proc : os[p] = "unborn"}

\* The worker a ROUTER send to i reaches; there is none before it connects.
Peer(i) == {p \in Proc : owner[p] = i /\ os[p] = "alive" /\ link[p] # "none"}

\* process.start() and the registration, up to the first sleep of the poll.
Spawn(i, p) ==
    /\ os' = [os EXCEPT ![p] = "alive"]
    /\ owner' = [owner EXCEPT ![p] = i]
    /\ state' = [state EXCEPT ![p] = "starting"]
    /\ processes' = [processes EXCEPT ![i] = p]
    /\ polling' = polling \cup {p}

\* _send_to_daemon: a request for i is queued by its worker, or dropped.
Send(i, m) ==
    /\ inbox' = [p \in Proc |-> IF p \in Peer(i) THEN Append(inbox[p], m)
                                                 ELSE inbox[p]]

\* Mutant: a request for a RUNNING entry restarts its clock.
MarkRunningAgain(i) ==
    LET p == processes[i] IN
    IF p # None /\ state[p] \in {"idle", "running"}
    THEN /\ state' = [state EXCEPT ![p] = "running"]
         /\ since' = [since EXCEPT ![p] = "recent"]
         /\ age' = [age EXCEPT ![p] = "fresh"]
    ELSE UNCHANGED <<state, since, age>>

\* _mark_running
MarkRunning(i) ==
    LET p == processes[i] IN
    IF p # None /\ state[p] = "idle"
    THEN /\ state' = [state EXCEPT ![p] = "running"]
         /\ since' = [since EXCEPT ![p] = "recent"]
         /\ age' = [age EXCEPT ![p] = "fresh"]
    ELSE UNCHANGED <<state, since, age>>

\* _mark_idle, when refresh says whether last_active_at is set in any case.
MarkIdle(i, refresh) ==
    LET p == processes[i] IN
    IF p # None /\ state[p] = "running"
    THEN /\ state' = [state EXCEPT ![p] = "idle"]
         /\ since' = [since EXCEPT ![p] = "zero"]
         /\ age' = [age EXCEPT ![p] = "fresh"]
    ELSE /\ UNCHANGED <<state, since>>
         /\ age' = IF p # None /\ refresh THEN [age EXCEPT ![p] = "fresh"]
                                          ELSE age

\* The processes in S end, and with them what they were doing.
Kill(S) ==
    /\ os' = [p \in Proc |-> IF p \in S /\ os[p] = "alive" THEN "exited" ELSE os[p]]
    /\ inbox' = [p \in Proc |-> IF p \in S THEN <<>> ELSE inbox[p]]
    /\ busy' = [p \in Proc |-> busy[p] /\ p \notin S]

\* The last_active_at of a process that _stop_process leaves STOPPED: the
\* transition through STOPPING refreshes it, the forced assignment does not.
AgeOnceStopped(p) == IF state[p] \in {"idle", "running"} THEN "fresh" ELSE age[p]

\* _stop_process for every process of S: shutdown message, join, terminate,
\* kill, then STOPPED by transition or by force.
StopAll(S) ==
    /\ Kill(S)
    /\ state' = [p \in Proc |-> IF p \in S THEN "stopped" ELSE state[p]]
    /\ age' = [p \in Proc |-> IF p \in S THEN AgeOnceStopped(p) ELSE age[p]]

-----------------------------------------------------------------------------
(* Requests to the broker *)

\* ensure_pa finds a live process and refreshes it.
EnsurePAFound(i) ==
    /\ phase # "down"
    /\ Live(i)
    /\ age' = [age EXCEPT ![processes[i]] = "fresh"]
    /\ UNCHANGED <<processes, owner, state, since, polling, todo, awaited, phase,
                   workerVars, netVars>>

\* Mutant: ensure_pa does not look whether the entry is alive.
EnsurePAAlwaysSpawns(i) ==
    /\ phase # "down"
    /\ \E p \in Unborn : Spawn(i, p)
    /\ UNCHANGED <<since, age, todo, awaited, phase, link, inbox, busy, netVars>>

\* ensure_pa drops a dead entry and spawns a PA.
EnsurePASpawns(i) ==
    /\ phase # "down"
    /\ ~Live(i)
    /\ \E p \in Unborn : Spawn(i, p)
    /\ UNCHANGED <<since, age, todo, awaited, phase, link, inbox, busy, netVars>>

\* start() spawns the cron process once.
StartCron ==
    /\ phase = "up"
    /\ \A p \in Proc : owner[p] # Cron
    /\ \E p \in Unborn : Spawn(Cron, p)
    /\ UNCHANGED <<since, age, todo, awaited, phase, link, inbox, busy, netVars>>

\* dispatch_sub_agent; its callers make a new task id for each dispatch.
DispatchSub(i) ==
    /\ phase # "down"
    /\ \A p \in Proc : owner[p] # i
    /\ \E p \in Unborn : Spawn(i, p)
    /\ UNCHANGED <<since, age, todo, awaited, phase, link, inbox, busy, netVars>>

\* The startup poll finds the process dead: FAILED, and the caller's error.
PollCrashed(p) ==
    /\ phase # "down"
    /\ p \in polling
    /\ os[p] = "exited"
    /\ state' = [state EXCEPT ![p] = "failed"]
    /\ polling' = polling \ {p}
    /\ UNCHANGED <<processes, owner, since, age, todo, awaited, phase,
                   workerVars, netVars>>

\* The startup poll sees the entry IDLE, or has looked twenty times.  For a
\* sub agent the task is sent now, whether its worker is connected or not.
PollDone(p) ==
    /\ phase # "down"
    /\ p \in polling
    /\ os[p] = "alive"
    /\ polling' = polling \ {p}
    /\ IF owner[p] \in Subs
       THEN Send(owner[p], "task") /\ MarkRunning(owner[p])
       ELSE UNCHANGED <<inbox, state, since, age>>
    /\ UNCHANGED <<processes, owner, todo, awaited, phase, os, link, busy, mail, events>>

\* stop_agent
StopAgent(i) ==
    /\ phase = "up"
    /\ processes[i] # None
    /\ StopAll({processes[i]})
    /\ UNCHANGED <<processes, owner, since, polling, todo, awaited, phase, link, netVars>>

\* CHAT_REQUEST for an identity whose process has died.
ChatRefused(i) ==
    /\ phase = "up"
    /\ processes[i] # None
    /\ ~Live(i)
    /\ state' = [state EXCEPT ![processes[i]] = "failed"]
    /\ UNCHANGED <<processes, owner, since, age, polling, todo, awaited, phase,
                   workerVars, netVars>>

\* CHAT_REQUEST for a live process, STARTING included.
ChatForwarded(i) ==
    /\ phase = "up"
    /\ Live(i)
    /\ \A p \in Peer(i) : Len(inbox[p]) < MaxInbox
    /\ MarkRunning(i)
    /\ Send(i, "chat")
    /\ UNCHANGED <<processes, owner, polling, todo, awaited, phase, os, link, busy,
                   mail, events>>

-----------------------------------------------------------------------------
(* Worker processes *)

\* daemon.start: the DEALER socket connects.
Connect(p) ==
    /\ os[p] = "alive"
    /\ link[p] = "none"
    /\ link' = [link EXCEPT ![p] = "connected"]
    /\ UNCHANGED <<brokerVars, os, inbox, busy, netVars>>

\* There is room on the way to the broker.
Room == \A p \in Proc : Len(mail[p]) + Len(events[p]) < MaxMail

SendMail(p, m) ==
    /\ Room
    /\ mail' = [mail EXCEPT ![p] = Append(@, m)]

\* AGENT_REGISTER, 50 ms after the socket connects.
Register(p) ==
    /\ os[p] = "alive"
    /\ link[p] = "connected"
    /\ SendMail(p, "register")
    /\ link' = [link EXCEPT ![p] = "registered"]
    /\ UNCHANGED <<brokerVars, os, inbox, busy, events>>

Heartbeat(p) ==
    /\ os[p] = "alive"
    /\ link[p] = "registered"
    /\ SendMail(p, "heartbeat")
    /\ UNCHANGED <<brokerVars, workerVars, events>>

\* _work_loop takes the next request.
Begin(p) ==
    /\ os[p] = "alive"
    /\ ~busy[p]
    /\ inbox[p] # <<>>
    /\ busy' = [busy EXCEPT ![p] = TRUE]
    /\ inbox' = [inbox EXCEPT ![p] = Tail(@)]
    /\ UNCHANGED <<brokerVars, os, link, netVars>>

\* PADaemon._handle_chat ends with a done event or an error event; nothing is
\* sent when no client is subscribed to the session, for PUB filters by topic.
FinishChat(p) ==
    /\ os[p] = "alive"
    /\ busy[p]
    /\ owner[p] \in PAs
    /\ busy' = [busy EXCEPT ![p] = FALSE]
    /\ \/ \E e \in Event :
            /\ Room
            /\ events' = [events EXCEPT ![p] = Append(@, e)]
       \/ UNCHANGED events
    /\ UNCHANGED <<brokerVars, os, link, inbox, mail>>

\* SubDaemon._handle_dispatch_task ends with an AGENT_RESPONSE, done or failed.
FinishTask(p) ==
    /\ os[p] = "alive"
    /\ busy[p]
    /\ owner[p] \in Subs
    /\ SendMail(p, "response")
    /\ busy' = [busy EXCEPT ![p] = FALSE]
    /\ UNCHANGED <<brokerVars, os, link, inbox, events>>

\* The process exits by itself, at any point.
Crash(p) ==
    /\ os[p] = "alive"
    /\ Kill({p})
    /\ UNCHANGED <<brokerVars, link, netVars>>

\* The newest message a dead process had not flushed is gone (linger 0).
LoseTail(p) ==
    /\ phase = "up"
    /\ os[p] = "exited"
    /\ \/ /\ mail[p] # <<>>
          /\ mail' = [mail EXCEPT ![p] = SubSeq(@, 1, Len(@) - 1)]
          /\ UNCHANGED events
       \/ /\ events[p] # <<>>
          /\ events' = [events EXCEPT ![p] = SubSeq(@, 1, Len(@) - 1)]
          /\ UNCHANGED mail
    /\ UNCHANGED <<brokerVars, workerVars>>

-----------------------------------------------------------------------------
(* The router loop and the event proxy; messages name an identity only *)

\* _handle_agent_register: IDLE by transition or by force.
HandleRegister(i) ==
    LET p == processes[i] IN
    /\ IF p # None
       THEN /\ state' = [state EXCEPT ![p] = "idle"]
            /\ age' = [age EXCEPT ![p] = "fresh"]
       ELSE UNCHANGED <<state, age>>
    /\ UNCHANGED since

HandleHeartbeat(i) ==
    /\ age' = IF processes[i] # None THEN [age EXCEPT ![processes[i]] = "fresh"]
                                     ELSE age
    /\ UNCHANGED <<state, since>>

\* _router_loop takes the next message of a worker.  After a response the task
\* of _deliver_sub_result refreshes last_active_at before its first await.
RouterReceive(p) ==
    /\ phase = "up"
    /\ mail[p] # <<>>
    /\ mail' = [mail EXCEPT ![p] = Tail(@)]
    /\ \/ Head(mail[p]) = "register" /\ HandleRegister(owner[p])
       \/ Head(mail[p]) = "heartbeat" /\ HandleHeartbeat(owner[p])
       \/ Head(mail[p]) = "response" /\ MarkIdle(owner[p], TRUE)
    /\ UNCHANGED <<processes, owner, polling, todo, awaited, phase, workerVars,
                   events>>

\* _event_proxy forwards an event; a done event marks its source IDLE.
ProxyEvent(p) ==
    /\ phase = "up"
    /\ events[p] # <<>>
    /\ events' = [events EXCEPT ![p] = Tail(@)]
    /\ IF Head(events[p]) = "done" THEN MarkIdle(owner[p], FALSE)
                                   ELSE UNCHANGED <<state, since, age>>
    /\ UNCHANGED <<processes, owner, polling, todo, awaited, phase, workerVars,
                   mail>>

-----------------------------------------------------------------------------
(* The periodic loops *)

\* Time passes for the entries the broker keeps.
GetOlder(p) ==
    /\ p \in Registered
    /\ age[p] \notin {Oldest, "idle"}
    /\ age' = [age EXCEPT ![p] = IF @ = "fresh" THEN "old" ELSE "idle"]
    /\ UNCHANGED <<processes, owner, state, since, polling, todo, awaited, phase,
                   workerVars, netVars>>

RunTooLong(p) ==
    /\ p \in Registered
    /\ since[p] = "recent"
    /\ since' = [since EXCEPT ![p] = "over"]
    /\ UNCHANGED <<processes, owner, state, age, polling, todo, awaited, phase,
                   workerVars, netVars>>

\* sub_idle_timeout is the 300 s of "old", pa_idle_timeout is longer.
IdleExpired(p) == age[p] = "idle" \/ (owner[p] \in Subs /\ age[p] = "old")

\* The entries the reaper looks at: the cron process is never reaped.
Reapable == {p \in Registered : owner[p] # Cron /\ state[p] \notin Terminal}

\* Mutant: the reaper also forgets old entries that have not ended.
ReaperPassForgets ==
    /\ phase = "up"
    /\ processes' = [i \in Identity |->
                        IF processes[i] # None /\ age[processes[i]] # "fresh"
                        THEN None ELSE processes[i]]
    /\ UNCHANGED <<owner, state, age, since, polling, todo, awaited, phase, workerVars,
                   netVars>>

\* One pass of _reaper_loop: dead processes become STOPPED, idle ones are
\* stopped, and entries that ended over 300 s ago are removed.
ReaperPass ==
    LET gone == {p \in Reapable : os[p] = "exited"}
        idle == {p \in Reapable \ gone : IdleExpired(p)}
    IN
    /\ phase = "up"
    /\ Kill(idle)
    /\ state' = [p \in Proc |-> IF p \in gone \cup idle THEN "stopped" ELSE state[p]]
    /\ age' = [p \in Proc |-> IF p \in idle THEN AgeOnceStopped(p) ELSE age[p]]
    /\ processes' = [i \in Identity |->
                        IF /\ processes[i] # None
                           /\ state'[processes[i]] \in Terminal
                           /\ age'[processes[i]] # "fresh"
                        THEN None ELSE processes[i]]
    /\ UNCHANGED <<owner, since, polling, todo, awaited, phase, link, netVars>>

\* _health_check_loop wakes up and copies the registry.
HealthCheckStarts ==
    /\ phase = "up"
    /\ todo = {}
    /\ awaited \notin polling
    /\ Registered # {}
    /\ todo' = Registered
    /\ UNCHANGED <<processes, owner, state, since, age, polling, awaited, phase,
                   workerVars, netVars>>

\* The health check looks at the next entry of its copy, p.
Visits(p) ==
    /\ phase = "up"
    /\ p \in todo
    /\ awaited \notin polling
    /\ todo' = todo \ {p}

\* Mutant: the health check only looks at the state it recorded.
DiesUnasked(p) == state[p] \notin Terminal

\* Mutant: the health check only looks at RUNNING entries.
DiesRunning(p) == state[p] = "running" /\ os[p] = "exited"

Dies(p) == state[p] \notin Terminal /\ os[p] = "exited"

\* A process found dead is FAILED ...
HealthMarksDead(p) ==
    /\ Visits(p)
    /\ Dies(p)
    /\ owner[p] # Cron
    /\ state' = [state EXCEPT ![p] = "failed"]
    /\ since' = [since EXCEPT ![p] = "zero"]
    /\ UNCHANGED <<processes, owner, age, polling, awaited, phase, workerVars, netVars>>

\* ... and the cron process is replaced (cron_auto_restart), unless no new
\* process can be had: then its entry is gone all the same.
HealthRestartsCron(p) ==
    /\ Visits(p)
    /\ Dies(p)
    /\ owner[p] = Cron
    /\ since' = [since EXCEPT ![p] = "zero"]
    /\ \/ \E q \in Unborn :
            /\ os' = [os EXCEPT ![q] = "alive"]
            /\ owner' = [owner EXCEPT ![q] = Cron]
            /\ state' = [state EXCEPT ![p] = "failed", ![q] = "starting"]
            /\ processes' = [processes EXCEPT ![Cron] = q]
            /\ polling' = polling \cup {q}
            /\ awaited' = q
       \/ /\ Unborn = {}
          /\ state' = [state EXCEPT ![p] = "failed"]
          /\ processes' = [processes EXCEPT ![Cron] = None]
          /\ UNCHANGED <<os, owner, polling, awaited>>
    /\ UNCHANGED <<age, phase, link, inbox, busy, netVars>>

\* A process RUNNING for too long is marked FAILED, then stopped by identity.
HealthStopsOverrun(p) ==
    LET r == processes[owner[p]] IN
    /\ Visits(p)
    /\ os[p] = "alive"
    /\ state[p] = "running"
    /\ since[p] = "over"
    /\ since' = [since EXCEPT ![p] = "zero"]
    /\ Kill({r})
    /\ state' = [[state EXCEPT ![p] = "failed"] EXCEPT ![r] = "stopped"]
    /\ UNCHANGED <<processes, owner, age, polling, awaited, phase, link, netVars>>

HealthPasses(p) ==
    /\ Visits(p)
    /\ \/ state[p] \in Terminal
       \/ os[p] = "alive" /\ ~(state[p] = "running" /\ since[p] = "over")
    /\ UNCHANGED <<processes, owner, state, since, age, polling, awaited, phase,
                   workerVars, netVars>>

-----------------------------------------------------------------------------
(* Shutdown *)

\* stop(): every entry is stopped, the registry cleared, the loops cancelled.
Stop ==
    /\ phase = "up"
    /\ StopAll(Registered)
    /\ processes' = [i \in Identity |-> None]
    /\ todo' = {}
    /\ phase' = "stopping"
    /\ UNCHANGED <<owner, since, polling, awaited, link, netVars>>

\* Mutant: the process ends without stopping what was spawned meanwhile.
ExitProcessAtOnce ==
    /\ phase = "stopping"
    /\ polling' = {}
    /\ phase' = "down"
    /\ UNCHANGED <<processes, owner, state, since, age, todo, awaited, workerVars,
                   netVars>>

\* The loop ends and the main coroutine calls stop() once more: tasks that
\* were waiting for their turn may have spawned workers in between.
ExitProcess ==
    /\ phase = "stopping"
    /\ StopAll(Registered)
    /\ processes' = [i \in Identity |-> None]
    /\ polling' = {}
    /\ phase' = "down"
    /\ UNCHANGED <<owner, since, todo, awaited, link, netVars>>

-----------------------------------------------------------------------------

HealthVisit(p) ==
    \/ HealthMarksDead(p)
    \/ HealthRestartsCron(p)
    \/ HealthStopsOverrun(p)
    \/ HealthPasses(p)

RequestStep ==
    \/ StartCron
    \/ \E i \in PAs :
        EnsurePAFound(i) \/ EnsurePASpawns(i) \/ ChatRefused(i) \/ ChatForwarded(i)
    \/ \E i \in Subs : DispatchSub(i)
    \/ \E i \in Stoppable : StopAgent(i)

WorkerStep(p) ==
    \/ Connect(p) \/ Register(p) \/ Heartbeat(p) \/ Begin(p)
    \/ FinishChat(p) \/ FinishTask(p) \/ Crash(p) \/ LoseTail(p)

LoopStep(p) ==
    \/ PollCrashed(p) \/ PollDone(p)
    \/ RouterReceive(p) \/ ProxyEvent(p)
    \/ GetOlder(p) \/ RunTooLong(p) \/ HealthVisit(p)

Next ==
    \/ RequestStep
    \/ \E p \in Proc : WorkerStep(p) \/ LoopStep(p)
    \/ ReaperPass \/ HealthCheckStarts
    \/ Stop \/ ExitProcess

Spec == Init /\ [][Next]_vars

\* The broker's own loops and timers run for ever; requests, crashes, and what
\* a worker does with its time are not promised.
Fairness ==
    /\ WF_vars(HealthCheckStarts)
    /\ WF_vars(ReaperPass)
    /\ \A p \in Proc :
        /\ WF_vars(PollCrashed(p) \/ PollDone(p))
        /\ WF_vars(RouterReceive(p))
        /\ WF_vars(ProxyEvent(p))
        /\ WF_vars(HealthVisit(p))
        /\ WF_vars(RunTooLong(p))

FairSpec == Spec /\ Fairness

-----------------------------------------------------------------------------
(* Properties *)

\* No orphans: a live worker is always the one registered under its identity,
\* however ensure_pa, the reaper, the cron restart and stop() interleave; so
\* no identity ever has two workers, and no worker escapes stop and reaping.
NoOrphan == \A p \in Proc : os[p] = "alive" => p \in Registered

\* STOPPED and FAILED are never shown for a live process: the reaper deletes
\* such entries, and the health check skips them.
TerminalIsDead ==
    \A p \in Proc : os[p] = "alive" => state[p] \notin Terminal

\* A RUNNING entry has its running_since set, without which the health check
\* would never find it overdue (broker.py, _mark_running and the health check).
RunningIsTimed == \A p \in Proc : state[p] = "running" => since[p] # "zero"

\* When the scheduler process has ended, no worker is left behind, not even
\* one spawned by a request that was waiting while stop() ran.
DownMeansNoWorkers == phase = "down" => \A p \in Proc : os[p] # "alive"

\* An entry is removed or replaced only when its process is gone.
EntryOutlivesProcess ==
    [][\A i \in Identity :
        processes[i] # None /\ processes'[i] # processes[i]
            => os'[processes[i]] = "exited"]_vars

\* A RUNNING entry does not stay RUNNING for ever, even when its worker hangs
\* or its answer is lost (broker.py, the second line of defence in the health
\* check), unless it is replaced or the scheduler is shut down.
RunningEnds ==
    \A p \in Proc :
        p \in Registered /\ state[p] = "running"
            ~> state[p] # "running" \/ p \notin Registered \/ phase # "up"

\* A worker that died is noticed: its entry becomes terminal or is replaced.
DeathIsNoticed ==
    \A p \in Proc :
        p \in Registered /\ os[p] = "exited"
            ~> state[p] \in Terminal \/ p \notin Registered \/ phase # "up"

-----------------------------------------------------------------------------
(* The inductive invariant behind the safety properties *)

\* A process has an owner from the moment it is spawned, and before that it is
\* neither polled, nor copied by the health check, nor the sender of anything.
SpawnedHasOwner ==
    \A p \in Proc :
        /\ os[p] = "unborn" <=> owner[p] = None
        /\ os[p] = "unborn" =>
            p \notin polling \cup todo /\ mail[p] = <<>> /\ events[p] = <<>>

\* A registered process was spawned for the identity it is registered under.
EntryIsOwned ==
    \A i \in Identity : processes[i] # None => owner[processes[i]] = i

\* While the health check suspends, nobody else replaces the cron entry it has
\* still to visit, so the entry it deletes is the one it found dead.
CronCopyIsCurrent ==
    \A p \in todo : owner[p] = Cron /\ state[p] \notin Terminal => processes[Cron] = p

IInv ==
    /\ TypeOK
    /\ SpawnedHasOwner
    /\ EntryIsOwned
    /\ NoOrphan
    /\ TerminalIsDead
    /\ RunningIsTimed
    /\ CronCopyIsCurrent
    /\ DownMeansNoWorkers

-----------------------------------------------------------------------------
(* The promise to clients; sub agents keep it because task ids are fresh *)

Workers == INSTANCE SessionWorkers WITH
    worker <- [i \in Identity |-> IF Live(i) THEN processes[i] ELSE None],
    used <- Proc \ Unborn

\* The broker keeps the promise of SessionWorkers.
ImplementsSessionWorkers == Workers!Spec
=============================================================================
