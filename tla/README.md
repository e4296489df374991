# A verification project for nimo

nimo is a personal-assistant server. A FastAPI process talks over ZMQ to a
scheduler process; the scheduler spawns one worker process per chat session (the
personal assistant, PA), one per dispatched sub-agent task, and one that runs
cron jobs. Most of what can go wrong happens between these processes: messages
that outlive their sender, workers that die between two writes, coroutines that
suspend between a check and the write that relies on it. The modules here model
that machinery; TLC checks them on small instances, TLAPS proves the main results
for every value of the constants. Paths below are relative to
`src/backend/agentpal/`; line numbers refer to the sources this directory was
written against, and PROJECT.json maps every definition to its lines.

## 1. The system

### Components

| Component | State it keeps | Operations | What makes it correct |
| --- | --- | --- | --- |
| Scheduler broker: `scheduler/broker.py`, `state.py`, `config.py` | registry of workers, recorded state and times of each, startup polls | ensure a PA, dispatch a sub agent, start and restart cron, stop, route, deliver results, reap, health check, shut down | one live worker per identity, none out of sight, RUNNING ends, deaths are noticed, shutdown leaves nothing |
| Worker process: `scheduler/worker.py`, `zmq_bus/daemon.py` | socket, bounded FIFO queue | connect, register, heartbeat, receive loop, work loop, stop | requests are handled in order, one at a time |
| Scheduler client and process: `scheduler/client.py`, `process.py`, `main.py` | pending requests, scheduler process, sockets of event streams | request, receive, open and close streams, restart the scheduler, reconnect, stop, kill | the request table is exact; one scheduler; `stop()` ends unless a stream is open |
| Chat session: `api/v1/endpoints/agent.py`, `zmq_bus/pa_daemon.py`, `zmq_bus/event_subscriber.py`, `tools/tool_guard.py`, `providers/retry_model.py`, tool loop of `agents/personal_assistant.py` | event stream of each chat, task queue, tool round, attempt, pending confirmation, stop flag | send, subscribe, disconnect, answer a confirmation, ask the model, retry, run tools, save | guarded tools run only when approved; answers are heard; every chat ends |
| DingTalk: `channels/dingtalk_stream_worker.py`, `dingtalk_api.py` | the last message ids, handlers | take a message, send a chat, answer a confirmation, relay the reply | a message that comes again is not handled again |
| Plan mode: `agents/personal_assistant.py`, `plans/*` | `sessions.agent_mode`, plan files, step statuses | trigger, generate, confirm, revise, cancel, dispatch and complete steps | one active plan; the steps that run are approved, in order, one at a time; completed is final |
| Sub-agent tasks: `agents/sub_agent.py`, `zmq_bus/sub_daemon.py`, `tools/builtin_agent.py`, `runtimes/*`, `api/v1/endpoints/tasks.py` | task row, run, rounds, attempts, retries, answer, delivered result | dispatch, run, retry, answer, deliver, time out, cancel, sweep at start-up | one result per task, with its row written; rows that ended stay ended; runs and retries end |
| Cron: `zmq_bus/cron_daemon.py`, `services/cron_scheduler.py`, `agents/cron_agent.py` | jobs with next run time, executions | edit, check, mark, execute, notify, finish, trigger | a due job runs, once per due time; what is announced is recorded; runs end |
| Memory: `memory/*`, `workspace/memory_writer.py` | rows of a session, token count, compression in progress | add, read, compress, clear | a model that is not given a compressed message is given its summary; nothing comes back |
| Prompts: `workspace/context_builder.py`, `disclosure_engine.py`, `agents/personal_assistant.py` | how each section was shown last | collect, decide, roll out, budget, keep | the budget is kept; a reminder refers to something a model was given |
| Skills: `skills/*`, `api/v1/endpoints/skills.py`, `skill_cli` | files, snapshots, a row per skill | install, roll back, toggle, uninstall | an undisturbed install keeps the number of snapshots; toggles kept; deleted rows stay deleted |
| Database access: `database.py` | session with pending changes | commit with retry | a write commits, raises or is lost (a step of the modules that write) |
| Message bus, event buses, other channels, provider and tool registries, configuration, endpoints, command line, web interface | little of their own | I/O and format conversion | not modelled, see section 6 |
| `scheduler/scheduler.py`, `zmq_bus/manager.py` | as the broker | as the broker | predecessors of the broker; `main.py` starts neither |

### How they interact

* FastAPI process to scheduler: DEALER to ROUTER, one request and one reply
  (ENSURE_PA, DISPATCH_SUB, STOP_AGENT), or a message to be forwarded
  (CHAT_REQUEST, CHAT_CANCEL, TOOL_GUARD_RESOLVE).
* Scheduler to worker and back: ROUTER by identity (`pa:<session>`,
  `sub:<name>:<task>`, `cron:scheduler`). A message for an identity that is not
  connected is dropped silently. A worker's messages outlive the worker.
* Worker to browser: PUB through the broker's event proxy to a SUB socket per
  chat. PUB filters by subscription: who subscribes late has missed the event.
* Sub agent to plan: the answer of a step's task reaches the broker, which stores
  it in the parent session and tells the PA with PLAN_STEP_DONE.
* DingTalk to session: its worker sends chats and answers to confirmations through
  the same client as the browser.
* Everything durable is shared through one SQLite database, plan files and skill
  directories, written by several processes without a version check.

### What is hard

The broker is one asyncio loop whose coroutines suspend in startup polls and
sleeps, so `ensure_pa`, the reaper, the cron restart of the health check and
`stop()` interleave; messages of dead workers are applied to live entries; a
worker may die at any point; a plan spans a file, a database column and tasks in
other processes, written one after the other; retries of a task outlive the
session they write to; a confirmation has to overtake the chat that waits for it;
compressions, prompts and skill installations read, wait and write back. PROJECT.json
lists the hazards, each at its line, with the properties that would notice it.

## 2. The modules

| Module | What it is |
| --- | --- |
| `SessionWorkers` | abstract: what a client may rely on, one live worker per identity |
| `SchedulerBroker` | the broker with its workers' side of the sockets; refines `SessionWorkers` |
| `SchedulerClient` | the client in the FastAPI process and the scheduler processes it starts |
| `ChatSession` | one session's chats: client, daemon, assistant, guard, streams |
| `DingTalkChat` | extends `ChatSession` with DingTalk as a second client of the session |
| `PlanMode` | the plans of one session |
| `SubAgentTask` | the life of a task: row, runs, retries, answers, delivery |
| `SubAgentRun` | extends `SubAgentTask` with the inside of a run; refines its fair behaviours |
| `CronJobs` | jobs, executions and the cron worker |
| `SessionMemory` | the rows of one session under turns, compression and clears |
| `PromptDisclosure` | which sections a prompt shows, and how |
| `SkillStore` | the files and the row of one skill under overlapping operations |
| `MC*` | instances of each for TLC |
| `*Proofs` | theorems; each extends the module it is about. `SubAgentTaskProofs` is about `SubAgentRun` too, `ChatSessionProofs` about `DingTalkChat`, and `ContextProofs` about `PromptDisclosure` and `SessionMemory` |

Operators whose comment begins with "Mutant:" are not part of the model: each is a
defect that PROJECT.json puts in the place of a definition, to see that a property
notices it.

### SchedulerBroker

A step is what a coroutine does between two suspension points. `_stop_process`
joins, terminates and kills without an await, so `StopAll` is one step, whereas a
startup poll (`polling`) and the health check, which works on a copy of the
registry (`todo`) and may await the poll of the cron process it restarts
(`awaited`), are spread over many. The registry is `processes`; `owner`, `state`,
`since` and `age` are the fields of a registered process (`running_since` and
`last_active_at` as far as they are compared with a limit). `os`, `link`, `inbox`
and `busy` are the worker's side, `mail` and `events` what it has sent and the
broker has not read. A worker that crashes may lose the newest of them
(`LoseTail`: the socket is closed with linger 0). Time passes by `GetOlder` and
`RunTooLong`, which may happen whenever an entry is young enough. Left out: the
storing of results (`SubAgentTask` has it), configuration reload and read-only
queries; the branch of `StopAll` for a process that survives `kill()`.

### SchedulerClient

`pending` is the table of futures, `call` where each caller is, `proc` the scheduler
processes by generation, `gen` the one the client holds. A request is sent, taken
(`Accept`), carried out (`Answer`) and received; it may expire at any point and its
reply may still come. `client` is the client's own life: the health check starts
another scheduler when the last one is dead (`Respawn`) and replaces the socket
(`Reconnect`); `stop()` and the exit hook ask, wait, terminate and kill. A scheduler
that is terminated before it installs its signal handler leaves at once. `open` are the
event streams, whose sockets belong to the client's context: `stop()` ends (`Closed`)
only when none is open, because closing the context blocks the event loop until then,
and with it whoever could close a stream.

### ChatSession and DingTalkChat

`socket` holds what the broker forwarded, in order; `Receive` is the daemon's
receive loop, which puts chats on `queue` and handles cancellations and answers to
confirmations itself; it waits when the queue is full (`Blocked`). `pa` is where
`_handle_chat` and `reply_stream` are, with round, attempt and call numbers standing
for the `request_id` of a confirmation. `verdict` is the pending one of
`ToolGuardManager`. Users may answer a confirmation they were shown, more than once
and too late. `GuardTimesOut` comes only when the receive loop has received all it
can: five minutes are long against a message. Exceptions (`Fail`) hit before the
reply, in the model call, and while saving. Any tool may need a confirmation at any
call: the rules and thresholds are reloaded from a file while a chat runs. The
event that shows a confirmation and the creation of its entry are one step. An answer
names a set of ids (`Ids`): a whole id, or a beginning that several ids share
(`Prefix`), which decides the pending confirmation if it is the only one that fits. The
tool loop of a plan (`pa.plan`) asks neither the guard nor whether the chat was
cancelled.

`DingTalkChat` adds deliveries. The SDK runs handlers concurrently and acknowledges a
message when its handler returns, so a message comes again while it is being handled;
`seen` is the table of `DedupMax` ids, `starting` and `handler` the handlers that
run. The web interface may also use the ids of chats of its own (`WebChat`).

### PlanMode

`mode` is the column, `status` and `steps` are the plan's file, `flight` counts
the tasks of a step whose report is still to come, `pa` is the handler that runs,
with the plan object it holds in memory. A step is the work of a handler up to and
including its next durable write, so `Crash` can strike between any two writes:
it loses `pa` and nothing else; an exception outside the model call and the dispatch is
a `Crash` too. Any of the three ways to cancel may come while a step runs: `CliCancel`
is the `cancel` of `plan_cli`, which the model may call when it chats or among the tools
with which it makes another plan (that sub agents, in processes of their own, have
`plan_cli` too is left out). `MisreadTrigger` is a request that begins a plan because the
mode could not be read and passes for NORMAL (what else a user says then is a chat like
any other and touches no plan). A file is written in one piece. `approved` and `slips` are
history variables: the plans approved as they are, and which of three things have gone
wrong: a report was applied to a cancelled plan, a write of the mode was lost, a mode was
misread. The texts, and how an answer is classified
(`plans/intent.py`), are abstracted to the choice they make; an answer that is not
understood changes nothing but the memory. Left out: the branch of
`handle_plan_step_done` for a failed step, which no message reaches; the step-by-step
confirmation, which `auto_proceed` being constantly true disables.

### SubAgentTask and SubAgentRun

One record per task: its row, its caller (asynchronous, or blocking with a
timeout), its first run, its retries, the answer under way and the results the
parent session was given. `SubAgent.run` schedules a retry in the background and
returns the empty string, after which the session of the run is closed: `RetryEnds`
has nothing to write to. `Answer` is the single sending guarded by `response_sent`
in the daemon; `Tell` is the blocking caller; `StoreHere` is the fallback that runs
in the caller's process when there is no scheduler. `CheckCancel` and `Cancel` are the
two halves of the cancel endpoint, between which anything may happen. `Write` may be
lost, because `_update_status` swallows the error; `unwritten` remembers whose.
`Restart` is the sweep of unfinished rows when the server starts.

`SubAgentRun` adds `work`: the round and attempt of the run or retry. A round is a
model call with up to `MaxAttempts` attempts and then tools or text; after the last
round the model is made to sum up. `ImplementsTask` says that this is a behaviour of
`SubAgentTask!FairSpec`: the fairness which that module assumes of runs follows here
from the bounds of rounds and attempts.

### CronJobs

A job is its `due` bit with its switches; `came` and `fired` count, per job, how often its
time has come (or a user triggered it) and how often a run was spawned. The loop works on
a copy of the due jobs (`todo`): `Mark` commits the next run time, then `Spawn` starts the
run; the first job that is gone or cannot be written abandons the rest. A run goes through
`asking`, `finishing`, `notifying`, `committing`; it ends `over`, `cut` by a crash, or
`refused` when the database refuses its last write; `exec` is its row, `told` the messages
and `shown` the browser events about it. Users edit jobs between any two commits.

### SessionMemory

`table` is the committed rows of a session, each with the ids it summarises (`covers`).
A turn remembers the user's message, reads the last rows of the history, gives those
that are not compressed, all but the last of them, to the model, remembers the answer and
counts tokens; `turn` keeps the rows it read and those it gave. Over the threshold it
starts a compression, which loads the last `SqliteLimit` rows, asks the model and then
marks, inserts the summary, or a placeholder if the model has answered nothing, and resets
the count in one transaction.
Results of other processes and clears come between any two steps; a write may be lost.

### PromptDisclosure

A text is a version number and its hash is the version. Each prompt finds any text in
any section (they come from files, tables and other requests), decides every section
by the rules, the rollout stage and the budget, and writes the states back (`Save`); only
then is the model called with it (`HandOver`). Two requests of a session overlap, reads
and writes fail silently, and a request may die, be cancelled or fail anywhere (`Drop`).
`introduced` and `undelivered` are history variables: the versions a model was given, and
those of prompts that were dropped after their states had been committed.

### SkillStore

`dir` is the installed directory (none, partial, whole), `snaps` the snapshot indexes,
`row` the record, `writer` the write lock of SQLite. Every operation of the file
system is a step; requests of the API share an event loop and cannot interrupt each
other between two awaits (`Turn`), threads of `skill_cli` run in another process and can.
`alone` is a history variable: who is, or was last, at the files without anybody else
having begun meanwhile (`Watch`).

## 3. What is checked

| Run | Instance | Properties |
| --- | --- | --- |
| `broker_restarts` | a session, a sub agent and cron, two process incarnations, one queued request and one message in transit each, entries that age up to the idle limit, symmetry | `NoOrphan`, `DownMeansNoWorkers`, `EntryOutlivesProcess`, `ImplementsSessionWorkers` |
| `broker_requests` | a session and cron, two process incarnations, one queued request and one message in transit each, no ageing | `RunningEnds`, `DeathIsNoticed` |
| `client_life` | two requests, an event stream, three scheduler processes, two crashes | `RequestsMatched`, `OneScheduler`, `StopEnds` |
| `client_deaf` | the same, without fairness | `UpMeansListening` (violated) |
| `chat_answers` | a chat of the browser and one of DingTalk, two messages and a confirmation, a table of one id, one round, two attempts, one tool call, two answers, a beginning that the ids of two calls share, queue of one, all faults | `RunOnlyIfApproved`, `HandledOnce`, `AnswerDecides`, `EveryChatEnds` |
| `plan_steps` | three plans of up to three steps, all faults, cancellations at any time; after a slip two plans with one step in flight; symmetry | `OneActivePlan`, `OneStepAtATime`, `StepsInOrder`, `ActiveIsVisible`, `StepsAreApproved`, `CompletedIsFinal` |
| `plan_progress` | two plans of up to two steps, no faults, cancellations at any time | `PlanEnds` |
| `task_life` | a task with three retries, three rounds, four attempts, all faults | `WorksForARun`, `DeliveredOnce`, `DeliveredIsDone`, `ImplementsTask`, `EndedStaysEnded`, `WorkEnds` |
| `cron_runs` | the heartbeat and a job, two due times or triggers in total, two rounds, two edits, one fault | `OncePerDue`, `ToldIsRecorded`, `DueJobRuns`, `RunsEnd` |
| `memory_turns` | eight rows, one clear, two faults, a history of four rows, a load of five, compression over two turns keeping one row | `CompressedIsSummarised`, `SummarisedOnce`, `ClearedStaysCleared`, `CompressionEnds` |
| `prompt_turns` | two requests, three turns, a recalled section and the plan's, two versions, stages 0 and 3, a budget of one, one failure | `BudgetRespected`, `ReminderWasIntroduced` |
| `skill_changes` | a request and a `skill_cli` thread, two versions, two snapshots kept, six installs (or fewer with other operations), one fault | `SnapshotsBounded`, `TogglesKept`, `DeletedStaysDeleted` |

What they show, in words:

* However ensure, reaping, cron restart, crashes, late messages and shutdown
  interleave, a live worker is the registered one, is not forgotten by the reaper,
  and does not survive the scheduler's orderly end. A client sees `SessionWorkers`.
  RUNNING ends even if a worker hangs or an answer is lost, and a dead worker is
  noticed, as long as the scheduler is up.
* The client's table holds the requests somebody waits for and no others, through
  timeouts and late replies, and an answer means that this request was carried out.
  Scheduler processes never overlap, whenever `stop()` meets the health check, and
  `stop()` ends, unless an event stream is open when it closes the context.
* A guarded tool of a reply runs only if a user approved this very call, or typed a
  beginning of its id, through either channel; an answer given in time is heard although
  its chat blocks the work loop; every chat ends with done or error; a DingTalk message
  that comes again is dropped until as many others as the table has places were handled.
* A session's plans exclude each other, only steps of a plan that was approved as it is
  run, one at a time and in order, through any crash, cancellation, model error, failed
  dispatch or failed task. This ends with the first slip: the late report of a step of a
  cancelled plan, a lost write of the mode, or a mode misread as a plan begins (each alone
  gives two active plans, section 5). Whatever slips, a completed plan is final. Without
  faults a plan that executes ends.
* A result reaches the parent session at most once, and only with the row written,
  cancelled, or lost by the database; a row that ended is overwritten by a
  cancellation only, also across a restart of the server; a run with its retries ends
  because rounds, attempts and the forced summary are bounded.
* A cron job runs no more often than it was due, and a due job runs unless users keep
  editing; what was announced is recorded as ended; every run ends, and its execution
  stays RUNNING only after a crash or a refused write.
* A turn that keeps compressed messages from the model gives it their summary (or the
  placeholder for one), but for a summary that came after the request's own row: the last
  row read is not given. No message is summarised twice; what was cleared does not come
  back; a session can be compressed again whatever became of the last attempt.
* The budget of a prompt holds after the rollout stage widened it, never at the cost of
  the plan or the mention a request is about; a reminder stands for a text that a
  model was given, or that was in a prompt whose request ended between the commit of the
  states and the call of the model.
* However operations of two processes interleave and break, the next install that
  nobody disturbs brings the snapshots of a skill down to the documented number; an
  overlapping install does not undo a toggle or revive a deleted row.

### Bounds, and why they are enough

* Broker: two incarnations are the least that let a process replace another while
  messages of the first are still under way; a third would repeat the relation
  between the second and the first. A second identity beside cron gives the
  health check something to visit after the cron restart it awaited, and lets a process
  replace another in the registry that then ages without it. One queued request and one
  message in transit per worker (`MaxInbox`, `MaxMail`, enforced by `Room` where something
  is added) are enough for a message to outlive its sender and for a request to wait
  while another is worked on. `Oldest` bounds how old entries get: to the idle limit in
  the safety run, not at all in the liveness run, which no reaper is needed for.
* Client: three scheduler processes are one that crashed, one that was being started
  when `stop()` came, and one between; two requests can belong to different generations;
  one stream is open or not when the context is closed.
* Chats: two contend for the work loop, and the queue of one is full when both wait;
  two attempts have a failed stream and its retry; two answers let users disagree or
  repeat themselves. One call per round is enough for a late answer to meet the next
  chat, and a shared beginning is enough for an answer to fit two calls; the theorem has
  any number. A table of one id is the smallest that forgets.
* Plans: three plans are an old one, the current one and a new one; three steps
  have a first, a middle and a last; `MaxFlight = 2` permits the second dispatch of
  a step, which is what must not happen. After a slip only `CompletedIsFinal` is claimed:
  the constraint `FollowedUp` follows these states for two plans and one step in flight,
  its theorem has no such bound.
* Tasks do not interact, so one is enough for the runs; the theorems hold for any
  number. Three retries and three further attempts are the defaults of the code.
* Cron: two due times let the second come while the first run is still under way,
  a crash and a failed write may each be the one fault.
* Memory: eight rows hold two compressions with turns and results between them; four
  rows are read and five loaded, so that both limits cut something off.
* Prompts: one section of each kind that the budget and the reminder rule treat
  differently; three turns are shown, reminded and shown again after the TTL of one or
  two; one failure is a read, a write or a request cut short. The 17 sections and the
  other stages are in the definitions and the proof.
* Skills: two actors are enough for every interleaving of two operations; six installs
  fill the snapshots and evict twice, and leave more than are kept, which is the case
  that an undisturbed install has to clean up.

### Fairness

Safety runs assume none. `broker_requests` assumes that each coroutine of the broker
that can go on does: each is a loop that sleeps a fixed time and catches its
exceptions; and that time passes for an entry that keeps RUNNING. Nothing is
assumed of workers or clients. `client_life` assumes that the waits of `stop()` and of
requests run into their timeouts, nothing of the scheduler. `plan_progress` assumes
that a running handler goes on and, strongly, that a dispatched task ends and its
report is taken: reports wait in a FIFO queue, so the user cannot overtake them for
ever. `task_life` assumes that each single step of a run is followed by the next, because
model calls and tools have timeouts; that runs end is then a result. `chat_answers`
assumes that both loops of the daemon go on and that a stream that was asked for
subscribes. `cron_runs` assumes that the loop, a restart after a crash and each run
go on; `memory_turns` that a compression does. No fairness is assumed of users,
crashes, faults or confirmations beyond the work loop's own.

## 4. What is proved

All theorems hold for any sets of identities, processes, plans, tasks, chats, jobs,
requests, sections and actors, and any bounds, under the named assumptions of the
modules (distinct constants, bounds that are natural numbers).

* `SchedulerBrokerProofs`: `Invariant` (`IInv`), and from it `NoOrphan`,
  `TerminalIsDead`, `RunningIsTimed`, `DownMeansNoWorkers`, `EntryOutlivesProcess` and
  the refinement `ImplementsSessionWorkers`. `NoOrphan` is not inductive: to keep it, a
  process must be known to have been spawned for the identity it is registered under
  (`EntryIsOwned`) and to send nothing before it is spawned (`SpawnedHasOwner`); and the
  entry the health check deletes, seconds after it copied it, must still be the
  registered one (`CronCopyIsCurrent`). The refinement follows because each step spawns
  one process for an identity without a live one, ends some processes, or leaves all of
  them alone (`StepKinds`).
* `SchedulerClientProofs`: `RequestsMatched` and `OneScheduler`, which are inductive
  together once a reply on its way is known to belong to a request that was carried out
  (`RepliesAreDone`).
* `ChatSessionProofs`: `RunOnlyIfApproved`, for `ChatSession` alone and with DingTalk. A
  verdict may count only if a user gave it to the call that is pending, or typed a
  beginning of its id, hence
  `AnswerInv` for every answer on its way, and `PlaceInv` and `QueueInv` for the chat
  the work loop takes. `HandledOnce` follows from `SeenInv`: the table is the end of the
  sequence of messages that were handled. `AnswerDecides` needs to know where an answer
  is: `HearingInv` says that as long as there is no verdict an answer to the pending
  confirmation is in the socket (`HeardInv`), that no chat is in two places (`OnceInv`),
  and that no call was asked about, hence answered, before it was chosen (`AskedInv`).
  With no hypothesis this gives `OnlyAFullQueueMissesAnswers`: a confirmation that times
  out although it was answered has a full queue in the answer's way. `AnswersDecide` has
  the hypothesis that the queue, of 256 places in the code, has room for all chats but
  the one being answered and the one received next, so that it never is in the way, also
  with DingTalk (`AnswersDecideWithDingTalk`); the case beyond it is a known divergence
  (section 5).
* `PlanModeProofs`: `InductiveInvariant` and from it the safety properties of
  `plan_steps`, with no hypothesis on faults or cancellations: the properties themselves
  say that they hold until the first slip. `HandlerInv` says what each handler still knows
  of mode and plan, `FlightInv` that a task in flight is the next step of the executing
  plan or of one that was cancelled, `FreshInv` that a plan that can be approved again has
  not begun, `ApprovedInv` that what executes or runs was approved as it is.
  `CompletedIsFinal` holds after slips too; it needs `FinalInv`: no handler that is going
  to write a plan has one that is completed.
* `SubAgentTaskProofs`, on tasks: `DeliveredOnce` and `DeliveredIsDone`, whatever fails.
  `AnswerInv` says that a result is in one of its stages only (not yet answered, under
  way, delivered); `DispatchInv` that nothing precedes the dispatch; `ResultInv` that a
  result in any stage has its row written. `EndedStaysEnded` follows with `EarlyInv`:
  until its first run returns, no row has ended. On runs: `RunImplementsTask`, each step
  of `SubAgentRun` is a step of `SubAgentTask` or leaves its variables alone, so the
  theorems on tasks hold of them (`TaskPropertiesOfRuns`); and `WorksForARun`, from
  `RunInv`, which adds that a retry is there only when its run has returned or is gone
  (`RetriesFollowTheRun`).
* `CronJobsProofs`: `OncePerDue` and `ToldIsRecorded`. A job that is due, or in the
  loop's copy, has a due time without a run (`DueInv`); the run of a due time that is
  still to be spawned has not begun (`FreshInv`); who notifies has ended its execution,
  and who has notified never returns to it (`NoticeInv`).
* `ContextProofs`, on prompts: `ReminderWasIntroduced` and `BudgetRespected`. The rules
  compare hashes only, so what is kept of a section as shown must stand for a text that
  was told (`Told`: given to a model, or in a prompt that is on its way there or was
  dropped after its commit) (`BundleInv`), and what a request is about to keep is what it
  is about to show or was kept before (`BuildInv`). That an older request may overwrite a newer
  one's states does no harm, because what was shown stays shown. The budget holds
  because the sections that stay full are the first ones of one order, and no two
  sections have the same place in it.
* `ContextProofs`, on the history: `CompressedIsSummarised`, `SummarisedOnce` and
  `ClearedStaysCleared`. They follow from `MemoryInv`: rows are in the order of their ids
  (`InOrder`), every marked row is covered by a summary that stands after it
  (`MarkedHasSummary`), what a summary covers is marked or gone (`CoveredIsMarked`), and
  what a compression asks a summary of is in no other, because one compression runs at a
  time (`AskedIsNew`, `OneCompression`). That the row a turn drops is its own or came
  after it needs `OwnIsThere`: while the turn is to read, its own row stands among the
  others, or all of them are newer.
* `SkillStoreProofs`: `TogglesKept` and `DeletedStaysDeleted`. Both follow from
  `WriterInv`: what the holder of the write lock will commit fits the row as it is,
  since UPDATE sets only the columns that changed and nobody else can commit meanwhile.
  `SnapshotsBounded` follows from `AloneInv`: a list of snapshots that an undisturbed
  install finds full is what there is until it has evicted all but `MAX_VERSIONS - 1`,
  and below that there is room for one more. `OneProcessKeepsTheBound` says that without
  threads of `skill_cli` the bound holds at all times, since whoever is at the files is
  alone (`TurnsInv`).

Every safety invariant and action property that a run checks is the conclusion of a
theorem, as is every step of both refinements. Only model-checked, because fairness and
ENABLED are beyond the prover: the liveness properties (`RunningEnds`, `DeathIsNoticed`,
`StopEnds`, `PlanEnds`, `WorkEnds`, `EveryChatEnds`, `DueJobRuns`, `RunsEnd`,
`CompressionEnds`), and that runs with rounds have the fairness that `ImplementsTask`
promises. The constants of the runs satisfy the hypotheses of the theorems, except for
`OneProcessKeepsTheBound`, whose instance is that of `skill_changes` without the thread.

## 5. Where the code and its documentation disagree

`client_deaf` expects a violation; PROJECT.json quotes the lines under `findings`. After
the scheduler was restarted the health check closes the socket whose `recv_multipart()`
`_recv_loop` awaits; the loop takes the cancelled future for its own cancellation and
ends, and nothing starts it again: every later request times out.

### Known divergences

Seen while the modules were written and not kept as runs, since what they show is a
sequence of steps rather than a question of its own; hazards in PROJECT.json refer to
this list. Those marked (TLC) were found as counterexamples of a property that states
what the quoted line says.

**Broker.**
* (TLC) `state.py:32` gives STOPPED no successors; AGENT_REGISTER read after its worker
  was stopped makes the entry IDLE again (`broker.py:731`).
* (TLC) `broker.py:812` says that ROUTER delivers a chat once the worker has connected;
  it drops it. 278 says the same of DISPATCH_TASK.
* `config.py:17` says that a worker running too long is marked FAILED; the health
  check calls `_stop_process` after marking it, which makes it STOPPED
  (`broker.py:1131`, 435). `config.py:35` says that cron is restarted when it crashes; a
  crash during its startup poll makes the entry FAILED, which the health check skips
  (`broker.py:248`, 1091), and cron stays away.
* `state.py:18-19` says what RUNNING and IDLE mean; after an error event, or a done
  event nobody subscribed to, an idle worker stays RUNNING, and a chat taken before
  AGENT_REGISTER runs under IDLE. `state.py:50` says that `running_since` is 0
  otherwise; stopping, reaping and registering leave it set.
* `client.py:165`: `stop()` closes the context on the event loop and blocks there until
  every socket of it is closed; a stream that is open then, of a browser or of DingTalk,
  can be closed only by the loop that is blocked, and `stop()` never returns.
* Workers of a scheduler that crashed or was killed go on, and the next scheduler starts
  a second cron worker and a second PA for the same session (`broker.py:183`, 237, 311;
  `client.py:578`).

**Chats and DingTalk.**
* (TLC) `agent.py:286` says that the chat of a browser that leaves is cancelled; a
  stream that waits in `__anext__` turns the cancellation into its end
  (`event_subscriber.py:119`) and CHAT_CANCEL is not sent.
* `agent.py:264`: the request is sent before the stream subscribes, so a stream can
  miss the end of a short chat and wait for ever. `protocol.py:27`: CHAT_CANCEL names
  its chat, but stops the one that is being answered. `personal_assistant.py:987`: the
  check before a tool precedes the confirmation, and a chat stopped meanwhile still runs
  the tool. `pa_daemon.py:228`: with the queue of 256 full, an answer waits behind the
  message that waits for the queue, until the confirmation times out.
* `personal_assistant.py:910`: after a stream broke off and was retried, the lengths
  already sent carry over, so what was streamed mixes two answers while the second is
  what is saved. The event that shows a confirmation precedes `create_pending`; an answer
  in that instant is lost (the model takes both as one step).
* `tool_guard.py:347`: a beginning of an id that the pending confirmation shares with
  another one approves it, whichever was meant.
* `personal_assistant.py:1254` runs the tools of a plan's loop without the guard and
  without looking whether the chat was cancelled: `guard.check` is called in `reply` (722)
  and `reply_stream` (1000) only, so sub agents and cron jobs run unguarded too.
* `dingtalk_stream_worker.py:221` tells "confirmed" without knowing whether the
  confirmation still existed; a message whose handler failed is remembered and
  acknowledged and so never handled.

**Plans.**
* (TLC) `builtin_cli.py:545` calls CANCELLED terminal; the report of a step that was
  running makes the plan go on, up to COMPLETED (`personal_assistant.py:1552`).
* (TLC) `personal_assistant.py:1588` says that a failed step aborts the plan; the broker
  returns before it reports one (`broker.py:876`) and the plan stays EXECUTING, as does
  a plan without steps (against `docs/design-plan-mode.md:302-306`).
* `docs/design-plan-mode.md:21` says of PLANNING that a plan is being made; an
  exception of the model leaves the mode behind.
* (TLC) Nothing that cancels a plan (`personal_assistant.py:1300`, 1674,
  `builtin_cli.py:532`) looks whether a step runs: its report drives the cancelled plan on
  beside a new one. Two plans are active then, steps of both run at once, an approval can
  start another plan than the one shown, and the end of one hides the other behind mode
  NORMAL.
* (TLC) A swallowed write of the mode (`personal_assistant.py:1713`), and a read that fails
  and passes for NORMAL (1710) when a plan is begun, have the same consequences; after a
  lost write a step can also run twice.

**Tasks.**
* (TLC) `agents/errors.py:4` says that a task is FAILED when its retries are exhausted;
  its row stays PENDING.
* `tasks.py:336`, 369: a cancelled task goes on and ends DONE, and a task that ended
  between check and write is cancelled. The result of a retry is never delivered
  (`sub_daemon.py:144`), nor is one that is empty.
* `builtin_agent.py:311` says that a call that timed out runs on; `wait_for` has
  cancelled it, and the row stays RUNNING until the server restarts. The in-process
  fallback turns DONE into FAILED when storing the result fails. The blocking branch of
  `_dispatch_direct` in `agent.py` imports `SubAgentTask` from the wrong module, which
  fails after the task has run. Sub agents call tools without the guard.
* `runtimes/internal.py:104` resets the status on every start, so `cancel` has no
  effect; the flag of the HTTP runtime is never taken back. Only `builtin_agent.py`
  uses runtimes, and it does not cancel.

**Cron.**
* `cron_daemon.py:140`: a crash between the commit of the next run time and the execution
  loses the run. Executions cut by a crash stay RUNNING, and so do those whose session
  refuses the write of FAILED after it refused another (209). The copy of a job may
  overwrite the next run time of a schedule that was changed meanwhile; DONE becomes
  FAILED when the commit after the notification fails.
* Nobody sends CRON_TRIGGER; the notifications that the PA collects
  (`pa_daemon.py:151`) are never read; `pa:__cron__` is nobody's identity.

**Memory and database.**
* `database.py:226`: after the rollback of a failed commit the second commit carries
  nothing; what was pending is lost although the call returns.
* `personal_assistant.py:664`, 855 drop the last row of the history as the request's own;
  if a summary or a result was inserted after it, or its write was lost, another row is
  dropped and the user's text may be given twice. Nothing then stands for the messages
  which that summary covers.
* `memory_writer.py:315`: when the model answers nothing, the messages are marked all the
  same, with a placeholder in the place of their summary. `sqlite.py:55` caps the 10 000
  rows a compression asks for at 200: older ones are never compressed.
* A summary of messages that were cleared while it was made is inserted after the clear.
  Resetting the token count forgets the turns during the compression. A clear reaches
  neither the copy in another process's ReMeLight, which `get_recent` falls back to, nor
  spares other sessions: `clear_content()` clears them all in memory.

**Prompts.**
* `personal_assistant.py:278` commits what was shown before the model is called (893): a
  request that crashes, is cancelled (884) or fails between leaves sections that are reduced
  to reminders although no model was given their text. A failed read of the states (427)
  passes for a new session: the turns restart at one and what was kept is overwritten.
* `personal_assistant.py:364` says that stage 0 does not change the prompt; the budget
  is enforced after it. `bootstrap` is marked always on but is not in
  `ALWAYS_ON_SECTIONS`. A comment says that a section stays a reminder within its TTL; it
  alternates between reminder and summary.

**Skills.**
* (TLC) `versions.py:15` says that at most three snapshots are kept; each thread of
  `skill_cli` that interleaves may add one, and these accumulate until an install that
  nobody disturbs evicts them. Two interleaved installs leave a row that names another
  version than the files; a directory that was half copied makes later installs fail; a
  first install that crashed leaves files without a row, which cannot be uninstalled.
  The event of a change is sent before its commit.

## 6. What is not modelled, and the plan

Not modelled, and why:

* `MessageBus`, `produce_artifact`, `request_user_input`, the input endpoint of tasks,
  `stream` and `cancel` of the runtimes: nothing calls them outside tests.
* Event buses: a full subscriber queue drops an event; no state depends on it.
* The hybrid and the plain buffer memory, `maybe_flush`, external adapters: the
  application uses ReMeLight over SQLite; the others are caches or write files only.
* What `get_recent` of ReMeLight falls back to, a copy in the memory of the process.
* The contents of packages, prompts, plans and messages, which tools need a
  confirmation, schedules and token counts are abstracted to what they decide.
* Webhook channels, images, provider and tool registries, configuration, the query
  endpoints, logging, schema, migrations, command line and web interface: I/O and
  format conversion without behaviour over time.
* The predecessors of the broker (`scheduler/scheduler.py`, `zmq_bus/manager.py`),
  because nothing starts them.

Built so far are the modules of section 2. What is left, in this order:

1. The composition of `SchedulerClient` with `SchedulerBroker`: workers that outlive
   their scheduler meet those of the next one.
2. The flush of memories to files and the webhook mode of DingTalk.
3. Proofs of the steps that liveness rests on: that the measures of a run (rounds left,
   attempts left, retries left) and of a plan (steps left) decrease.
