---------------------------- MODULE SessionMemory ----------------------------
(***************************************************************************)
(* The memory of one session: its rows of memory_records, the turns of the  *)
(* assistant that add and read them (agents/base.py,                        *)
(* memory/reme_light_adapter.py), the compression that runs beside them     *)
(* (workspace/memory_writer.py), results that other processes add, and the  *)
(* requests that clear it.                                                  *)
(*                                                                         *)
(* A step is one transaction, or what happens between two of them.  Token    *)
(* counts are abstracted to small numbers.                                  *)
(***************************************************************************)
EXTENDS Naturals, FiniteSets, SequencesExt

CONSTANTS
    MaxRecords,      \* bound: messages ever written
    MaxClears,       \* bound: requests that clear the memory
    MaxFaults,       \* bound: failed writes and model calls, crashes
    KEEP_RECENT,     \* of memory_writer.py
    HistoryLimit,    \* rows that a turn reads
    SqliteLimit,     \* rows that a compression loads (memory_sqlite_limit)
    Threshold,       \* tokens at which a session is compressed
    Reset            \* COMPRESS_RESET_TOKENS

ASSUME MemoryAssumption ==
    /\ {MaxRecords, MaxClears, MaxFaults, Threshold, Reset} \subseteq Nat
    /\ {KEEP_RECENT, HistoryLimit, SqliteLimit} \subseteq Nat \ {0}

VARIABLES
    table,    \* the committed rows of the session, the oldest first
    next,     \* the id of the next row; the ids of rows written are below
    tokens,   \* context_tokens of the session
    turn,     \* the chat that the assistant's process works on: its own row, if
              \* it was not lost, the rows it read and those it gives to the model
    task,     \* its background compressions
    active,   \* the session is in _active_compressions
    clears,   \* bounded by MaxClears
    faults    \* bounded by MaxFaults

memoryVars == <<table, next, tokens, turn, task, active, clears, faults>>

Id == 0 .. MaxRecords - 1
\* Rows of the type context_summary; a placeholder stands for the summary that an
\* empty answer of the model did not give.
Summaries == {"summary", "placeholder"}
Kind == {"user", "assistant", "result"} \cup Summaries
Message == [id : Id, kind : Kind, compressed : BOOLEAN, covers : SUBSET Id]

\* At most two compressions run at once, if the guard fails.
Task == {1, 2}
NoTask == [at |-> "none", old |-> {}]
NoTurn == [at |-> "idle", own |-> {}, read |-> {}, given |-> {}]

MemoryTypeOK ==
    /\ table \in Seq(Message)
    /\ next \in 0 .. MaxRecords
    /\ tokens \in 0 .. Reset + MaxRecords
    /\ turn \in [at : {"idle", "asked", "thinking", "answered"}, own : SUBSET Id,
                read : SUBSET Message, given : SUBSET Message]
    /\ task \in [Task -> [at : {"none", "loading", "asking"}, old : SUBSET Id]]
    /\ active \in BOOLEAN
    /\ clears \in 0 .. MaxClears
    /\ faults \in 0 .. MaxFaults

MemoryInit ==
    /\ table = <<>>
    /\ next = 0
    /\ tokens = 0
    /\ turn = NoTurn
    /\ task = [t \in Task |-> NoTask]
    /\ active = FALSE
    /\ clears = 0
    /\ faults = 0

Fault ==
    /\ faults < MaxFaults
    /\ faults' = faults + 1

Ids(messages) == {messages[i].id : i \in DOMAIN messages}

\* get_recent: where the last n rows are.
Recent(n) == {i \in DOMAIN table : i > Len(table) - n}

New(kind, covers) == [id |-> next, kind |-> kind, compressed |-> FALSE, covers |-> covers]

Running == {t \in Task : task[t].at # "none"}

\* Bound: there is a row to come, besides the summaries being written.
Room == next + Cardinality(Running) < MaxRecords

-----------------------------------------------------------------------------
(* A turn: reply_stream *)

\* memory.add in a transaction of its own.  An error of the database is logged
\* and forgotten, and a commit that is retried after a rollback commits nothing.
Remember(kind) ==
    /\ Room
    /\ next' = next + 1
    /\ \/ table' = Append(table, New(kind, {})) /\ UNCHANGED faults
       \/ UNCHANGED table /\ Fault

RememberUser ==
    /\ turn.at = "idle"
    /\ Remember("user")
    /\ turn' = [NoTurn EXCEPT !.at = "asked", !.own = Ids(table') \ Ids(table)]
    /\ UNCHANGED <<tokens, task, active, clears>>

\* _get_history_with_meta: of the last rows, those that count.
Counting ==
    {i \in Recent(HistoryLimit) : table[i].compressed => table[i].kind \in Summaries}

\* The history is read, all but its last row goes to the model, which may be
\* asked: the last one is taken for the request's own, whose text is added anew.
ReadHistory ==
    /\ turn.at = "asked"
    /\ turn' = [turn EXCEPT
                  !.at = "thinking",
                  !.read = {table[i] : i \in Recent(HistoryLimit)},
                  !.given = {table[i] : i \in {k \in Counting : \E last \in Counting : last > k}}]
    /\ UNCHANGED <<table, next, tokens, task, active, clears, faults>>

\* The answer, or what there is of it if the user stops the turn.
RememberAssistant ==
    /\ turn.at = "thinking"
    /\ turn' = [turn EXCEPT !.at = "answered"]
    /\ Remember("assistant")
    /\ UNCHANGED <<tokens, task, active, clears>>

TurnFails ==
    /\ turn.at # "idle"
    /\ turn' = NoTurn
    /\ Fault
    /\ UNCHANGED <<table, next, tokens, task, active, clears>>

\* Mutant: nobody asks whether the session is being compressed.
MayCompressAgain == TRUE

MayCompress == ~active

\* _record_turn_usage, maybe_compress: the tokens of the turn are added, and if
\* there are too many a compression begins, unless one runs.
RecordUsage ==
    /\ turn.at = "answered" /\ Room
    /\ turn' = NoTurn
    /\ tokens' = tokens + 1
    /\ IF tokens' >= Threshold /\ MayCompress
       THEN /\ active' = TRUE
            /\ \E t \in Task \ Running : task' = [task EXCEPT ![t].at = "loading"]
       ELSE UNCHANGED <<task, active>>
    /\ UNCHANGED <<table, next, clears, faults>>

-----------------------------------------------------------------------------
(* MemoryWriter._compress *)

\* What was loaded, is not among the last KEEP_RECENT rows and not compressed yet.
Old == {table[i].id : i \in {k \in Recent(SqliteLimit) \ Recent(KEEP_RECENT) : ~table[k].compressed}}

EndTask(t) ==
    /\ task' = [task EXCEPT ![t] = NoTask]
    /\ active' = FALSE

Load(t) ==
    /\ task[t].at = "loading"
    /\ IF Cardinality(Recent(SqliteLimit)) <= KEEP_RECENT \/ Old = {}
       THEN EndTask(t)
       ELSE /\ task' = [task EXCEPT ![t] = [at |-> "asking", old |-> Old]]
            /\ UNCHANGED active
    /\ UNCHANGED <<table, next, tokens, turn, clears, faults>>

\* Mutant: the rows are merged into the session instead of updated.
MarkMerging(ids) ==
    [i \in DOMAIN table |-> [table[i] EXCEPT !.compressed = @ \/ table[i].id \in ids]]
    \o SetToSeq({[id |-> k, kind |-> "user", compressed |-> TRUE, covers |-> {}] :
                    k \in ids \ Ids(table)})

\* mark_compressed: rows that have gone are passed over.
Mark(ids) == [i \in DOMAIN table |-> [table[i] EXCEPT !.compressed = @ \/ table[i].id \in ids]]

\* Mutant: the rows are marked in a transaction of their own.
FinishInTwo(t) ==
    /\ task[t].at = "asking"
    /\ table' = Mark(task[t].old)
    /\ tokens' = Reset
    /\ EndTask(t)
    /\ UNCHANGED <<next, turn, clears, faults>>

\* The model has answered, or has answered nothing, which is no reason to leave the
\* rows as they are; marks, summary and tokens are one transaction.  The summary is
\* written even if the memory was cleared in the meantime.
Finish(t) ==
    /\ task[t].at = "asking"
    /\ \E kind \in Summaries :
          /\ table' = Append(Mark(task[t].old), New(kind, task[t].old))
          /\ IF kind = "placeholder" THEN Fault ELSE UNCHANGED faults
    /\ next' = next + 1
    /\ tokens' = Reset
    /\ EndTask(t)
    /\ UNCHANGED <<turn, clears>>

\* Mutant: the guard is taken back only where the compression succeeds.
FailActive(t) ==
    /\ task[t].at # "none" /\ Fault
    /\ task' = [task EXCEPT ![t] = NoTask]
    /\ UNCHANGED <<table, next, tokens, turn, active, clears>>

\* The model or the database fails.
Fail(t) ==
    /\ task[t].at # "none" /\ Fault
    /\ EndTask(t)
    /\ UNCHANGED <<table, next, tokens, turn, clears>>

-----------------------------------------------------------------------------
(* Others *)

\* The broker, the cron process or a tool adds a result.
AddResult ==
    /\ Room
    /\ table' = Append(table, New("result", {}))
    /\ next' = next + 1
    /\ UNCHANGED <<tokens, turn, task, active, clears, faults>>

\* DELETE of a session or of its memory, "/clear" in a channel.
Clear ==
    /\ clears < MaxClears
    /\ clears' = clears + 1
    /\ table' = <<>>
    /\ UNCHANGED <<next, tokens, turn, task, active, faults>>

\* The assistant's process crashes or is reaped, and another one follows.
Crash ==
    /\ Fault
    /\ turn' = NoTurn
    /\ task' = [t \in Task |-> NoTask]
    /\ active' = FALSE
    /\ UNCHANGED <<table, next, tokens, clears>>

-----------------------------------------------------------------------------

Turn == RememberUser \/ ReadHistory \/ RememberAssistant \/ TurnFails \/ RecordUsage
Compress(t) == Load(t) \/ Finish(t) \/ Fail(t)

MemoryNext == Turn \/ (\E t \in Task : Compress(t)) \/ AddResult \/ Clear \/ Crash

MemorySpec == MemoryInit /\ [][MemoryNext]_memoryVars

\* Calls of the model have timeouts.
Fairness == \A t \in Task : WF_memoryVars(Compress(t))

FairMemorySpec == MemorySpec /\ Fairness

-----------------------------------------------------------------------------
(* Properties *)

\* A compressed message that a turn reads and keeps from the model is summarised in
\* what it gives, or an empty answer has left a placeholder there; although turns,
\* results and clears go on during the compression.  Only a summary that came after
\* the request's own row, or while that was lost, may be the last row and be dropped.
CompressedIsSummarised ==
    \A m \in turn.read : m.compressed /\ m.kind \notin Summaries =>
        \E s \in turn.read :
            /\ s.kind \in Summaries /\ m.id \in s.covers
            /\ s \in turn.given \/ \A own \in turn.own : own < s.id

\* No message is summarised twice: a second compression of the session does not
\* begin before the first has ended, and leaves out what that has marked.
SummarisedOnce ==
    \A i, k \in DOMAIN table : i # k => table[i].covers \cap table[k].covers = {}

\* A row is written once; what was cleared while a compression held on to it does
\* not come back when it is marked.
ClearedStaysCleared ==
    [][\A m \in Range(table') : m.id \in Ids(table) \/ m.id >= next]_memoryVars

\* A session can be compressed again, whatever became of the last attempt.
CompressionEnds == active ~> ~active

-----------------------------------------------------------------------------
(* The inductive invariant behind CompressedIsSummarised and SummarisedOnce *)

Row == [id : Nat, kind : Kind, compressed : BOOLEAN, covers : SUBSET Nat]

Types ==
    /\ table \in Seq(Row)
    /\ next \in Nat
    /\ task \in [Task -> [at : {"none", "loading", "asking"}, old : SUBSET Nat]]

\* Nothing refers to a row that is still to be written.
BelowNext ==
    /\ \A i \in DOMAIN table :
          table[i].id < next /\ \A x \in table[i].covers : x < next
    /\ \A t \in Task : \A x \in task[t].old : x < next

\* Rows are appended.
InOrder == \A i, k \in DOMAIN table : i < k => table[i].id < table[k].id

\* A row that a summary stands for is marked, if it is there.
CoveredIsMarked ==
    \A i, k \in DOMAIN table : table[i].id \in table[k].covers => table[i].compressed

\* A marked message has its summary behind it: the summary is appended.
MarkedHasSummary ==
    \A i \in DOMAIN table :
        table[i].compressed /\ table[i].kind \notin Summaries =>
            \E k \in DOMAIN table :
                k > i /\ table[k].kind \in Summaries /\ table[i].id \in table[k].covers

\* The guard of _active_compressions holds: one compression at a time.
OneCompression ==
    /\ \A t \in Running : active
    /\ \A t, u \in Running : t = u

\* What is being summarised has no summary yet.
AskedIsNew ==
    \A t \in Task : \A k \in DOMAIN table :
        task[t].at = "asking" => task[t].old \cap table[k].covers = {}

RowInv == InOrder /\ CoveredIsMarked /\ MarkedHasSummary /\ SummarisedOnce
MemoryInv == Types /\ BelowNext /\ RowInv /\ OneCompression /\ AskedIsNew

TurnType ==
    turn \in [at : {"idle", "asked", "thinking", "answered"}, own : SUBSET Nat,
             read : SUBSET Row, given : SUBSET Row]

\* The request's own row stays where it is among the rows, unless they are all newer.
OwnIsThere ==
    turn.at = "asked" =>
        \A own \in turn.own :
            /\ own < next
            /\ \A i \in DOMAIN table : table[i].id <= own =>
                  \E k \in DOMAIN table : table[k].id = own /\ table[k].kind \notin Summaries

TurnInv == TurnType /\ OwnIsThere /\ CompressedIsSummarised
=============================================================================
