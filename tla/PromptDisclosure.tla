-------------------------- MODULE PromptDisclosure --------------------------
(***************************************************************************)
(* What of its context the personal assistant puts into a system prompt    *)
(* (agents/personal_assistant.py, workspace/disclosure_engine.py,          *)
(* workspace/context_builder.py).                                          *)
(*                                                                         *)
(* A prompt is made of sections.  A section is shown in full, as a summary *)
(* or as a one-line reminder; how it was shown last is kept with the       *)
(* session and read again for the next prompt.  Two requests of a session  *)
(* may build a prompt at the same time: each reads the kept states, decides*)
(* and writes them back, in transactions of its own; a read or a write that *)
(* fails is ignored.  Only then is the prompt given to a model, unless the *)
(* request is cancelled, fails or dies first.                              *)
(*                                                                         *)
(* A text is a version number, 0 when there is none, and its hash is the   *)
(* version.  The files, the registry and the results of tasks a text is    *)
(* made of may change at any time: a prompt finds any text in any section. *)
(***************************************************************************)
EXTENDS Integers, Sequences, FiniteSets

CONSTANTS
    Builders,       \* requests that may build a prompt at the same time
    Sections,       \* the section ids of this instance
    Versions,       \* the greatest version of a text
    Asked,          \* the requests of this instance
    Stages,         \* the rollout stages the worker is started with
    MaxFull,        \* prompt_disclosure_max_full_sections_per_turn
    DefaultTTL,     \* prompt_disclosure_default_ttl_turns
    SummaryTTL,     \* DEFAULT_SUMMARY_TTL
    MaxTurns,       \* bound on the prompts of a session
    MaxFailures     \* bound on failed reads and writes, and on requests cut short

\* The sections in the order in which they are decided: sorted by priority,
\* then the two that are appended after the sort.
Order == << "bootstrap", "identity", "soul", "user_profile", "agent_config",
            "subagent_roster", "memory", "current_context", "today_log",
            "heartbeat", "runtime_env", "available_tools", "tool_security",
            "async_task_results", "installed_skills",
            "mention_hint", "plan_context" >>

PlanModes == {"planning", "confirming", "executing"}

\* What the callers ask for: a chat in normal mode, with or without a mention
\* and a question about the past; a step of a plan, whose text may be missing;
\* the making, changing or confirming of a plan.
Requests == {r \in [mode : {"normal"} \cup PlanModes, mention : BOOLEAN,
                    plan : BOOLEAN, recalls : BOOLEAN] :
                /\ r.mode = "normal" => ~ r.plan
                /\ r.mode \in {"planning", "confirming"} => r.plan /\ ~ r.mention}

ASSUME SectionsAssumption == Sections \subseteq {Order[i] : i \in DOMAIN Order}
ASSUME RequestsAssumption == Asked \subseteq Requests
ASSUME BoundsAssumption ==
    /\ Versions \in Nat \ {0} /\ {MaxTurns, MaxFailures} \subseteq Nat
    /\ MaxFull \in Nat \ {0} /\ DefaultTTL \in Nat \ {0}
    /\ SummaryTTL \in Nat \ {0} /\ Stages \subseteq 0 .. 3

Before(s, t) ==
    \E j \in DOMAIN Order : Order[j] = t /\ \E i \in 1 .. j - 1 : Order[i] = s

AlwaysOn == {"identity", "soul", "runtime_env", "tool_security",
             "available_tools"}
Critical == AlwaysOn \cup {"mention_hint", "plan_context"}
Recalled == {"user_profile", "memory", "current_context", "today_log"}
\* The sections the request itself has the text of.
OfRequest == {"mention_hint", "plan_context"}

\* Sections that may be shown in less than full, per rollout stage.
LowRisk == {"today_log", "current_context", "installed_skills",
            "async_task_results"}
Progressive == [stage \in 0 .. 3 |->
    CASE stage = 0 -> {}
      [] stage = 1 -> LowRisk
      [] stage = 2 -> LowRisk \cup {"user_profile", "memory", "agent_config",
                                    "subagent_roster"}
      [] stage = 3 -> Sections]

Modes == {"full", "summary", "reminder"}
NeverShown == [mode |-> "skip", turn |-> 0, ttl |-> 0, hash |-> 0]
SectionStates == [mode : Modes \cup {"skip"}, turn : 0 .. MaxTurns,
                  ttl : {0, DefaultTTL, SummaryTTL}, hash : 0 .. Versions]

VARIABLES
    bundle,     \* SessionRecord.extra.prompt_disclosure: turn and states
    build,      \* [Builders -> what the request has read and decided]
    introduced, \* history: the versions a model was given, full or summary
    undelivered, \* history: those of prompts kept as shown that no model was given
    failures    \* bounded by MaxFailures

vars == <<bundle, build, introduced, undelivered, failures>>

NoText == [s \in Sections |-> 0]
NothingShown == [s \in Sections |-> "absent"]
NoBundle == [turn |-> 0, states |-> [s \in Sections |-> NeverShown]]
Idle == [at |-> "idle", text |-> NoText, turn |-> 0,
         states |-> [s \in Sections |-> NeverShown], shown |-> NothingShown]

Init ==
    /\ bundle = NoBundle
    /\ build = [b \in Builders |-> Idle]
    /\ introduced = [s \in Sections |-> {}]
    /\ undelivered = [s \in Sections |-> {}]
    /\ failures = 0

Failure ==
    /\ failures < MaxFailures
    /\ failures' = failures + 1

-----------------------------------------------------------------------------
(* The engine.                                                             *)

\* The sections there is something to say in.
Present(texts) == {s \in Sections : texts[s] # 0}

Decision(mode, ttl) == [mode |-> mode, ttl |-> ttl]

\* The signals that call for the whole section.
WantedInFull(s, r) ==
    \/ s = "mention_hint" /\ r.mention
    \/ s = "plan_context" /\ r.plan
    \/ s \in {"plan_context", "async_task_results"} /\ r.mode \in PlanModes
    \/ s = "subagent_roster" /\ r.mention
    \/ s \in Recalled /\ r.recalls

\* Mutant: the kept hash is not compared.
SeenAtAll(turn, v, prev) ==
    /\ prev.turn > 0
    /\ turn - prev.turn <= (IF prev.ttl = 0 THEN DefaultTTL ELSE prev.ttl)
    /\ prev.mode \in {"full", "summary"}

\* The reader has seen this text a few turns ago.
SeenLately(turn, v, prev) ==
    /\ prev.hash \in {0, v}
    /\ prev.turn > 0
    /\ turn - prev.turn <= (IF prev.ttl = 0 THEN DefaultTTL ELSE prev.ttl)
    /\ prev.mode \in {"full", "summary"}

\* The section that lists the results of tasks exists when there are some, and
\* is then never less than a summary.
ReportsResults(s) == s = "async_task_results"

\* decide: the first rule that applies.
Decide(s, v, turn, r, prev) ==
    CASE s \in AlwaysOn -> Decision("full", 0)
      [] s \notin AlwaysOn /\ WantedInFull(s, r) -> Decision("full", DefaultTTL)
      [] OTHER ->
            IF ~ ReportsResults(s) /\ SeenLately(turn, v, prev)
            THEN Decision("reminder", IF prev.ttl = 0 THEN DefaultTTL
                                                      ELSE prev.ttl)
            ELSE Decision("summary", SummaryTTL)

\* _apply_rollout_stage
RolledOut(decisions, stage) ==
    [s \in DOMAIN decisions |->
        IF s \in Progressive[stage] THEN decisions[s]
        ELSE [decisions[s] EXCEPT !.mode = "full"]]

\* Mutant: the critical sections wait their turn like the others.
BudgetedInOrder(decisions) ==
    LET full == {s \in DOMAIN decisions : decisions[s].mode = "full"}
        kept(s) == Cardinality({t \in full : Before(t, s)}) < MaxFull
    IN  [s \in DOMAIN decisions |->
            IF s \in full /\ ~ kept(s) THEN Decision("summary", SummaryTTL)
                                       ELSE decisions[s]]

\* enforce_full_budget: the critical sections first, then the others in their
\* order while there is room.
Budgeted(decisions) ==
    LET full == {s \in DOMAIN decisions : decisions[s].mode = "full"}
        kept(s) == \/ s \in Critical
                   \/ Cardinality((full \cap Critical)
                         \cup {t \in full : Before(t, s)}) < MaxFull
    IN  [s \in DOMAIN decisions |->
            IF s \in full /\ ~ kept(s) THEN Decision("summary", SummaryTTL)
                                       ELSE decisions[s]]

Decided(texts, r, stage, turn, states) ==
    Budgeted(RolledOut(
        [s \in Present(texts) |-> Decide(s, texts[s], turn, r, states[s])],
        stage))

-----------------------------------------------------------------------------
(* Building a prompt.                                                      *)

\* What the code itself and the request have to say.
Brought(r) == [s \in Sections \cap (AlwaysOn \cup OfRequest) |->
    IF \/ s \in AlwaysOn
       \/ s = "mention_hint" /\ r.mention
       \/ s = "plan_context" /\ r.plan
    THEN 1 ELSE 0]

\* Everything a request finds to say.
Collected(r) ==
    {[s \in Sections |-> IF s \in DOMAIN Brought(r) THEN Brought(r)[s]
                                                    ELSE t[s]] :
        t \in [Sections \ (AlwaysOn \cup OfRequest) -> 0 .. Versions]}

\* The engine is switched off: everything in full, nothing is kept.  (A prompt of
\* this kind that reaches no model leaves nothing behind.)
BuildLegacy(b) ==
    /\ build[b].at = "idle"
    /\ \E r \in Asked : \E t \in Collected(r) :
        introduced' = [s \in Sections |->
            IF s \in Present(t) THEN introduced[s] \cup {t[s]}
                                ELSE introduced[s]]
    /\ UNCHANGED <<bundle, build, undelivered, failures>>

Rendered(t, decisions) ==
    [s \in Sections |-> IF s \in Present(t) THEN decisions[s].mode
                                           ELSE "absent"]

\* The states to keep: what is shown now, else what was kept.
Noted(t, decisions, turn, states) ==
    [s \in Sections |->
        IF s \in Present(t)
        THEN [mode |-> decisions[s].mode, turn |-> turn,
              ttl |-> IF decisions[s].ttl > 0 THEN decisions[s].ttl
                                              ELSE states[s].ttl,
              hash |-> t[s]]
        ELSE states[s]]

\* The texts are collected, the kept states read, every section decided and
\* rendered.  If the states cannot be read, the request goes on as if there were
\* none: the turns count from one again, and Save drops what was kept.
DecideSections(b) ==
    /\ build[b].at = "idle"
    /\ bundle.turn < MaxTurns
    /\ \E r \in Asked : \E t \in Collected(r) :
       \E stage \in Stages : \E read \in {bundle, NoBundle} :
        /\ IF read = bundle THEN UNCHANGED failures ELSE Failure
        /\ LET turn == read.turn + 1
               decisions == Decided(t, r, stage, turn, read.states)
           IN  build' = [build EXCEPT ![b] =
                   [at |-> "saving", text |-> t, turn |-> turn,
                    states |-> Noted(t, decisions, turn, read.states),
                    shown |-> Rendered(t, decisions)]]
    /\ UNCHANGED <<bundle, introduced, undelivered>>

\* The states are committed before the prompt goes anywhere.
Save(b) ==
    /\ build[b].at = "saving"
    /\ bundle' = [turn |-> build[b].turn, states |-> build[b].states]
    /\ build' = [build EXCEPT ![b].at = "kept"]
    /\ UNCHANGED <<introduced, undelivered, failures>>

\* The row is gone or the write keeps failing; the error is swallowed.
SaveFails(b) ==
    /\ build[b].at = "saving" /\ Failure
    /\ build' = [build EXCEPT ![b].at = "unkept"]
    /\ UNCHANGED <<bundle, introduced, undelivered>>

\* What a prompt that was built tells of section s, other than by a reminder.
Tells(b, s) == IF build[b].shown[s] \in {"full", "summary"} THEN {build[b].text[s]} ELSE {}

\* The model is called with the prompt.
HandOver(b) ==
    /\ build[b].at \in {"kept", "unkept"}
    /\ introduced' = [s \in Sections |-> introduced[s] \cup Tells(b, s)]
    /\ build' = [build EXCEPT ![b] = Idle]
    /\ UNCHANGED <<bundle, undelivered, failures>>

\* The worker dies, the request is cancelled at the checkpoint before the call, or
\* something between, or the call itself, fails: no model has the prompt, but the
\* states that were committed stay.
Drop(b) ==
    /\ build[b].at # "idle" /\ Failure
    /\ undelivered' = IF build[b].at # "kept" THEN undelivered
                      ELSE [s \in Sections |-> undelivered[s] \cup Tells(b, s)]
    /\ build' = [build EXCEPT ![b] = Idle]
    /\ UNCHANGED <<bundle, introduced>>

Next == \E b \in Builders :
    \/ BuildLegacy(b) \/ DecideSections(b)
    \/ Save(b) \/ SaveFails(b) \/ HandOver(b) \/ Drop(b)

Spec == Init /\ [][Next]_vars

-----------------------------------------------------------------------------
(* Properties.                                                             *)

Shown(b, mode) == {s \in Sections : build[b].shown[s] = mode}

\* The states of the variables.
Builds == [at : {"idle", "saving", "kept", "unkept"},
           text : [Sections -> 0 .. Versions], turn : 0 .. MaxTurns,
           states : [Sections -> SectionStates],
           shown : [Sections -> Modes \cup {"absent"}]]
TypeOK ==
    /\ bundle \in [turn : 0 .. MaxTurns, states : [Sections -> SectionStates]]
    /\ build \in [Builders -> Builds]
    /\ introduced \in [Sections -> SUBSET (1 .. Versions)]
    /\ undelivered \in [Sections -> SUBSET (1 .. Versions)]
    /\ failures \in 0 .. MaxFailures

\* A prompt has no more sections in full than the budget allows, unless the
\* critical ones alone are more, whatever the rollout stage made full
\* (enforce_full_budget runs after _apply_rollout_stage).  What the budget takes
\* away is never the directive of a mention or the plan a request is about.
BudgetRespected ==
    \A b \in Builders :
        /\ \/ Cardinality(Shown(b, "full")) <= MaxFull
           \/ Shown(b, "full") \subseteq Critical
        /\ \A s \in OfRequest \cap Sections :
              build[b].text[s] # 0 => build[b].shown[s] = "full"

\* The texts of section s that were kept as shown with some reason: a model was
\* given them, or a prompt with them is on its way there or was dropped on it.
Told(s) ==
    introduced[s] \cup undelivered[s]
    \cup UNION {Tells(b, s) : b \in {c \in Builders : build[c].at = "kept"}}

\* A section is reduced to a reminder only when the very text it stands for was
\* in an earlier prompt of the session, in full or as a summary, which a model was
\* given unless its request ended between the commit and the call; although texts
\* change between two prompts, two requests overwrite each other's states and
\* reads and writes fail.
ReminderWasIntroduced ==
    \A b \in Builders : \A s \in Shown(b, "reminder") : build[b].text[s] \in Told(s)
=============================================================================
