----------------------------- MODULE ContextProofs -----------------------------
(***************************************************************************)
(* Proofs about what a model is given with a request: the system prompt    *)
(* (PromptDisclosure) and the history (SessionMemory).                     *)
(*                                                                         *)
(* A prompt never reduces to a reminder a text that no prompt has shown;   *)
(* that prompt was given to a model, or its request ended between the      *)
(* commit of the states and the call.  The rules only compare the kept     *)
(* hash, so the proof shows that what is kept as shown, in the session or  *)
(* in a request about to write it, stands for such a text.  A prompt keeps *)
(* to its budget.                                                          *)
(*                                                                         *)
(* A history leaves out only messages it has a summary of.  The two        *)
(* modules share no variable; each has its own specification (Spec and     *)
(* MemorySpec).                                                            *)
(***************************************************************************)
EXTENDS PromptDisclosure, SessionMemory, FiniteSetTheorems, WellFoundedInduction, TLAPS

\* What is kept of section s as shown is a text that a prompt has shown.
Known(state, s) ==
    state.turn > 0 /\ state.mode \in {"full", "summary"} => state.hash \in Told(s)

BundleInv == \A s \in Sections : Known(bundle.states[s], s)

\* What a request has built: what it is about to keep is what it shows, or what was
\* kept, and its reminders are of texts that were shown.
BuilderOk(b) ==
    /\ build[b].at = "saving" =>
         \A s \in Sections :
            IF build[b].shown[s] = "absent" THEN Known(build[b].states[s], s)
            ELSE /\ build[b].states[s].mode = build[b].shown[s]
                 /\ build[b].states[s].hash = build[b].text[s]
    /\ \A s \in Sections :
         /\ build[b].shown[s] # "absent" => build[b].text[s] # 0
         /\ build[b].shown[s] = "reminder" => build[b].text[s] \in Told(s)

BuildInv == \A b \in Builders : BuilderOk(b)

IInv == TypeOK /\ BundleInv /\ BuildInv

-----------------------------------------------------------------------------
(* The engine.                                                             *)

\* The texts a request collects are versions.
LEMMA CollectedAreTexts ==
    ASSUME NEW r, NEW t \in Collected(r)
    PROVE  t \in [Sections -> 0 .. Versions]
<1>1. PICK u \in [Sections \ (AlwaysOn \cup OfRequest) -> 0 .. Versions] :
        t = [s \in Sections |-> IF s \in DOMAIN Brought(r)
                                THEN Brought(r)[s] ELSE u[s]]
  BY DEF Collected
<1>2. Brought(r) \in [Sections \cap (AlwaysOn \cup OfRequest) -> 0 .. Versions]
  BY BoundsAssumption DEF Brought
<1> QED
  BY <1>1, <1>2

\* A decision is a mode and a time to live.
Decisions == [mode : Modes, ttl : {0, DefaultTTL, SummaryTTL}]

LEMMA DecideIsDecision ==
    ASSUME NEW s \in Sections, NEW v, NEW now, NEW r,
           NEW prev \in SectionStates
    PROVE  Decide(s, v, now, r, prev) \in Decisions
<1>1. prev.ttl \in {0, DefaultTTL, SummaryTTL}
  BY DEF SectionStates
<1>2. CASE s \in AlwaysOn
  BY <1>2 DEF Decide, Decision, Decisions, Modes
<1>3. CASE s \notin AlwaysOn /\ WantedInFull(s, r)
  BY <1>3 DEF Decide, Decision, Decisions, Modes
<1>4. CASE s \notin AlwaysOn /\ ~ WantedInFull(s, r)
  BY <1>1, <1>4 DEF Decide, Decision, Decisions, Modes
<1> QED
  BY <1>2, <1>3, <1>4

\* The engine decides for a reminder only when the kept hash agrees.
LEMMA DecideReminds ==
    ASSUME NEW s, NEW v, NEW now, NEW r, NEW prev,
           Decide(s, v, now, r, prev).mode = "reminder"
    PROVE  SeenLately(now, v, prev)
<1>1. CASE s \in AlwaysOn
  BY <1>1 DEF Decide, Decision
<1>2. CASE s \notin AlwaysOn /\ WantedInFull(s, r)
  BY <1>2 DEF Decide, Decision
<1>3. CASE s \notin AlwaysOn /\ ~ WantedInFull(s, r)
  BY <1>3 DEF Decide, Decision
<1> QED
  BY <1>1, <1>2, <1>3

\* Neither the rollout stage nor the budget turns anything into a reminder.
LEMMA DecidedProperties ==
    ASSUME NEW t \in [Sections -> 0 .. Versions], NEW r, NEW stage, NEW now,
           NEW states \in [Sections -> SectionStates], NEW s \in Present(t)
    PROVE  /\ Decided(t, r, stage, now, states)[s] \in Decisions
           /\ Decided(t, r, stage, now, states)[s].mode = "reminder"
                => SeenLately(now, t[s], states[s])
<1> DEFINE first == [q \in Present(t) |-> Decide(q, t[q], now, r, states[q])]
           rolled == RolledOut(first, stage)
           final == Budgeted(rolled)
<1>1. s \in Sections /\ states[s] \in SectionStates
  BY DEF Present
<1>2. first[s] = Decide(s, t[s], now, r, states[s])
  OBVIOUS
<1>3. first[s] \in Decisions
  BY <1>1, <1>2, DecideIsDecision
<1>4. rolled[s] = first[s] \/ rolled[s] = [first[s] EXCEPT !.mode = "full"]
  BY DEF RolledOut
<1>5. s \in DOMAIN rolled
  BY DEF RolledOut
<1>6. final[s] = rolled[s] \/ final[s] = Decision("summary", SummaryTTL)
  BY <1>5 DEF Budgeted
<1>7. rolled[s] \in Decisions /\ (rolled[s].mode = "reminder"
                                    => first[s].mode = "reminder")
  <2>1. CASE rolled[s] = first[s]
    BY <2>1, <1>3
  <2>2. CASE rolled[s] = [first[s] EXCEPT !.mode = "full"]
    BY <2>2, <1>3 DEF Decisions, Modes
  <2> QED
    BY <1>4, <2>1, <2>2
<1>8. final[s] \in Decisions /\ (final[s].mode = "reminder"
                                    => first[s].mode = "reminder")
  <2>1. CASE final[s] = rolled[s]
    BY <2>1, <1>7
  <2>2. CASE final[s] = Decision("summary", SummaryTTL)
    BY <2>2 DEF Decision, Decisions, Modes
  <2> QED
    BY <1>6, <2>1, <2>2
<1>9. Decided(t, r, stage, now, states)[s] = final[s]
  BY DEF Decided
<1>10. first[s].mode = "reminder" => SeenLately(now, t[s], states[s])
  BY <1>2, DecideReminds
<1> HIDE DEF final, rolled, first
<1> QED
  BY <1>8, <1>9, <1>10

-----------------------------------------------------------------------------
(* The steps.                                                              *)

LEMMA IdleIsBuild == Idle \in Builds /\ NoBundle.states \in [Sections -> SectionStates]
<1>1. NeverShown \in SectionStates
  BY BoundsAssumption DEF NeverShown, SectionStates
<1> QED
  BY <1>1, BoundsAssumption DEF Idle, Builds, NoText, NothingShown, NoBundle

\* Nothing that was never kept claims to have been shown.
LEMMA NothingIsKnown == \A s \in Sections : Known(NoBundle.states[s], s)
  BY DEF Known, NoBundle, NeverShown

LEMMA InitEstablishes == Init => IInv
<1> SUFFICES ASSUME Init PROVE IInv
  OBVIOUS
<1>1. TypeOK
  BY IdleIsBuild, BoundsAssumption DEF TypeOK, Init, NoBundle
<1>2. BundleInv
  BY NothingIsKnown DEF BundleInv, Init
<1>3. BuildInv
  BY DEF BuildInv, BuilderOk, Init, Idle, NothingShown
<1> QED
  BY <1>1, <1>2, <1>3 DEF IInv

\* What was told stays told: a prompt on its way is given to a model or dropped.
LEMMA ToldGrows ==
    ASSUME \A s \in Sections : introduced[s] \subseteq introduced'[s]
                              /\ undelivered[s] \subseteq undelivered'[s],
           \A b \in Builders : build[b].at = "kept" =>
               \/ build'[b] = build[b]
               \/ \A s \in Sections : Tells(b, s) \subseteq introduced'[s] \cup undelivered'[s]
    PROVE  \A s \in Sections : Told(s) \subseteq Told(s)'
<1> SUFFICES ASSUME NEW s \in Sections, NEW v \in Told(s) PROVE v \in Told(s)'
  OBVIOUS
<1>1. CASE v \in introduced[s] \cup undelivered[s]
  BY <1>1 DEF Told
<1>2. ASSUME NEW b \in Builders, build[b].at = "kept", v \in Tells(b, s)
      PROVE  v \in Told(s)'
  <2>1. CASE build'[b] = build[b]
    <3>1. v \in Tells(b, s)' /\ build'[b].at = "kept"
      BY <1>2, <2>1 DEF Tells
    <3> QED
      BY <3>1 DEF Told
  <2>2. CASE v \in introduced'[s] \cup undelivered'[s]
    BY <2>2 DEF Told
  <2> QED
    BY <1>2, <2>1, <2>2
<1> QED
  BY <1>1, <1>2 DEF Told

LEMMA BundleStays ==
    ASSUME BundleInv, UNCHANGED bundle, \A s \in Sections : Told(s) \subseteq Told(s)'
    PROVE  BundleInv'
  BY DEF BundleInv, Known

\* A request that does nothing, gets further or ends has nothing new to keep or to
\* remind of.
LEMMA BuilderStays ==
    ASSUME IInv, NEW b \in Builders, \A s \in Sections : Told(s) \subseteq Told(s)',
           \/ build'[b] = build[b]
           \/ build'[b] = Idle
           \/ \E at \in {"kept", "unkept"} : build'[b] = [build[b] EXCEPT !.at = at]
    PROVE  BuilderOk(b)'
<1>1. BuilderOk(b) /\ build[b] \in Builds
  BY DEF IInv, BuildInv, TypeOK
<1>2. CASE build'[b] = build[b]
  BY <1>1, <1>2 DEF BuilderOk, Known
<1>3. CASE build'[b] = Idle
  BY <1>3 DEF BuilderOk, Idle, NothingShown
<1>4. CASE \E at \in {"kept", "unkept"} : build'[b] = [build[b] EXCEPT !.at = at]
  <2>1. /\ build'[b].at # "saving" /\ build'[b].shown = build[b].shown
        /\ build'[b].text = build[b].text
    BY <1>1, <1>4 DEF Builds
  <2> QED
    BY <1>1, <2>1 DEF BuilderOk
<1> QED
  BY <1>2, <1>3, <1>4

\* What a prompt tells is a version.
LEMMA TellsVersions ==
    ASSUME IInv, NEW b \in Builders, NEW s \in Sections
    PROVE  Tells(b, s) \subseteq 1 .. Versions
<1>1. build[b].text[s] \in 0 .. Versions
  BY DEF IInv, TypeOK, Builds
<1>2. build[b].shown[s] # "absent" => build[b].text[s] # 0
  BY DEF IInv, BuildInv, BuilderOk
<1> QED
  BY <1>1, <1>2, BoundsAssumption DEF Tells

LEMMA LegacyKeeps ==
    ASSUME IInv, NEW b \in Builders, BuildLegacy(b)
    PROVE  IInv'
<1>1. UNCHANGED <<bundle, build, undelivered, failures>>
  BY DEF BuildLegacy
<1>2. PICK r \in Asked : \E t \in Collected(r) :
        introduced' = [s \in Sections |->
            IF s \in Present(t) THEN introduced[s] \cup {t[s]}
                                ELSE introduced[s]]
  BY DEF BuildLegacy
<1>3. PICK t \in Collected(r) :
        introduced' = [s \in Sections |->
            IF s \in Present(t) THEN introduced[s] \cup {t[s]}
                                ELSE introduced[s]]
  BY <1>2
<1>4. t \in [Sections -> 0 .. Versions]
  BY CollectedAreTexts
<1>5. introduced' \in [Sections -> SUBSET (1 .. Versions)]
  <2>1. \A s \in Present(t) : t[s] \in 1 .. Versions
    BY <1>4, BoundsAssumption DEF Present
  <2> QED
    BY <2>1, <1>3 DEF IInv, TypeOK
<1>6. TypeOK'
  BY <1>1, <1>5 DEF IInv, TypeOK
<1>7. \A s \in Sections : Told(s) \subseteq Told(s)'
  BY <1>1, <1>3, ToldGrows
<1>8. BundleInv'
  BY <1>1, <1>7, BundleStays DEF IInv
<1>9. BuildInv'
  BY <1>1, <1>7, BuilderStays DEF BuildInv
<1> QED
  BY <1>6, <1>8, <1>9 DEF IInv

LEMMA DecideKeeps ==
    ASSUME IInv, NEW b \in Builders, DecideSections(b)
    PROVE  IInv'
<1>1. /\ UNCHANGED <<bundle, introduced, undelivered>>
      /\ bundle.turn < MaxTurns
      /\ build[b].at = "idle"
      /\ build \in [Builders -> Builds]
      /\ bundle.turn \in 0 .. MaxTurns
      /\ bundle.states \in [Sections -> SectionStates]
      /\ failures \in 0 .. MaxFailures
  BY DEF DecideSections, IInv, TypeOK
<1> DEFINE now(read) == read.turn + 1
           D(t, r, stage, read) == Decided(t, r, stage, now(read), read.states)
           B(t, d, read) == [at |-> "saving", text |-> t, turn |-> now(read),
                             states |-> Noted(t, d, now(read), read.states),
                             shown |-> Rendered(t, d)]
<1>a. PICK r \in Asked : \E t \in Collected(r) :
        \E stage \in Stages : \E read \in {bundle, NoBundle} :
        /\ IF read = bundle THEN UNCHANGED failures ELSE Failure
        /\ build' = [build EXCEPT ![b] = B(t, D(t, r, stage, read), read)]
  BY DEF DecideSections
<1>b. PICK t \in Collected(r) : \E stage \in Stages : \E read \in {bundle, NoBundle} :
        /\ IF read = bundle THEN UNCHANGED failures ELSE Failure
        /\ build' = [build EXCEPT ![b] = B(t, D(t, r, stage, read), read)]
  BY <1>a
<1>c. PICK stage \in Stages, read \in {bundle, NoBundle} :
        /\ IF read = bundle THEN UNCHANGED failures ELSE Failure
        /\ build' = [build EXCEPT ![b] = B(t, D(t, r, stage, read), read)]
  BY <1>b
<1>2. /\ read.states \in [Sections -> SectionStates] /\ read.turn \in 0 .. MaxTurns
      /\ read.turn < MaxTurns
      /\ \A s \in Sections : Known(read.states[s], s)
  <2>1. CASE read = bundle
    BY <1>1, <2>1 DEF IInv, BundleInv
  <2>2. CASE read = NoBundle
    BY <1>1, <2>2, IdleIsBuild, NothingIsKnown, BoundsAssumption DEF NoBundle
  <2> QED
    BY <2>1, <2>2
<1>3. t \in [Sections -> 0 .. Versions]
  BY CollectedAreTexts
<1> DEFINE d == D(t, r, stage, read)
           n == now(read)
           shown == Rendered(t, d)
           noted == Noted(t, d, n, read.states)
<1>4. \A s \in Present(t) :
        /\ d[s] \in Decisions
        /\ d[s].mode = "reminder" => SeenLately(n, t[s], read.states[s])
  BY <1>2, <1>3, DecidedProperties
<1>5. n \in 1 .. MaxTurns /\ n \in 0 .. MaxTurns
  BY <1>2, BoundsAssumption
<1>6. build' = [build EXCEPT ![b] = [at |-> "saving", text |-> t, turn |-> n,
                                     states |-> noted, shown |-> shown]]
  BY <1>c
<1>7. failures' \in 0 .. MaxFailures
  BY <1>1, <1>c, BoundsAssumption DEF Failure
<1> HIDE DEF d, n
<1>8. /\ Present(t) \subseteq Sections
      /\ \A s \in Sections : s \in Present(t) <=> t[s] # 0
  BY DEF Present
<1>9. \A s \in Sections :
        /\ s \in Present(t) =>
              /\ shown[s] = d[s].mode
              /\ noted[s] = [mode |-> d[s].mode, turn |-> n,
                     ttl |-> IF d[s].ttl > 0 THEN d[s].ttl ELSE read.states[s].ttl,
                     hash |-> t[s]]
        /\ s \notin Present(t) => shown[s] = "absent" /\ noted[s] = read.states[s]
  BY DEF Noted, Rendered
<1>10. noted \in [Sections -> SectionStates]
  <2> SUFFICES ASSUME NEW s \in Sections PROVE noted[s] \in SectionStates
    BY DEF Noted
  <2>1. read.states[s] \in SectionStates
    BY <1>2
  <2>2. CASE s \in Present(t)
    <3>1. d[s] \in Decisions /\ t[s] \in 0 .. Versions
      BY <1>3, <1>4, <2>2
    <3>2. (IF d[s].ttl > 0 THEN d[s].ttl ELSE read.states[s].ttl)
            \in {0, DefaultTTL, SummaryTTL}
      BY <2>1, <3>1 DEF SectionStates, Decisions
    <3> HIDE DEF noted, shown
    <3>3. noted[s] = [mode |-> d[s].mode, turn |-> n,
             ttl |-> IF d[s].ttl > 0 THEN d[s].ttl ELSE read.states[s].ttl,
             hash |-> t[s]]
      BY <1>9, <2>2
    <3>4. d[s].mode \in Modes \cup {"skip"}
      BY <3>1 DEF Decisions
    <3> QED
      BY <1>5, <3>1, <3>2, <3>3, <3>4 DEF SectionStates
  <2>3. CASE s \notin Present(t)
    BY <1>9, <2>1, <2>3
  <2> QED
    BY <2>2, <2>3
<1>11. shown \in [Sections -> Modes \cup {"absent"}]
  BY <1>4, <1>8 DEF Rendered, Decisions
<1> HIDE DEF noted, shown
<1>12. TypeOK'
  <2>1. [at |-> "saving", text |-> t, turn |-> n, states |-> noted, shown |-> shown] \in Builds
    BY <1>3, <1>5, <1>10, <1>11 DEF Builds
  <2>2. build' \in [Builders -> Builds]
    BY <1>1, <1>6, <2>1
  <2> QED
    BY <1>1, <1>7, <2>2 DEF IInv, TypeOK
<1>13. /\ build'[b].at = "saving" /\ build'[b].text = t
       /\ build'[b].states = noted /\ build'[b].shown = shown
       /\ \A c \in Builders \ {b} : build'[c] = build[c]
  BY <1>1, <1>6
<1>14. \A s \in Sections : Told(s) \subseteq Told(s)'
  <2>1. \A c \in Builders : build[c].at = "kept" => build'[c] = build[c]
    BY <1>1, <1>13
  <2> QED
    BY <1>1, <2>1, ToldGrows
<1>15. BundleInv'
  BY <1>1, <1>14, BundleStays DEF IInv
<1>16. BuilderOk(b)'
  <2>1. ASSUME NEW s \in Sections, s \in Present(t)
        PROVE  /\ shown[s] # "absent" /\ noted[s].mode = shown[s]
               /\ noted[s].hash = t[s] /\ t[s] # 0
               /\ shown[s] = "reminder" => t[s] \in Told(s)'
    <3>1. d[s].mode \in Modes
      BY <1>4, <2>1 DEF Decisions
    <3>a. shown[s] = d[s].mode
          /\ noted[s] = [mode |-> d[s].mode, turn |-> n,
               ttl |-> IF d[s].ttl > 0 THEN d[s].ttl ELSE read.states[s].ttl,
               hash |-> t[s]]
      BY <1>9, <2>1
    <3>2. /\ shown[s] = d[s].mode /\ shown[s] # "absent"
          /\ noted[s].mode = d[s].mode /\ noted[s].hash = t[s] /\ t[s] # 0
      BY <1>8, <2>1, <3>1, <3>a DEF Modes
    <3>3. ASSUME shown[s] = "reminder" PROVE t[s] \in Told(s)'
      <4>1. SeenLately(n, t[s], read.states[s])
        BY <1>4, <2>1, <3>2, <3>3
      <4>2. read.states[s].hash \in Told(s) /\ read.states[s].hash \in {0, t[s]}
        BY <1>2, <4>1 DEF SeenLately, Known
      <4>3. 0 \notin Told(s)
        <5>1. \A c \in Builders : Tells(c, s) \subseteq 1 .. Versions
          BY TellsVersions
        <5>2. introduced[s] \subseteq 1 .. Versions /\ undelivered[s] \subseteq 1 .. Versions
          BY DEF IInv, TypeOK
        <5> QED
          BY <5>1, <5>2, BoundsAssumption DEF Told
      <4> QED
        BY <1>14, <4>2, <4>3
    <3> QED
      BY <3>2, <3>3
  <2>2. ASSUME NEW s \in Sections, s \notin Present(t)
        PROVE  shown[s] = "absent" /\ noted[s] = read.states[s]
    BY <1>9, <2>2
  <2>3. \A s \in Sections : s \notin Present(t) =>
          (noted[s].turn > 0 /\ noted[s].mode \in {"full", "summary"}
             => noted[s].hash \in Told(s)')
    BY <1>2, <1>14, <2>2 DEF Known
  <2> QED
    BY <1>13, <2>1, <2>2, <2>3 DEF BuilderOk, Known
<1>17. BuildInv'
  BY <1>13, <1>14, <1>16, BuilderStays DEF BuildInv
<1> QED
  BY <1>12, <1>15, <1>17 DEF IInv

\* The states are committed: what they say was shown is on its way to a model.
LEMMA SaveKeeps ==
    ASSUME IInv, NEW b \in Builders, Save(b)
    PROVE  IInv'
<1>1. /\ build[b].at = "saving" /\ build[b] \in Builds
      /\ build \in [Builders -> Builds]
      /\ bundle' = [turn |-> build[b].turn, states |-> build[b].states]
      /\ build' = [build EXCEPT ![b].at = "kept"]
      /\ UNCHANGED <<introduced, undelivered, failures>>
  BY DEF Save, IInv, TypeOK
<1>2. /\ build'[b] = [build[b] EXCEPT !.at = "kept"]
      /\ \A c \in Builders \ {b} : build'[c] = build[c]
  BY <1>1
<1>3. /\ build'[b].at = "kept" /\ build'[b].text = build[b].text
      /\ build'[b].shown = build[b].shown /\ build'[b] \in Builds
  BY <1>1, <1>2 DEF Builds
<1>4. TypeOK'
  <2>1. build' \in [Builders -> Builds]
    BY <1>1, <1>2, <1>3
  <2>2. build[b].turn \in 0 .. MaxTurns /\ build[b].states \in [Sections -> SectionStates]
    BY <1>1 DEF Builds
  <2> QED
    BY <1>1, <2>1, <2>2 DEF IInv, TypeOK
<1>5. \A s \in Sections : Told(s) \subseteq Told(s)'
  <2>1. \A c \in Builders : build[c].at = "kept" => build'[c] = build[c]
    BY <1>1, <1>2
  <2> QED
    BY <1>1, <2>1, ToldGrows
<1>6. BundleInv'
  <2> SUFFICES ASSUME NEW s \in Sections, build[b].states[s].turn > 0,
                      build[b].states[s].mode \in {"full", "summary"}
               PROVE  build[b].states[s].hash \in Told(s)'
    BY <1>1 DEF BundleInv, Known
  <2>1. BuilderOk(b)
    BY DEF IInv, BuildInv
  <2>2. CASE build[b].shown[s] = "absent"
    BY <1>1, <1>5, <2>1, <2>2 DEF BuilderOk, Known
  <2>3. CASE build[b].shown[s] # "absent"
    <3>1. /\ build[b].shown[s] \in {"full", "summary"}
          /\ build[b].states[s].hash = build[b].text[s]
      BY <1>1, <2>1, <2>3 DEF BuilderOk
    <3>2. build[b].text[s] \in Tells(b, s)'
      BY <1>3, <3>1 DEF Tells
    <3> QED
      BY <1>3, <3>1, <3>2 DEF Told
  <2> QED
    BY <2>2, <2>3
<1>7. BuildInv'
  BY <1>2, <1>5, BuilderStays DEF BuildInv
<1> QED
  BY <1>4, <1>6, <1>7 DEF IInv

LEMMA SaveFailsKeeps ==
    ASSUME IInv, NEW b \in Builders, SaveFails(b)
    PROVE  IInv'
<1>1. /\ build[b].at = "saving" /\ build[b] \in Builds
      /\ build \in [Builders -> Builds]
      /\ build' = [build EXCEPT ![b].at = "unkept"]
      /\ UNCHANGED <<bundle, introduced, undelivered>>
      /\ failures' \in 0 .. MaxFailures
  BY BoundsAssumption DEF SaveFails, Failure, IInv, TypeOK
<1>2. /\ build'[b] = [build[b] EXCEPT !.at = "unkept"] /\ build'[b] \in Builds
      /\ \A c \in Builders \ {b} : build'[c] = build[c]
  BY <1>1 DEF Builds
<1>3. TypeOK'
  <2>1. build' \in [Builders -> Builds]
    BY <1>1, <1>2
  <2> QED
    BY <1>1, <2>1 DEF IInv, TypeOK
<1>4. \A s \in Sections : Told(s) \subseteq Told(s)'
  <2>1. \A c \in Builders : build[c].at = "kept" => build'[c] = build[c]
    BY <1>1, <1>2
  <2> QED
    BY <1>1, <2>1, ToldGrows
<1>5. BundleInv'
  BY <1>1, <1>4, BundleStays DEF IInv
<1>6. BuildInv'
  BY <1>2, <1>4, BuilderStays DEF BuildInv
<1> QED
  BY <1>3, <1>5, <1>6 DEF IInv

\* A request that ends leaves what it has told behind, given or dropped.
LEMMA EndKeeps ==
    ASSUME IInv, NEW b \in Builders, HandOver(b) \/ Drop(b)
    PROVE  IInv'
<1>1. /\ build' = [build EXCEPT ![b] = Idle] /\ UNCHANGED bundle
      /\ build \in [Builders -> Builds]
      /\ introduced \in [Sections -> SUBSET (1 .. Versions)]
      /\ undelivered \in [Sections -> SUBSET (1 .. Versions)]
      /\ failures' \in 0 .. MaxFailures
  BY BoundsAssumption DEF HandOver, Drop, Failure, IInv, TypeOK
<1>2. build'[b] = Idle /\ \A c \in Builders \ {b} : build'[c] = build[c]
  BY <1>1
<1>3. \A s \in Sections : Tells(b, s) \subseteq 1 .. Versions
  BY TellsVersions
<1>4. /\ introduced' \in [Sections -> SUBSET (1 .. Versions)]
      /\ undelivered' \in [Sections -> SUBSET (1 .. Versions)]
      /\ \A s \in Sections : introduced[s] \subseteq introduced'[s]
                            /\ undelivered[s] \subseteq undelivered'[s]
      /\ build[b].at = "kept" =>
            \A s \in Sections : Tells(b, s) \subseteq introduced'[s] \cup undelivered'[s]
  <2>1. CASE HandOver(b)
    BY <1>1, <1>3, <2>1 DEF HandOver
  <2>2. CASE Drop(b)
    BY <1>1, <1>3, <2>2 DEF Drop
  <2> QED
    BY <2>1, <2>2
<1>5. TypeOK'
  <2>1. build' \in [Builders -> Builds]
    BY <1>1, IdleIsBuild
  <2> QED
    BY <1>1, <1>4, <2>1 DEF IInv, TypeOK
<1>6. \A s \in Sections : Told(s) \subseteq Told(s)'
  <2>1. \A c \in Builders : build[c].at = "kept" =>
          \/ build'[c] = build[c]
          \/ \A s \in Sections : Tells(c, s) \subseteq introduced'[s] \cup undelivered'[s]
    BY <1>2, <1>4
  <2> QED
    BY <1>4, <2>1, ToldGrows
<1>7. BundleInv'
  BY <1>1, <1>6, BundleStays DEF IInv
<1>8. BuildInv'
  BY <1>2, <1>6, BuilderStays DEF BuildInv
<1> QED
  BY <1>5, <1>7, <1>8 DEF IInv

LEMMA NextKeeps == IInv /\ [Next]_vars => IInv'
<1> SUFFICES ASSUME IInv, [Next]_vars PROVE IInv'
  OBVIOUS
<1>1. ASSUME NEW b \in Builders, BuildLegacy(b) PROVE IInv'
  BY <1>1, LegacyKeeps
<1>2. ASSUME NEW b \in Builders, DecideSections(b) PROVE IInv'
  BY <1>2, DecideKeeps
<1>3. ASSUME NEW b \in Builders, Save(b) PROVE IInv'
  BY <1>3, SaveKeeps
<1>4. ASSUME NEW b \in Builders, SaveFails(b) PROVE IInv'
  BY <1>4, SaveFailsKeeps
<1>5. ASSUME NEW b \in Builders, HandOver(b) \/ Drop(b) PROVE IInv'
  BY <1>5, EndKeeps
<1>6. CASE UNCHANGED vars
  BY <1>6 DEF vars, IInv, TypeOK, BundleInv, BuildInv, BuilderOk, Known, Told, Tells
<1> QED
  BY <1>1, <1>2, <1>3, <1>4, <1>5, <1>6 DEF Next

\* What is kept of a section, and what a request is about to keep, stands for a
\* text a prompt has shown, however the requests of _build_system_prompt
\* interleave, whichever of their reads and writes fail and wherever they end.
THEOREM InductiveInvariant == Spec => []IInv
<1> QED
  BY InitEstablishes, NextKeeps, PTL DEF Spec

\* A section is reduced to a reminder only when this very text was in an earlier
\* prompt of the session, which a model was given unless its request ended between
\* _save_prompt_disclosure_bundle and the call, for any sections, versions, stages
\* and budget.
THEOREM RemindersAreOfShownTexts == Spec => []ReminderWasIntroduced
<1>1. IInv => ReminderWasIntroduced
  BY DEF IInv, BuildInv, BuilderOk, ReminderWasIntroduced, Shown
<1> QED
  BY <1>1, InductiveInvariant, PTL

-----------------------------------------------------------------------------
(* The budget.                                                             *)

\* A set of places in a list has a last one.  The places behind each of them
\* are a finite set, and one of these sets has no other below it.
LEMMA LastPlace ==
    ASSUME NEW n \in Nat, NEW P, P \subseteq 1 .. n, P # {}
    PROVE  \E m \in P : \A i \in P : i <= m
<1> DEFINE Behind(m) == {k \in P : k > m}
           T == {Behind(m) : m \in P}
<1>1. IsFiniteSet(P)
  <2>1. IsFiniteSet(1 .. n)
    <3>1. 1 \in Int /\ n \in Int
      OBVIOUS
    <3> QED
      BY <3>1, FS_Interval
  <2> QED
    BY <2>1, FS_Subset
<1>2. T \subseteq FiniteSubsetsOf(P) /\ T # {}
  <2>1. ASSUME NEW m \in P PROVE Behind(m) \in FiniteSubsetsOf(P)
    <3>1. Behind(m) \in SUBSET P
      OBVIOUS
    <3>2. IsFiniteSet(Behind(m))
      BY <1>1, <3>1, FS_Subset
    <3> QED
      BY <3>1, <3>2 DEF FiniteSubsetsOf
  <2> QED
    BY <2>1
<1>3. PICK B \in T : \A C \in T : <<C, B>> \notin StrictSubsetOrdering(P)
  <2>1. IsWellFoundedOn(StrictSubsetOrdering(P), FiniteSubsetsOf(P))
    BY FS_StrictSubsetOrderingWellFounded
  <2> QED
    BY <1>2, <2>1, WFMin
<1>4. PICK m \in P : B = Behind(m)
  BY <1>3
<1>5. ASSUME NEW i \in P, i > m PROVE FALSE
  <2>1. Behind(i) \subseteq Behind(m) /\ i \in Behind(m) /\ i \notin Behind(i)
    <3>1. \A k \in P : k \in Nat
      OBVIOUS
    <3>2. \A k \in P : k > i => k > m
      BY <1>5, <3>1
    <3>3. Behind(i) \subseteq Behind(m)
      BY <3>2
    <3>4. i \in Behind(m)
      BY <1>5
    <3>5. i \notin Behind(i)
      BY <3>1
    <3> QED
      BY <3>3, <3>4, <3>5
  <2>2. <<Behind(i), Behind(m)>> \in StrictSubsetOrdering(P)
    BY <2>1 DEF StrictSubsetOrdering
  <2>3. Behind(i) \in T
    OBVIOUS
  <2> QED
    BY <1>3, <1>4, <2>2, <2>3
<1> QED
  BY <1>5

\* The sections are finitely many, and each has a place in the order.
LEMMA SectionsAreOrdered ==
    /\ IsFiniteSet(Sections)
    /\ \A s \in Sections : \E i \in 1 .. 17 : Order[i] = s
    /\ DOMAIN Order = 1 .. 17
<1>1. DOMAIN Order = 1 .. 17
  BY DEF Order
<1>2. \A s \in Sections : \E i \in 1 .. 17 : Order[i] = s
  BY <1>1, SectionsAssumption
<1> DEFINE place == [s \in Sections |-> CHOOSE i \in 1 .. 17 : Order[i] = s]
<1>3. place \in Injection(Sections, 1 .. 17)
  <2>1. \A s \in Sections : place[s] \in 1 .. 17 /\ Order[place[s]] = s
    BY <1>2
  <2> HIDE DEF place
  <2>2. place \in [Sections -> 1 .. 17]
    BY <2>1 DEF place
  <2> QED
    BY <2>1, <2>2 DEF Injection, IsInjective
<1>4. IsFiniteSet(1 .. 17)
  <2>1. 1 \in Int /\ 17 \in Int
    OBVIOUS
  <2> QED
    BY <2>1, FS_Interval
<1> QED
  BY <1>1, <1>2, <1>3, <1>4, FS_Injection

\* Some of the sections have one that all the others come before.
LEMMA LastSection ==
    ASSUME NEW K, K \subseteq Sections, K # {}
    PROVE  \E s \in K : \A u \in K \ {s} : Before(u, s)
<1> DEFINE P == {i \in 1 .. 17 : Order[i] \in K}
<1>1. P # {} /\ P \subseteq 1 .. 17
  BY SectionsAreOrdered
<1>2. PICK m \in P : \A i \in P : i <= m
  BY <1>1, LastPlace
<1>3. ASSUME NEW u \in K \ {Order[m]} PROVE Before(u, Order[m])
  <2>1. PICK i \in 1 .. 17 : Order[i] = u
    BY SectionsAreOrdered
  <2>2. i \in P /\ i # m
    BY <2>1
  <2>3. i < m
    BY <1>2, <2>2
  <2> QED
    BY <2>1, <2>3, SectionsAreOrdered DEF Before
<1> QED
  BY <1>3

\* What the budget lets pass in full is within it, or critical: the last of the
\* others it lets pass found fewer than MaxFull before it.
LEMMA BudgetHolds ==
    ASSUME NEW decisions, DOMAIN decisions \subseteq Sections
    PROVE  LET full == {s \in DOMAIN decisions :
                            Budgeted(decisions)[s].mode = "full"}
           IN  IsFiniteSet(full) /\ (Cardinality(full) <= MaxFull
                                     \/ full \subseteq Critical)
<1> DEFINE wanted == {s \in DOMAIN decisions : decisions[s].mode = "full"}
           ahead(s) == (wanted \cap Critical) \cup {t \in wanted : Before(t, s)}
           full == {s \in DOMAIN decisions : Budgeted(decisions)[s].mode = "full"}
           others == full \ Critical
<1>1. \A s \in DOMAIN decisions : Budgeted(decisions)[s] =
          IF s \in wanted /\ ~ (s \in Critical \/ Cardinality(ahead(s)) < MaxFull)
          THEN Decision("summary", SummaryTTL) ELSE decisions[s]
  BY DEF Budgeted
<1>2. \A s \in full : s \in wanted /\ (s \in Critical \/ Cardinality(ahead(s)) < MaxFull)
  BY <1>1 DEF Decision
<1>3. IsFiniteSet(full) /\ \A s : IsFiniteSet(ahead(s))
  BY SectionsAreOrdered, FS_Subset
<1>4. ASSUME others # {} PROVE Cardinality(full) <= MaxFull
  <2>1. PICK s \in others : \A u \in others \ {s} : Before(u, s)
    <3>1. others \subseteq Sections
      OBVIOUS
    <3> QED
      BY <1>4, <3>1, LastSection
  <2>2. full \subseteq ahead(s) \cup {s}
    BY <1>2, <2>1
  <2>3. Cardinality(ahead(s)) < MaxFull
    BY <1>2, <2>1
  <2> HIDE DEF full, ahead
  <2>4. /\ IsFiniteSet(ahead(s) \cup {s})
        /\ Cardinality(ahead(s) \cup {s}) <= Cardinality(ahead(s)) + 1
    <3>1. IsFiniteSet(ahead(s)) /\ Cardinality(ahead(s)) \in Nat
      BY <1>3, FS_CardinalityType
    <3>2. /\ IsFiniteSet(ahead(s) \cup {s})
          /\ Cardinality(ahead(s) \cup {s}) =
                IF s \in ahead(s) THEN Cardinality(ahead(s))
                                  ELSE Cardinality(ahead(s)) + 1
      BY <3>1, FS_AddElement
    <3> QED
      BY <3>1, <3>2
  <2>5. Cardinality(full) <= Cardinality(ahead(s) \cup {s})
    BY <2>2, <2>4, FS_Subset
  <2> QED
    BY <1>3, <2>3, <2>4, <2>5, FS_CardinalityType, BoundsAssumption
<1> HIDE DEF full
<1>5. IsFiniteSet(full) /\ (Cardinality(full) <= MaxFull \/ full \subseteq Critical)
  BY <1>3, <1>4
<1> QED
  BY <1>5 DEF full

\* A mention or a plan that has a text was asked for, and what was asked for is
\* decided in full, at every stage and in every budget.
LEMMA RequestIsInFull ==
    ASSUME NEW r, NEW t \in Collected(r), NEW stage, NEW now, NEW states,
           NEW s \in OfRequest \cap Sections, t[s] # 0
    PROVE  Decided(t, r, stage, now, states)[s].mode = "full"
<1> DEFINE first == [q \in Present(t) |-> Decide(q, t[q], now, r, states[q])]
           rolled == RolledOut(first, stage)
<1>1. PICK u \in [Sections \ (AlwaysOn \cup OfRequest) -> 0 .. Versions] :
        t = [q \in Sections |-> IF q \in DOMAIN Brought(r)
                                THEN Brought(r)[q] ELSE u[q]]
  BY DEF Collected
<1>2. s \in Sections \cap (AlwaysOn \cup OfRequest) /\ s \notin AlwaysOn
      /\ s \in Critical
  BY DEF OfRequest, AlwaysOn, Critical
<1>3. s \in DOMAIN Brought(r) /\ t[s] = Brought(r)[s]
  BY <1>1, <1>2 DEF Brought
<1>4. WantedInFull(s, r)
  BY <1>2, <1>3 DEF Brought, WantedInFull
<1>5. Decide(s, t[s], now, r, states[s]).mode = "full"
  BY <1>2, <1>4 DEF Decide, Decision
<1>6. s \in Present(t)
  BY DEF Present
<1>7. s \in DOMAIN rolled /\ rolled[s].mode = "full"
  <2>1. first[s] = Decide(s, t[s], now, r, states[s]) /\ first[s].mode = "full"
    BY <1>5, <1>6
  <2>2. Decide(s, t[s], now, r, states[s]) = Decision("full", DefaultTTL)
    BY <1>2, <1>4 DEF Decide
  <2>3. [first[s] EXCEPT !.mode = "full"].mode = "full"
    BY <2>1, <2>2 DEF Decision
  <2> QED
    BY <1>6, <2>1, <2>3 DEF RolledOut
<1>8. Budgeted(rolled)[s] = rolled[s]
  BY <1>2, <1>7 DEF Budgeted
<1>9. Decided(t, r, stage, now, states) = Budgeted(rolled)
  BY DEF Decided
<1> HIDE DEF rolled
<1> QED
  BY <1>7, <1>8, <1>9

LEMMA BudgetKept ==
    ASSUME TypeOK, BudgetRespected, [Next]_vars
    PROVE  BudgetRespected'
<1> DEFINE Within(x) ==
        /\ \/ Cardinality({s \in Sections : x.shown[s] = "full"}) <= MaxFull
           \/ {s \in Sections : x.shown[s] = "full"} \subseteq Critical
        /\ \A s \in OfRequest \cap Sections : x.text[s] # 0 => x.shown[s] = "full"
<1>1. \A b \in Builders : Within(build[b])
  BY DEF BudgetRespected, Shown
<1>2. Within(Idle)
  <2>1. {s \in Sections : Idle.shown[s] = "full"} = {}
    BY DEF Idle, NothingShown
  <2> QED
    BY <2>1 DEF Idle, NoText
<1>3. ASSUME NEW b \in Builders, DecideSections(b) PROVE Within(build'[b])
  <2> DEFINE now(read) == read.turn + 1
             D(t, r, stage, read) == Decided(t, r, stage, now(read), read.states)
             B(t, d, read) == [at |-> "saving", text |-> t, turn |-> now(read),
                               states |-> Noted(t, d, now(read), read.states),
                               shown |-> Rendered(t, d)]
  <2>a. PICK r \in Asked : \E t \in Collected(r) :
          \E stage \in Stages : \E read \in {bundle, NoBundle} :
          build' = [build EXCEPT ![b] = B(t, D(t, r, stage, read), read)]
    BY <1>3 DEF DecideSections
  <2>b. PICK t \in Collected(r) : \E stage \in Stages : \E read \in {bundle, NoBundle} :
          build' = [build EXCEPT ![b] = B(t, D(t, r, stage, read), read)]
    BY <2>a
  <2>1. PICK stage \in Stages, read \in {bundle, NoBundle} :
          build' = [build EXCEPT ![b] = B(t, D(t, r, stage, read), read)]
    BY <2>b
  <2> DEFINE d == D(t, r, stage, read)
             full == {s \in Present(t) : d[s].mode = "full"}
             rolled == RolledOut([s \in Present(t) |->
                           Decide(s, t[s], now(read), r, read.states[s])], stage)
  <2>2. /\ d = Budgeted(rolled) /\ DOMAIN rolled = Present(t)
        /\ Present(t) \subseteq Sections
    BY DEF Decided, RolledOut, Present
  <2>3. Cardinality(full) <= MaxFull \/ full \subseteq Critical
    <3> HIDE DEF rolled, d
    <3> QED
      BY <2>2, BudgetHolds
  <2>4. \A s \in OfRequest \cap Sections : t[s] # 0 => d[s].mode = "full"
    BY RequestIsInFull
  <2> HIDE DEF d, D
  <2>5. build'[b] = B(t, d, read)
    BY <2>1 DEF TypeOK, d
  <2>6. {s \in Sections : build'[b].shown[s] = "full"} = full
    BY <2>2, <2>5 DEF Rendered
  <2>7. \A s \in OfRequest \cap Sections :
          build'[b].text[s] # 0 => build'[b].shown[s] = "full"
    BY <2>4, <2>5 DEF Rendered, Present
  <2> QED
    BY <2>3, <2>6, <2>7
<1>4. \A b \in Builders : Within(build'[b])
  <2> SUFFICES ASSUME NEW c \in Builders PROVE Within(build'[c])
    OBVIOUS
  <2>1. CASE UNCHANGED vars
    BY <1>1, <2>1 DEF vars
  <2>2. ASSUME NEW b \in Builders, DecideSections(b) PROVE Within(build'[c])
    <3>1. c # b => build'[c] = build[c]
      BY <2>2 DEF DecideSections
    <3> QED
      BY <1>1, <1>3, <2>2, <3>1
  <2>3. ASSUME NEW b \in Builders, BuildLegacy(b) PROVE Within(build'[c])
    BY <1>1, <2>3 DEF BuildLegacy
  <2>4. ASSUME NEW b \in Builders, HandOver(b) \/ Drop(b) PROVE Within(build'[c])
    <3>1. build' = [build EXCEPT ![b] = Idle]
      BY <2>4 DEF Drop, HandOver
    <3>2. build'[c] = Idle \/ build'[c] = build[c]
      BY <3>1 DEF TypeOK
    <3> HIDE DEF Within
    <3> QED
      BY <1>1, <1>2, <3>2
  <2>5. ASSUME NEW b \in Builders, Save(b) \/ SaveFails(b) PROVE Within(build'[c])
    <3>1. \E at \in {"kept", "unkept"} : build' = [build EXCEPT ![b].at = at]
      BY <2>5 DEF Save, SaveFails
    <3>2. build[c] \in Builds
      BY DEF TypeOK
    <3>3. build'[c].shown = build[c].shown /\ build'[c].text = build[c].text
      BY <3>1, <3>2 DEF Builds, TypeOK
    <3> QED
      BY <1>1, <3>3
  <2> HIDE DEF Within
  <2> QED
    BY <2>1, <2>2, <2>3, <2>4, <2>5 DEF Next
<1> QED
  BY <1>4 DEF BudgetRespected, Shown

\* No prompt has more sections in full than the budget, unless the critical ones
\* alone are more, and a mention or a plan keeps its whole text, for any budget,
\* any rollout stage and any sections (disclosure_engine.py,
\* enforce_full_budget).
THEOREM PromptsKeepTheBudget == Spec => []BudgetRespected
<1>1. Init => BudgetRespected
  <2> SUFFICES ASSUME Init, NEW b \in Builders
               PROVE  /\ Shown(b, "full") \subseteq Critical
                      /\ \A s \in OfRequest \cap Sections :
                            build[b].text[s] # 0 => build[b].shown[s] = "full"
    BY DEF BudgetRespected
  <2>1. build[b] = Idle
    BY DEF Init
  <2> QED
    BY <2>1 DEF Shown, Idle, NothingShown, NoText
<1>2. TypeOK /\ BudgetRespected /\ [Next]_vars => BudgetRespected'
  BY BudgetKept
<1>3. IInv => TypeOK
  BY DEF IInv
<1> QED
  BY <1>1, <1>2, <1>3, InductiveInvariant, PTL DEF Spec

-----------------------------------------------------------------------------
(* The history.                                                            *)

\* A message is appended: it is not marked and covers nothing, and its id is new.
LEMMA AppendKeepsMemory ==
    ASSUME MemoryInv, NEW kind \in Kind,
           table' = Append(table, New(kind, {})), next' = next + 1,
           UNCHANGED <<task, active>>
    PROVE  MemoryInv'
<1> DEFINE row == New(kind, {})
<1>1. /\ table \in Seq(Row) /\ next \in Nat
      /\ task \in [Task -> [at : {"none", "loading", "asking"},
                                   old : SUBSET Nat]]
  BY DEF MemoryInv, Types
<1>2. /\ row \in Row /\ row.id = next /\ row.covers = {}
      /\ row.compressed = FALSE
  BY <1>1 DEF New, Row
<1> HIDE DEF row
<1>3. /\ table' \in Seq(Row) /\ DOMAIN table = 1 .. Len(table)
      /\ Len(table) \in Nat
      /\ DOMAIN table' = 1 .. Len(table) + 1
      /\ \A i \in DOMAIN table : table'[i] = table[i]
      /\ table'[Len(table) + 1] = row
  BY <1>1, <1>2 DEF row
<1>4. \A i \in DOMAIN table' : i \in DOMAIN table \/ i = Len(table) + 1
  BY <1>3
<1>5. Types'
  BY <1>1, <1>3 DEF Types, Row, Kind, Task
<1>6. BelowNext'
  <2>1. /\ \A i \in DOMAIN table :
              table[i].id < next /\ \A x \in table[i].covers : x < next
        /\ \A t \in Task : \A x \in task[t].old : x < next
    BY DEF MemoryInv, BelowNext
  <2>2. \A t \in Task : \A x \in task'[t].old : x < next'
    BY <1>1, <2>1
  <2>3. \A i \in DOMAIN table' :
            table'[i].id < next' /\ \A x \in table'[i].covers : x < next'
    <3> SUFFICES ASSUME NEW i \in DOMAIN table'
                 PROVE  table'[i].id < next' /\ \A x \in table'[i].covers : x < next'
      OBVIOUS
    <3>1. CASE i \in DOMAIN table
      <4>1. table[i] \in Row
        BY <1>1, <3>1
      <4>2. table[i].id \in Nat /\ table[i].covers \subseteq Nat
        BY <4>1 DEF Row
      <4> QED
        BY <1>1, <1>3, <2>1, <3>1, <4>2
    <3>2. CASE i = Len(table) + 1
      BY <1>1, <1>2, <1>3, <3>2
    <3> QED
      BY <1>4, <3>1, <3>2
  <2> QED
    BY <2>2, <2>3 DEF BelowNext, Task
<1>7. CoveredIsMarked'
  <2>1. \A k \in DOMAIN table : next \notin table[k].covers
    BY <1>1 DEF MemoryInv, BelowNext
  <2> QED
    BY <1>2, <1>3, <1>4, <2>1 DEF MemoryInv, RowInv, CoveredIsMarked
<1>8. MarkedHasSummary'
  <2>1. DOMAIN table \subseteq DOMAIN table'
    BY <1>3
  <2> QED
    BY <1>2, <1>3, <1>4, <2>1
       DEF MemoryInv, RowInv, MarkedHasSummary
<1>9. SummarisedOnce'
  BY <1>2, <1>3, <1>4 DEF MemoryInv, RowInv, SummarisedOnce
<1>10. OneCompression'
  BY DEF MemoryInv, OneCompression, Running, Task
<1>11. AskedIsNew'
  BY <1>2, <1>3, <1>4 DEF MemoryInv, AskedIsNew, Task
<1>12. InOrder'
  <2>1. \A i \in DOMAIN table : table[i].id < next /\ i < Len(table) + 1
    BY <1>3 DEF MemoryInv, BelowNext
  <2> QED
    BY <1>2, <1>3, <1>4, <2>1 DEF MemoryInv, RowInv, InOrder
<1> QED
  BY <1>5, <1>6, <1>7, <1>8, <1>9, <1>10, <1>11, <1>12 DEF MemoryInv, RowInv

\* A write is lost, or everything is cleared.
LEMMA LessKeepsMemory ==
    ASSUME MemoryInv, table' \in {table, <<>>}, next' \in {next, next + 1},
           UNCHANGED <<task, active>>
    PROVE  MemoryInv'
<1>1. /\ table \in Seq(Row) /\ next \in Nat
      /\ task \in [Task -> [at : {"none", "loading", "asking"},
                                   old : SUBSET Nat]]
  BY DEF MemoryInv, Types
<1>2. /\ table' \in Seq(Row)
      /\ \A i \in DOMAIN table' : i \in DOMAIN table /\ table'[i] = table[i]
      /\ table' = table \/ DOMAIN table' = {}
  <2>1. CASE table' = table
    BY <1>1, <2>1
  <2>2. CASE table' = <<>>
    <3>1. table' \in Seq(Row) /\ DOMAIN table' = {}
      BY <2>2
    <3> QED
      BY <3>1
  <2> QED
    BY <2>1, <2>2
<1>3. Types'
  BY <1>1, <1>2 DEF Types, Row, Kind, Task
<1>4. BelowNext'
  <2>1. /\ \A i \in DOMAIN table :
              table[i].id < next /\ \A x \in table[i].covers : x < next
        /\ \A t \in Task : \A x \in task[t].old : x < next
    BY DEF MemoryInv, BelowNext
  <2>2. ASSUME NEW i \in DOMAIN table'
        PROVE  table'[i].id < next' /\ \A x \in table'[i].covers : x < next'
    <3>1. table[i] \in Row /\ table'[i] = table[i]
      BY <1>1, <1>2
    <3>2. table[i].id \in Nat /\ table[i].covers \subseteq Nat
      BY <3>1 DEF Row
    <3> QED
      BY <1>1, <1>2, <2>1, <3>1, <3>2
  <2>3. \A t \in Task : \A x \in task'[t].old : x < next'
    BY <1>1, <2>1
  <2> QED
    BY <2>2, <2>3 DEF BelowNext, Task
<1>5. RowInv'
  BY <1>2 DEF MemoryInv, RowInv, InOrder, CoveredIsMarked,
              MarkedHasSummary, SummarisedOnce
<1>6. OneCompression'
  BY DEF MemoryInv, OneCompression, Running, Task
<1>7. AskedIsNew'
  BY <1>2 DEF MemoryInv, AskedIsNew, Task
<1> QED
  BY <1>3, <1>4, <1>5, <1>6, <1>7 DEF MemoryInv

\* A compression ends without having written, one way or another.
LEMMA EndKeepsMemory ==
    ASSUME MemoryInv, NEW t \in Task, task[t].at # "none",
           task' = [task EXCEPT ![t] = NoTask], active' = FALSE,
           UNCHANGED <<table, next>>
    PROVE  MemoryInv'
<1>1. /\ task \in [Task -> [at : {"none", "loading", "asking"},
                                   old : SUBSET Nat]]
      /\ table \in Seq(Row) /\ next \in Nat
  BY DEF MemoryInv, Types
<1>2. NoTask \in [at : {"none", "loading", "asking"}, old : SUBSET Nat]
  BY DEF NoTask
<1>3. Types'
  BY <1>1, <1>2 DEF Types, Row, Kind, Task
<1>4. BelowNext'
  BY <1>1 DEF MemoryInv, BelowNext, NoTask, Task
<1>5. RowInv'
  BY DEF MemoryInv, RowInv, InOrder, CoveredIsMarked,
         MarkedHasSummary, SummarisedOnce
<1>6. OneCompression'
  <2>1. \A u \in Task : task[u].at # "none" => u = t
    BY DEF MemoryInv, OneCompression, Running
  <2>2. \A u \in Task : task'[u].at = "none"
    BY <1>1, <2>1 DEF NoTask
  <2> QED
    BY <2>2 DEF OneCompression, Running, Task
<1>7. AskedIsNew'
  BY <1>1 DEF MemoryInv, AskedIsNew, NoTask, Task
<1> QED
  BY <1>3, <1>4, <1>5, <1>6, <1>7 DEF MemoryInv

\* The assistant's process goes, with all its compressions.
LEMMA CrashKeepsMemory ==
    ASSUME MemoryInv, Crash
    PROVE  MemoryInv'
<1>1. /\ task' = [t \in Task |-> NoTask] /\ active' = FALSE
      /\ UNCHANGED <<table, next>> /\ table \in Seq(Row) /\ next \in Nat
  BY DEF Crash, MemoryInv, Types
<1>2. \A t \in Task : task'[t].at = "none" /\ task'[t].old = {}
  BY <1>1 DEF NoTask
<1>3. Types'
  BY <1>1 DEF Types, Row, Kind, Task, NoTask
<1>4. BelowNext'
  BY <1>1, <1>2 DEF MemoryInv, BelowNext, Task
<1>5. RowInv'
  BY <1>1 DEF MemoryInv, RowInv, InOrder, CoveredIsMarked,
         MarkedHasSummary, SummarisedOnce
<1>6. OneCompression' /\ AskedIsNew'
  BY <1>2 DEF OneCompression, Running, AskedIsNew, Task
<1> QED
  BY <1>3, <1>4, <1>5, <1>6 DEF MemoryInv

\* A compression begins only where none runs.
LEMMA UsageKeepsMemory ==
    ASSUME MemoryInv, RecordUsage
    PROVE  MemoryInv'
<1>1. /\ UNCHANGED <<table, next>> /\ table \in Seq(Row) /\ next \in Nat
      /\ task \in [Task -> [at : {"none", "loading", "asking"},
                                   old : SUBSET Nat]]
  BY DEF RecordUsage, MemoryInv, Types
<1>2. RowInv'
  BY <1>1 DEF MemoryInv, RowInv, InOrder, CoveredIsMarked,
         MarkedHasSummary, SummarisedOnce
<1>3. CASE UNCHANGED <<task, active>>
  BY <1>1, <1>3, LessKeepsMemory
<1>4. CASE /\ ~ active /\ active' = TRUE
           /\ \E t \in Task \ Running :
                 task' = [task EXCEPT ![t].at = "loading"]
  <2>1. PICK t \in Task : task' = [task EXCEPT ![t].at = "loading"]
    BY <1>4
  <2>2. \A u \in Task : task[u].at = "none"
    BY <1>1, <1>4 DEF MemoryInv, OneCompression, Running
  <2>3. /\ \A u \in Task : task'[u].old = task[u].old
        /\ \A u \in Task : task'[u].at # "asking"
        /\ \A u \in Task : task'[u].at # "none" => u = t
        /\ task' \in [Task -> [at : {"none", "loading", "asking"},
                                      old : SUBSET Nat]]
    BY <1>1, <2>1, <2>2
  <2>4. Types'
    BY <1>1, <2>3 DEF Types, Row, Kind, Task
  <2>5. BelowNext'
    BY <1>1, <2>3 DEF MemoryInv, BelowNext, Task
  <2>6. OneCompression' /\ AskedIsNew'
    BY <1>4, <2>3 DEF OneCompression, Running, AskedIsNew,
                      Task
  <2> QED
    BY <1>2, <2>4, <2>5, <2>6 DEF MemoryInv
<1> QED
  BY <1>3, <1>4 DEF RecordUsage, MayCompress

\* What is loaded is written and not marked: no summary stands for it yet.
LEMMA OldIsNew ==
    ASSUME MemoryInv
    PROVE  /\ Old \subseteq Nat /\ \A x \in Old : x < next
           /\ \A k \in DOMAIN table : Old \cap table[k].covers = {}
<1>1. table \in Seq(Row)
  BY DEF MemoryInv, Types
<1>2. \A i \in DOMAIN table : table[i] \in Row
  BY <1>1
<1>3. \A i \in DOMAIN table : table[i].id \in Nat /\ table[i].id < next
  BY <1>2 DEF MemoryInv, BelowNext, Row
<1>4. \A x \in Old : \E i \in DOMAIN table : x = table[i].id /\ ~ table[i].compressed
  BY DEF Old, Recent
<1> QED
  BY <1>3, <1>4 DEF MemoryInv, RowInv, CoveredIsMarked

LEMMA LoadKeepsMemory ==
    ASSUME MemoryInv, NEW t \in Task, Load(t)
    PROVE  MemoryInv'
<1>1. /\ UNCHANGED <<table, next>> /\ table \in Seq(Row) /\ next \in Nat
      /\ task \in [Task -> [at : {"none", "loading", "asking"},
                                   old : SUBSET Nat]]
      /\ task[t].at = "loading"
  BY DEF Load, MemoryInv, Types
<1>2. CASE task' = [task EXCEPT ![t] = NoTask] /\ active' = FALSE
  BY <1>1, <1>2, EndKeepsMemory
<1>3. CASE /\ task' = [task EXCEPT ![t] = [at |-> "asking", old |-> Old]]
           /\ UNCHANGED active
  <2>1. /\ Old \subseteq Nat /\ \A x \in Old : x < next
        /\ \A k \in DOMAIN table : Old \cap table[k].covers = {}
    BY OldIsNew
  <2>2. /\ task' \in [Task -> [at : {"none", "loading", "asking"},
                                      old : SUBSET Nat]]
        /\ task'[t] = [at |-> "asking", old |-> Old]
        /\ \A u \in Task \ {t} : task'[u] = task[u]
    BY <1>1, <1>3, <2>1
  <2>3. Types'
    BY <1>1, <2>2 DEF Types, Row, Kind, Task
  <2>4. BelowNext'
    BY <1>1, <2>1, <2>2 DEF MemoryInv, BelowNext, Task
  <2>5. RowInv'
    BY <1>1 DEF MemoryInv, RowInv, InOrder, CoveredIsMarked,
           MarkedHasSummary, SummarisedOnce
  <2>6. OneCompression'
    <3>1. \A u \in Task : task'[u].at # "none" => task[u].at # "none"
      BY <1>1, <2>2
    <3> QED
      BY <1>3, <3>1 DEF MemoryInv, OneCompression, Running,
                        Task
  <2>7. AskedIsNew'
    BY <1>1, <2>1, <2>2 DEF MemoryInv, AskedIsNew, Task
  <2> QED
    BY <2>3, <2>4, <2>5, <2>6, <2>7 DEF MemoryInv
<1> QED
  BY <1>2, <1>3 DEF Load, EndTask

\* mark_compressed leaves every row in its place, and all of it but its mark.
LEMMA MarkedRows ==
    ASSUME table \in Seq(Row), NEW ids
    PROVE  /\ Mark(ids) \in Seq(Row)
           /\ Len(Mark(ids)) = Len(table) /\ Len(table) \in Nat
           /\ DOMAIN table = 1 .. Len(table)
           /\ DOMAIN Mark(ids) = 1 .. Len(table)
           /\ \A i \in DOMAIN table :
                /\ Mark(ids)[i] \in Row
                /\ Mark(ids)[i].id = table[i].id
                /\ Mark(ids)[i].kind = table[i].kind
                /\ Mark(ids)[i].covers = table[i].covers
                /\ Mark(ids)[i].compressed
                     <=> table[i].compressed \/ table[i].id \in ids
<1> DEFINE marked == Mark(ids)
           n == Len(table)
<1>1. \A i \in DOMAIN table :
        /\ table[i] \in Row
        /\ marked[i] = [table[i] EXCEPT !.compressed = @ \/ table[i].id \in ids]
  BY DEF Mark
<1>2. \A i \in DOMAIN table :
        /\ marked[i] \in Row
        /\ marked[i].id = table[i].id /\ marked[i].kind = table[i].kind
        /\ marked[i].covers = table[i].covers
        /\ marked[i].compressed <=> table[i].compressed \/ table[i].id \in ids
  BY <1>1 DEF Row
<1>3. DOMAIN table = 1 .. n /\ n \in Nat
  OBVIOUS
<1>4. marked = [i \in 1 .. n |-> marked[i]]
  BY <1>3 DEF Mark
<1> HIDE DEF marked, n
<1>5. marked \in [1 .. n -> Row]
  BY <1>2, <1>3, <1>4
<1>6. marked \in Seq(Row) /\ Len(marked) = n /\ DOMAIN marked = 1 .. n
  BY <1>3, <1>5
<1> QED
  BY <1>2, <1>3, <1>6 DEF marked, n

\* The summary is appended and what it stands for is marked, in one step.
LEMMA FinishKeepsMemory ==
    ASSUME MemoryInv, NEW t \in Task, Finish(t)
    PROVE  MemoryInv'
<1>k. PICK kind \in Summaries : table' = Append(Mark(task[t].old), New(kind, task[t].old))
  BY DEF Finish
<1> DEFINE old == task[t].old
           marked == Mark(old)
           row == New(kind, old)
           n == Len(table)
<1>1. /\ table \in Seq(Row) /\ next \in Nat
      /\ task \in [Task -> [at : {"none", "loading", "asking"},
                                   old : SUBSET Nat]]
      /\ task[t].at = "asking"
      /\ table' = Append(marked, row) /\ next' = next + 1
      /\ task' = [task EXCEPT ![t] = NoTask] /\ active' = FALSE
  BY <1>k DEF Finish, EndTask, MemoryInv, Types
<1>2. /\ row \in Row /\ row.id = next /\ row.covers = old
      /\ row.compressed = FALSE /\ row.kind \in Summaries
      /\ old \subseteq Nat
  BY <1>1, <1>k DEF New, Row, Kind
<1>3. \A i \in DOMAIN table : table[i] \in Row
  BY <1>1
<1>4. \A i \in DOMAIN table :
        /\ marked[i] \in Row
        /\ marked[i].id = table[i].id /\ marked[i].kind = table[i].kind
        /\ marked[i].covers = table[i].covers
        /\ marked[i].compressed <=> table[i].compressed \/ table[i].id \in old
  BY <1>1, MarkedRows
<1>5. marked \in Seq(Row) /\ Len(marked) = n /\ n \in Nat
      /\ DOMAIN table = 1 .. n /\ DOMAIN marked = 1 .. n
  BY <1>1, MarkedRows
<1>6. /\ table' \in Seq(Row)
      /\ DOMAIN table' = 1 .. n + 1
      /\ \A i \in DOMAIN table : i \in DOMAIN table' /\ i < n + 1
      /\ \A i \in DOMAIN table' : i \in DOMAIN table \/ i = n + 1
      /\ n + 1 \in DOMAIN table'
      /\ \A i \in DOMAIN table : table'[i] = marked[i]
      /\ table'[n + 1] = row
  <2> HIDE DEF marked, row
  <2> QED
    BY <1>1, <1>2, <1>5
<1> HIDE DEF marked, row, n
<1>7. Types'
  <2>1. NoTask \in [at : {"none", "loading", "asking"}, old : SUBSET Nat]
    BY DEF NoTask
  <2> QED
    BY <1>1, <1>6, <2>1 DEF Types, Row, Kind, Task
<1>8. /\ \A i \in DOMAIN table :
            table[i].id < next /\ \A x \in table[i].covers : x < next
      /\ \A x \in old : x < next
      /\ \A i \in DOMAIN table : table[i].id \in Nat /\ table[i].covers \subseteq Nat
      /\ \A k \in DOMAIN table : old \cap table[k].covers = {}
  BY <1>1, <1>3 DEF MemoryInv, BelowNext, AskedIsNew, Row
<1>9. BelowNext'
  <2>1. \A i \in DOMAIN table' :
          table'[i].id < next' /\ \A x \in table'[i].covers : x < next'
    <3>1. \A x \in Nat : x < next => x < next'
      BY <1>1
    <3>2. next < next'
      BY <1>1
    <3> QED
      BY <1>2, <1>4, <1>6, <1>8, <3>1, <3>2
  <2>2. \A u \in Task : \A x \in task'[u].old : x < next'
    BY <1>1 DEF MemoryInv, BelowNext, NoTask
  <2> QED
    BY <2>1, <2>2 DEF BelowNext, Task
<1>10. CoveredIsMarked'
  <2>1. \A i, k \in DOMAIN table : table[i].id \in table[k].covers => table[i].compressed
    BY DEF MemoryInv, RowInv, CoveredIsMarked
  <2>2. next \notin old /\ \A k \in DOMAIN table : next \notin table[k].covers
    BY <1>1, <1>8
  <2> QED
    BY <1>2, <1>4, <1>6, <2>1, <2>2 DEF CoveredIsMarked
<1>11. MarkedHasSummary'
  <2> SUFFICES ASSUME NEW i \in DOMAIN table', table'[i].compressed,
                      table'[i].kind \notin Summaries
               PROVE  \E k \in DOMAIN table' :
                        /\ k > i /\ table'[k].kind \in Summaries
                        /\ table'[i].id \in table'[k].covers
    BY DEF MarkedHasSummary
  <2>1. i \in DOMAIN table /\ (table[i].compressed \/ table[i].id \in old)
    BY <1>2, <1>4, <1>6
  <2>2. CASE table[i].id \in old
    BY <1>2, <1>4, <1>5, <1>6, <2>1, <2>2
  <2>3. CASE table[i].compressed
    <3>1. PICK k \in DOMAIN table : k > i /\ table[k].kind \in Summaries
                                    /\ table[i].id \in table[k].covers
      BY <1>4, <1>6, <2>1, <2>3
         DEF MemoryInv, RowInv, MarkedHasSummary
    <3> QED
      BY <1>4, <1>6, <2>1, <3>1
  <2> QED
    BY <2>1, <2>2, <2>3
<1>12. SummarisedOnce'
  <2>1. \A i, k \in DOMAIN table : i # k => table[i].covers \cap table[k].covers = {}
    BY DEF MemoryInv, RowInv, SummarisedOnce
  <2> QED
    BY <1>2, <1>4, <1>6, <1>8, <2>1 DEF SummarisedOnce
<1>14. InOrder'
  <2>1. \A i, k \in DOMAIN table : i < k => table[i].id < table[k].id
    BY DEF MemoryInv, RowInv, InOrder
  <2>2. \A i \in DOMAIN table : ~ (n + 1 < i)
    BY <1>6, <1>5
  <2>3. n + 1 \notin DOMAIN table /\ ~ (n + 1 < n + 1)
    BY <1>5
  <2> QED
    BY <1>2, <1>4, <1>6, <1>8, <2>1, <2>2, <2>3 DEF InOrder
<1>13. OneCompression' /\ AskedIsNew'
  <2>1. \A u \in Task : task[u].at # "none" => u = t
    BY <1>1 DEF MemoryInv, OneCompression, Running
  <2>2. \A u \in Task : task'[u].at = "none"
    BY <1>1, <2>1 DEF NoTask
  <2> QED
    BY <2>2 DEF OneCompression, Running, AskedIsNew, Task
<1> QED
  BY <1>7, <1>9, <1>10, <1>11, <1>12, <1>13, <1>14 DEF MemoryInv, RowInv

\* Every step keeps the invariant.
LEMMA NextKeepsMemory ==
    ASSUME MemoryInv, [MemoryNext]_memoryVars
    PROVE  MemoryInv'
<1>1. CASE UNCHANGED memoryVars
  BY <1>1, LessKeepsMemory DEF memoryVars
<1>2. ASSUME NEW kind \in {"user", "assistant"}, Remember(kind),
             UNCHANGED <<task, active>>
      PROVE  MemoryInv'
  <2>1. kind \in Kind
    BY DEF Kind
  <2> QED
    BY <1>2, <2>1, AppendKeepsMemory, LessKeepsMemory DEF Remember
<1>3. CASE RememberUser \/ RememberAssistant
  BY <1>2, <1>3 DEF RememberUser, RememberAssistant
<1>4. CASE ReadHistory \/ TurnFails \/ Clear
  BY <1>4, LessKeepsMemory DEF ReadHistory, TurnFails, Clear
<1>5. CASE AddResult
  <2>1. "result" \in Kind
    BY DEF Kind
  <2> QED
    BY <1>5, <2>1, AppendKeepsMemory DEF AddResult
<1>6. CASE RecordUsage
  BY <1>6, UsageKeepsMemory
<1>7. CASE Crash
  BY <1>7, CrashKeepsMemory
<1>8. ASSUME NEW t \in Task, Compress(t) PROVE MemoryInv'
  <2>1. CASE Load(t)
    BY <2>1, LoadKeepsMemory
  <2>2. CASE Finish(t)
    BY <2>2, FinishKeepsMemory
  <2>3. CASE Fail(t)
    BY <2>3, EndKeepsMemory DEF Fail, EndTask
  <2> QED
    BY <1>8, <2>1, <2>2, <2>3 DEF Compress
<1> QED
  BY <1>1, <1>3, <1>4, <1>5, <1>6, <1>7, <1>8 DEF MemoryNext, Turn

LEMMA InitMemory == MemoryInit => MemoryInv
<1> SUFFICES ASSUME MemoryInit PROVE MemoryInv
  OBVIOUS
<1>1. /\ table = <<>> /\ DOMAIN table = {} /\ next = 0 /\ active = FALSE
      /\ table \in Seq(Row)
      /\ \A t \in Task : task[t].at = "none" /\ task[t].old = {}
      /\ task \in [Task -> [at : {"none", "loading", "asking"},
                                   old : SUBSET Nat]]
  BY DEF MemoryInit, NoTask
<1>2. Types /\ BelowNext
  BY <1>1 DEF Types, BelowNext
<1>3. RowInv
  BY <1>1 DEF RowInv, InOrder, CoveredIsMarked, MarkedHasSummary,
              SummarisedOnce
<1>4. OneCompression /\ AskedIsNew
  BY <1>1 DEF OneCompression, Running, AskedIsNew
<1> QED
  BY <1>2, <1>3, <1>4 DEF MemoryInv

\* Marks, summaries and the compressions under way fit together, whatever turns,
\* results, clears, failures and crashes come between the steps of a compression
\* (memory_writer.py, maybe_compress and _compress).
THEOREM MemoryInvariant == MemorySpec => []MemoryInv
<1>1. MemoryInv /\ [MemoryNext]_memoryVars => MemoryInv'
  BY NextKeepsMemory
<1> QED
  BY InitMemory, <1>1, PTL DEF MemorySpec

\* No message is summarised twice, for any number of messages and any length of
\* the part that is kept (memory_writer.py, _active_compressions).
THEOREM MessagesAreSummarisedOnce == MemorySpec => []SummarisedOnce
<1>1. MemoryInv => SummarisedOnce
  BY DEF MemoryInv, RowInv
<1> QED
  BY <1>1, MemoryInvariant, PTL

\* Each row that a step leaves in the table is in its place, but for one that is
\* added, or they are all gone.
LEMMA RowsStay ==
    ASSUME MemoryInv, MemoryNext
    PROVE  /\ \/ table' = <<>>
              \/ \A i \in DOMAIN table :
                   /\ i \in DOMAIN table' /\ table'[i].id = table[i].id
                   /\ table'[i].kind = table[i].kind
           /\ \A i \in DOMAIN table' :
                \/ i \in DOMAIN table /\ table'[i].id = table[i].id
                \/ table'[i].id = next
           /\ next \in Nat /\ next' \in Nat /\ next <= next'
<1> DEFINE Goal == /\ \/ table' = <<>>
                      \/ \A i \in DOMAIN table :
                           /\ i \in DOMAIN table' /\ table'[i].id = table[i].id
                           /\ table'[i].kind = table[i].kind
                   /\ \A i \in DOMAIN table' :
                        \/ i \in DOMAIN table /\ table'[i].id = table[i].id
                        \/ table'[i].id = next
<1>1. table \in Seq(Row) /\ next \in Nat
  BY DEF MemoryInv, Types
<1>2. ASSUME table' \in {table, <<>>} PROVE Goal
  BY <1>2
<1>3. ASSUME NEW rows, NEW kind, NEW covers, DOMAIN rows = DOMAIN table,
             \A i \in DOMAIN table : rows[i].id = table[i].id /\ rows[i].kind = table[i].kind,
             rows \in Seq(Row),
             table' = Append(rows, New(kind, covers))
      PROVE  Goal
  <2> DEFINE row == New(kind, covers)
  <2>1. row.id = next
    BY DEF New
  <2> HIDE DEF row
  <2>2. /\ \A i \in DOMAIN rows : i \in DOMAIN table' /\ table'[i] = rows[i]
        /\ \A i \in DOMAIN table' :
             \/ i \in DOMAIN rows /\ table'[i] = rows[i]
             \/ table'[i] = row
    BY <1>3 DEF row
  <2> QED
    BY <1>3, <2>1, <2>2
<1>4. ASSUME NEW kind, Remember(kind) PROVE Goal /\ next' = next + 1
  BY <1>1, <1>2, <1>3, <1>4 DEF Remember
<1>5. ASSUME NEW t \in Task, Finish(t) PROVE Goal /\ next' = next + 1
  <2> DEFINE rows == Mark(task[t].old)
  <2>1. /\ DOMAIN rows = DOMAIN table /\ rows \in Seq(Row)
        /\ \A i \in DOMAIN table : rows[i].id = table[i].id /\ rows[i].kind = table[i].kind
    BY <1>1, MarkedRows
  <2>2. PICK kind : table' = Append(rows, New(kind, task[t].old))
    BY <1>5 DEF Finish
  <2>3. next' = next + 1
    BY <1>5 DEF Finish
  <2> HIDE DEF rows
  <2> QED
    BY <1>3, <2>1, <2>2, <2>3
<1>6. ASSUME NEW t \in Task, Load(t) \/ Fail(t) PROVE Goal /\ next' = next
  BY <1>2, <1>6 DEF Load, Fail
<1>7. CASE AddResult
  <2>1. Goal /\ next' = next + 1
    BY <1>1, <1>3, <1>7 DEF AddResult
  <2> QED
    BY <1>1, <2>1
<1>8. CASE RememberUser \/ RememberAssistant
  <2>1. Goal /\ next' = next + 1
    BY <1>4, <1>8 DEF RememberUser, RememberAssistant
  <2> QED
    BY <1>1, <2>1
<1>9. CASE ReadHistory \/ TurnFails \/ RecordUsage \/ Crash \/ Clear
  <2>1. Goal /\ next' = next
    BY <1>2, <1>9 DEF ReadHistory, TurnFails, RecordUsage, Crash, Clear
  <2> QED
    BY <1>1, <2>1
<1>10. CASE \E t \in Task : Compress(t)
  <2>1. Goal /\ next' \in {next, next + 1}
    BY <1>5, <1>6, <1>10 DEF Compress
  <2> QED
    BY <1>1, <2>1
<1> QED
  BY <1>7, <1>8, <1>9, <1>10 DEF MemoryNext, Turn

\* What the last rows hold of a compressed message's summary is given to the model,
\* unless it is the last row and newer than the request's own.
LEMMA ReadIsSummarised ==
    ASSUME MemoryInv, OwnIsThere, TurnType, ReadHistory
    PROVE  CompressedIsSummarised'
<1>1. /\ turn.at = "asked" /\ turn'.own = turn.own
      /\ turn'.read = {table[i] : i \in Recent(HistoryLimit)}
      /\ turn'.given = {table[i] : i \in {k \in Counting : \E last \in Counting : last > k}}
  BY DEF ReadHistory, TurnType
<1>2. /\ table \in Seq(Row) /\ Len(table) \in Nat /\ DOMAIN table = 1 .. Len(table)
      /\ HistoryLimit \in Nat
  BY MemoryAssumption DEF MemoryInv, Types
<1>3. \A i, k \in DOMAIN table : i \in Recent(HistoryLimit) /\ k > i => k \in Recent(HistoryLimit)
  BY <1>2 DEF Recent
<1>4. \A i \in DOMAIN table : table[i].id \in Nat
  <2>1. \A i \in DOMAIN table : table[i] \in Row
    BY <1>2
  <2> QED
    BY <2>1 DEF Row
<1> SUFFICES ASSUME NEW m \in turn'.read, m.compressed, m.kind \notin Summaries
             PROVE  \E s \in turn'.read :
                      /\ s.kind \in Summaries /\ m.id \in s.covers
                      /\ s \in turn'.given \/ \A own \in turn'.own : own < s.id
  BY DEF CompressedIsSummarised
<1>5. PICK i \in Recent(HistoryLimit) : m = table[i]
  BY <1>1
<1>6. i \in DOMAIN table
  BY <1>5 DEF Recent
<1>7. PICK k \in DOMAIN table :
          k > i /\ table[k].kind \in Summaries /\ m.id \in table[k].covers
  BY <1>5, <1>6 DEF MemoryInv, RowInv, MarkedHasSummary
<1>8. k \in Recent(HistoryLimit) /\ k \in Counting
  BY <1>3, <1>5, <1>6, <1>7 DEF Counting
<1>9. CASE \E last \in Counting : last > k
  BY <1>1, <1>7, <1>8, <1>9
<1>10. CASE \A last \in Counting : ~ (last > k)
  <2>1. ASSUME NEW own \in turn.own, ~ (own < table[k].id) PROVE FALSE
    <3>1. own \in Nat /\ table[k].id <= own
      BY <1>4, <2>1 DEF TurnType
    <3>2. PICK j \in DOMAIN table : table[j].id = own /\ table[j].kind \notin Summaries
      BY <1>1, <3>1 DEF OwnIsThere
    <3>3. j # k
      BY <1>7, <3>2
    <3>4. ~ (j < k)
      BY <1>4, <2>1, <3>2 DEF MemoryInv, RowInv, InOrder
    <3>5. j > k
      BY <1>2, <3>3, <3>4
    <3>6. CASE ~ table[j].compressed
      <4>1. j \in Counting
        BY <1>3, <1>8, <3>5, <3>6 DEF Counting
      <4> QED
        BY <1>10, <3>5, <4>1
    <3>7. CASE table[j].compressed
      <4>1. PICK l \in DOMAIN table : l > j /\ table[l].kind \in Summaries
        BY <3>2, <3>7 DEF MemoryInv, RowInv, MarkedHasSummary
      <4>2. l > k
        BY <1>2, <3>5, <4>1
      <4>3. l \in Counting
        BY <1>3, <1>8, <4>1, <4>2 DEF Counting
      <4> QED
        BY <1>10, <4>2, <4>3
    <3> QED
      BY <3>6, <3>7
  <2> QED
    BY <1>1, <1>7, <1>8, <2>1
<1> QED
  BY <1>9, <1>10

\* Beside the turn, its own row stays; it adds it and reads the history.
LEMMA TurnKeeps ==
    ASSUME MemoryInv, TurnInv, [MemoryNext]_memoryVars
    PROVE  TurnInv'
<1>1. TurnType /\ OwnIsThere /\ CompressedIsSummarised
  BY DEF TurnInv
<1>2. CASE UNCHANGED memoryVars
  BY <1>1, <1>2 DEF memoryVars, TurnInv, TurnType, OwnIsThere, CompressedIsSummarised
<1>3. CASE turn' = NoTurn
  BY <1>3 DEF NoTurn, TurnInv, TurnType, OwnIsThere, CompressedIsSummarised
<1>4. CASE MemoryNext /\ UNCHANGED turn
  <2>1. CompressedIsSummarised'
    BY <1>1, <1>4 DEF CompressedIsSummarised
  <2>2. TurnType'
    BY <1>1, <1>4 DEF TurnType, Row, Kind
  <2>3. ASSUME turn.at = "asked", NEW own \in turn.own
        PROVE  /\ own < next'
               /\ \A i \in DOMAIN table' : table'[i].id <= own =>
                     \E k \in DOMAIN table' :
                        table'[k].id = own /\ table'[k].kind \notin Summaries
    <3>1. own \in Nat /\ own < next
      BY <1>1, <2>3 DEF TurnType, OwnIsThere
    <3>2. own < next' /\ ~ (next <= own)
      BY <1>4, <3>1, RowsStay
    <3>3. ASSUME NEW i \in DOMAIN table', table'[i].id <= own
          PROVE  \E k \in DOMAIN table' :
                    table'[k].id = own /\ table'[k].kind \notin Summaries
      <4>1. i \in DOMAIN table /\ table'[i].id = table[i].id
        BY <1>4, <3>2, <3>3, RowsStay
      <4>2. PICK k \in DOMAIN table : table[k].id = own /\ table[k].kind \notin Summaries
        BY <1>1, <2>3, <3>3, <4>1 DEF OwnIsThere
      <4>3. table' # <<>>
        BY <3>3
      <4> QED
        BY <1>4, <4>2, <4>3, RowsStay
    <3> QED
      BY <3>2, <3>3
  <2>4. OwnIsThere'
    BY <1>4, <2>3 DEF OwnIsThere
  <2> QED
    BY <2>1, <2>2, <2>4 DEF TurnInv
<1>5. CASE RememberUser
  <2>1. /\ table \in Seq(Row) /\ next \in Nat
        /\ table' = Append(table, New("user", {})) \/ table' = table
        /\ next' = next + 1
    BY <1>5 DEF RememberUser, Remember, MemoryInv, Types
  <2>2. /\ turn'.at = "asked" /\ turn'.own = Ids(table') \ Ids(table)
        /\ turn'.read = {} /\ turn'.given = {}
    BY <1>5 DEF RememberUser, NoTurn
  <2>3. CASE table' = table
    <3>1. turn'.own = {}
      BY <2>2, <2>3
    <3>2. turn' = [at |-> "asked", own |-> {}, read |-> {}, given |-> {}]
      BY <1>5, <3>1 DEF RememberUser, NoTurn
    <3> QED
      BY <2>2, <3>1, <3>2 DEF TurnInv, TurnType, OwnIsThere, CompressedIsSummarised
  <2>4. CASE table' = Append(table, New("user", {}))
    <3> DEFINE row == New("user", {})
               n == Len(table)
    <3>1. row.id = next /\ row.kind \notin Summaries
      BY DEF New, Summaries
    <3> HIDE DEF row
    <3>2. /\ \A i \in DOMAIN table' : (i \in DOMAIN table /\ table'[i] = table[i]) \/ table'[i] = row
          /\ n + 1 \in DOMAIN table' /\ table'[n + 1] = row
      BY <2>1, <2>4 DEF row
    <3>3. turn'.own \subseteq {next}
      BY <2>2, <3>1, <3>2 DEF Ids
    <3>4. turn' = [at |-> "asked", own |-> turn'.own, read |-> {}, given |-> {}]
      BY <1>5 DEF RememberUser, NoTurn
    <3>5. TurnType'
      BY <2>1, <3>3, <3>4 DEF TurnType
    <3>6. OwnIsThere'
      BY <2>1, <3>1, <3>2, <3>3 DEF OwnIsThere
    <3>7. CompressedIsSummarised'
      BY <2>2 DEF CompressedIsSummarised
    <3> QED
      BY <3>5, <3>6, <3>7 DEF TurnInv
  <2> QED
    BY <2>1, <2>3, <2>4
<1>6. CASE ReadHistory
  <2>1. Recent(HistoryLimit) \subseteq DOMAIN table /\ Counting \subseteq DOMAIN table
    BY DEF Recent, Counting
  <2>2. \A i \in DOMAIN table : table[i] \in Row
    BY DEF MemoryInv, Types
  <2>3. /\ {table[i] : i \in Recent(HistoryLimit)} \subseteq Row
        /\ {table[i] : i \in {k \in Counting : \E last \in Counting : last > k}} \subseteq Row
    BY <2>1, <2>2
  <2>4. TurnType'
    BY <1>1, <1>6, <2>3 DEF ReadHistory, TurnType, Row, Kind
  <2>5. OwnIsThere'
    BY <1>1, <1>6 DEF ReadHistory, TurnType, OwnIsThere
  <2> QED
    BY <1>1, <1>6, <2>4, <2>5, ReadIsSummarised DEF TurnInv
<1>7. CASE RememberAssistant
  <2>1. /\ turn'.at = "answered" /\ turn'.own = turn.own
        /\ turn'.read = turn.read /\ turn'.given = turn.given
    BY <1>1, <1>7 DEF RememberAssistant, TurnType
  <2>2. TurnType'
    BY <1>1, <1>7 DEF RememberAssistant, TurnType, Row, Kind
  <2> QED
    BY <1>1, <2>1, <2>2 DEF TurnInv, OwnIsThere, CompressedIsSummarised
<1>8. CASE AddResult \/ Clear \/ \E t \in Task : Compress(t)
  <2>1. MemoryNext
    BY <1>8 DEF MemoryNext
  <2>2. UNCHANGED turn
    BY <1>8 DEF AddResult, Clear, Compress, Load, Finish, Fail
  <2> QED
    BY <1>4, <2>1, <2>2
<1>9. CASE TurnFails \/ RecordUsage \/ Crash
  BY <1>3, <1>9 DEF TurnFails, RecordUsage, Crash
<1> QED
  BY <1>2, <1>5, <1>6, <1>7, <1>8, <1>9 DEF MemoryNext, Turn

\* A turn that reads the end of the history gives the model a summary of every
\* compressed message it leaves out, or the placeholder of an empty one, unless that
\* came after the request and is dropped in place of it (base.py,
\* _get_history_with_meta; personal_assistant.py, reply_stream; memory_writer.py,
\* which appends the summary to the rows it marks).
THEOREM WhatIsLeftOutIsSummarised == MemorySpec => []CompressedIsSummarised
<1>1. MemoryInit => TurnInv
  BY DEF MemoryInit, NoTurn, TurnInv, TurnType, OwnIsThere, CompressedIsSummarised
<1>2. MemoryInv /\ TurnInv /\ [MemoryNext]_memoryVars => TurnInv'
  BY TurnKeeps
<1>3. TurnInv => CompressedIsSummarised
  BY DEF TurnInv
<1> QED
  BY <1>1, <1>2, <1>3, MemoryInvariant, PTL DEF MemorySpec

-----------------------------------------------------------------------------
(* What was cleared                                                        *)

\* Each row that a step leaves in the table was there, or is the next one.
LEMMA NothingComesBack ==
    ASSUME MemoryInv, MemoryNext
    PROVE  \A m \in Range(table') : m.id \in Ids(table) \/ m.id >= next
<1>1. \A i \in DOMAIN table : table[i].id \in Ids(table)
  BY DEF Ids
<1> QED
  BY <1>1, RowsStay DEF Range

\* A row that was cleared is not written again by a compression that still holds
\* its id (memory_writer.py, mark_compressed).
THEOREM ClearedRowsStayCleared == MemorySpec => ClearedStaysCleared
<1> DEFINE Step == \A m \in Range(table') :
                      m.id \in Ids(table) \/ m.id >= next
<1>1. MemoryInv /\ [MemoryNext]_memoryVars => [Step]_(memoryVars)
  BY NothingComesBack
<1> QED
  BY <1>1, MemoryInvariant, PTL DEF MemorySpec, ClearedStaysCleared
================================================================================
