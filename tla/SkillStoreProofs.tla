--------------------------- MODULE SkillStoreProofs ---------------------------
(***************************************************************************)
(* What becomes of the row of a skill: whether it is enabled is changed by *)
(* toggles only, and a deleted row is revived by new installs only, however*)
(* the operations overlap.  Both hold because an operation that holds the  *)
(* write lock wants to write the row as it is now, merged with its own     *)
(* change (WriterInv), and because the others cannot touch it meanwhile.   *)
(*                                                                         *)
(* And how many snapshots it has: an install that is alone leaves at most  *)
(* MAX_VERSIONS, because what it listed is what there is until it has made *)
(* room (AloneInv); where nothing runs outside the event loop, every       *)
(* install is alone.                                                       *)
(***************************************************************************)
EXTENDS SkillStore, FiniteSetTheorems, TLAPS

AnyRow == [there : BOOLEAN, version : Version \cup {None}, on : BOOLEAN]

Acting == [at : Places, op : Op \cup {None}, version : Version \cup {None},
           seen : AnyRow, list : SUBSET Nat, new : AnyRow]

TypeInv ==
    /\ row \in AnyRow
    /\ writer \in Actor \cup {None}
    /\ snaps \subseteq Nat
    /\ act \in [Actor -> Acting]

\* Whoever works has an operation, and has seen the row if the operation needs
\* one and has looked.
Sound(x) ==
    x.at # "idle" =>
        /\ x.op \in Op
        /\ x.op # "install" /\ x.at # "get" => x.seen.there

SoundInv == \A a \in Actor : Sound(act[a])

\* Who holds the write lock is about to commit, and what it will commit fits the
\* row as it is.
WriterInv ==
    \A a \in Actor : writer = a =>
        /\ act[a].at = "commit"
        /\ act[a].new.there /\ ~row.there
             => act[a].op = "install" /\ ~act[a].seen.there
        /\ act[a].new.there /\ row.there /\ act[a].op # "toggle"
             => act[a].new.on = row.on

IInv == TypeInv /\ SoundInv /\ WriterInv

LEMMA IdleIsSound == Idle \in Acting /\ Sound(Idle) /\ Idle.at = "idle"
  BY DEF Idle, Acting, Sound, Places, NoRow, AnyRow

LEMMA InitEstablishes == Init => IInv
<1> SUFFICES ASSUME Init PROVE IInv
  OBVIOUS
<1>1. TypeInv
  BY IdleIsSound DEF Init, TypeInv, NoRow, AnyRow
<1>2. SoundInv
  BY IdleIsSound DEF Init, SoundInv
<1>3. WriterInv
  BY ActorAssumption DEF Init, WriterInv, None
<1> QED
  BY <1>1, <1>2, <1>3 DEF IInv

-----------------------------------------------------------------------------
(* Kinds of steps.                                                         *)

\* An actor that does not hold the lock goes from one place to another.
LEMMA MoveKeeps ==
    ASSUME IInv, NEW a \in Actor, NEW x \in Acting, Sound(x),
           act' = [act EXCEPT ![a] = x], act[a].at # "commit",
           row' = row, writer' = writer, snaps' \subseteq Nat
    PROVE  IInv'
<1>1. act'[a] = x /\ \A b \in Actor \ {a} : act'[b] = act[b]
  BY DEF IInv, TypeInv
<1>2. writer # a
  BY DEF IInv, WriterInv
<1>3. TypeInv'
  BY DEF IInv, TypeInv
<1>4. SoundInv'
  BY <1>1 DEF IInv, SoundInv
<1>5. WriterInv'
  <2> SUFFICES ASSUME NEW b \in Actor, writer' = b
               PROVE  /\ act'[b].at = "commit"
                      /\ act'[b].new.there /\ ~row'.there
                           => act'[b].op = "install" /\ ~act'[b].seen.there
                      /\ act'[b].new.there /\ row'.there
                           /\ act'[b].op # "toggle"
                           => act'[b].new.on = row'.on
    BY DEF WriterInv
  <2>1. b # a /\ writer = b /\ act'[b] = act[b]
    BY <1>1, <1>2
  <2> QED
    BY <2>1 DEF IInv, WriterInv
<1> QED
  BY <1>3, <1>4, <1>5 DEF IInv

LEMMA GotoKeeps ==
    ASSUME IInv, NEW a \in Actor, NEW place \in Places, Goto(a, place),
           act[a].at \notin {"idle", "commit", "get"},
           row' = row, writer' = writer, snaps' \subseteq Nat
    PROVE  IInv'
<1> DEFINE x == [act[a] EXCEPT !.at = place]
<1>1. act[a] \in Acting /\ Sound(act[a])
  BY DEF IInv, TypeInv, SoundInv
<1>2. x \in Acting /\ Sound(x)
  BY <1>1 DEF Acting, Sound
<1>3. act' = [act EXCEPT ![a] = x]
  BY DEF Goto
<1> HIDE DEF x
<1> QED
  BY <1>2, <1>3, MoveKeeps

LEMMA EndKeeps ==
    ASSUME IInv, NEW a \in Actor, End(a), act[a].at # "commit",
           row' = row, writer' = writer, snaps' \subseteq Nat
    PROVE  IInv'
  BY IdleIsSound, MoveKeeps DEF End

\* An actor ends and gives the lock back if it held it.
LEMMA ReleaseKeeps ==
    ASSUME IInv, NEW a \in Actor, End(a), row' \in AnyRow, snaps' \subseteq Nat,
           writer' = IF writer = a THEN None ELSE writer,
           writer # a => row' = row
    PROVE  IInv'
<1>1. act'[a] = Idle /\ \A b \in Actor \ {a} : act'[b] = act[b]
  BY DEF IInv, TypeInv, End
<1>2. TypeInv'
  BY IdleIsSound DEF IInv, TypeInv, End
<1>3. SoundInv'
  BY <1>1, IdleIsSound DEF IInv, SoundInv
<1>4. WriterInv'
  <2> SUFFICES ASSUME NEW b \in Actor, writer' = b
               PROVE  /\ act'[b].at = "commit"
                      /\ act'[b].new.there /\ ~row'.there
                           => act'[b].op = "install" /\ ~act'[b].seen.there
                      /\ act'[b].new.there /\ row'.there
                           /\ act'[b].op # "toggle"
                           => act'[b].new.on = row'.on
    BY DEF WriterInv
  <2>1. writer # a /\ writer = b
    BY ActorAssumption DEF None
  <2>2. b # a /\ row' = row /\ act'[b] = act[b]
    BY <1>1, <2>1
  <2> QED
    BY <2>1, <2>2 DEF IInv, WriterInv
<1> QED
  BY <1>2, <1>3, <1>4 DEF IInv

-----------------------------------------------------------------------------
(* The actions.                                                            *)

LEMMA BeginKeeps ==
    ASSUME IInv, NEW a \in Actor, BeginInstall(a) \/ Begin(a)
    PROVE  IInv'
<1>1. /\ act[a].at # "commit" /\ snaps \subseteq Nat
      /\ UNCHANGED <<files, database>>
  <2>1. act[a] = Idle /\ UNCHANGED <<files, database>>
    BY DEF BeginInstall, Begin
  <2> QED
    BY <2>1, IdleIsSound DEF IInv, TypeInv
<1>2. CASE BeginInstall(a)
  <2>1. PICK v \in Version : act' = [act EXCEPT ![a] =
            [Idle EXCEPT !.at = "fetched", !.op = "install", !.version = v]]
    BY <1>2 DEF BeginInstall
  <2> DEFINE x == [Idle EXCEPT !.at = "fetched", !.op = "install",
                               !.version = v]
  <2>2. x \in Acting /\ Sound(x)
    BY IdleIsSound DEF Acting, Sound, Places, Op, Idle
  <2> HIDE DEF x
  <2> QED
    BY <1>1, <2>1, <2>2, MoveKeeps DEF x, files, database
<1>3. CASE Begin(a)
  <2>1. PICK op \in Op \ {"install"} : act' = [act EXCEPT ![a] =
            [Idle EXCEPT !.at = "get", !.op = op]]
    BY <1>3 DEF Begin
  <2> DEFINE x == [Idle EXCEPT !.at = "get", !.op = op]
  <2>2. x \in Acting /\ Sound(x)
    BY IdleIsSound DEF Acting, Sound, Places, Op, Idle
  <2> HIDE DEF x
  <2> QED
    BY <1>1, <2>1, <2>2, MoveKeeps DEF x, files, database
<1> QED
  BY <1>2, <1>3

LEMMA GetKeeps ==
    ASSUME IInv, NEW a \in Actor, Get(a)
    PROVE  IInv'
<1>1. /\ act[a].at = "get" /\ UNCHANGED <<files, database>>
      /\ snaps \subseteq Nat /\ row \in AnyRow
      /\ act[a] \in Acting /\ Sound(act[a])
  BY DEF Get, IInv, TypeInv, SoundInv
<1>2. CASE act[a].op # "install" /\ ~row.there
  BY <1>1, <1>2, EndKeeps DEF Get, files, database
<1>3. CASE ~(act[a].op # "install" /\ ~row.there)
  <2> DEFINE x == [act[a] EXCEPT !.seen = row,
                        !.at = IF act[a].op \in {"install", "toggle"}
                               THEN "flush" ELSE "got"]
  <2>1. x \in Acting /\ Sound(x)
    BY <1>1, <1>3 DEF Acting, Sound, Places
  <2>2. act' = [act EXCEPT ![a] = x]
    BY <1>3 DEF Get
  <2> HIDE DEF x
  <2> QED
    BY <1>1, <2>1, <2>2, MoveKeeps DEF files, database
<1> QED
  BY <1>2, <1>3

LEMMA BackupKeeps ==
    ASSUME IInv, NEW a \in Actor,
           ReadOld(a) \/ Evict(a) \/ Shift(a) \/ Copy(a) \/ Copied(a)
    PROVE  IInv'
<1>1. /\ snaps \subseteq Nat /\ row' = row /\ writer' = writer
      /\ act[a].at \notin {"idle", "commit", "get"}
      /\ act[a] \in Acting /\ Sound(act[a])
  BY DEF ReadOld, Evict, Shift, Copy, Copied, database, IInv, TypeInv, SoundInv
<1>2. CASE ReadOld(a)
  <2>1. snaps' \subseteq Nat
    BY <1>1, <1>2 DEF ReadOld, files
  <2>2. CASE act' = [act EXCEPT ![a].at = "backup", ![a].list = snaps]
    <3> DEFINE x == [act[a] EXCEPT !.at = "backup", !.list = snaps]
    <3>1. x \in Acting /\ Sound(x)
      BY <1>1 DEF Acting, Sound, Places, Filing
    <3>2. act' = [act EXCEPT ![a] = x]
      BY <2>2
    <3> HIDE DEF x
    <3> QED
      BY <1>1, <2>1, <3>1, <3>2, MoveKeeps
  <2>3. CASE Goto(a, "place")
    BY <1>1, <2>1, <2>3, GotoKeeps DEF Places, Filing
  <2>4. CASE End(a)
    BY <1>1, <2>1, <2>4, EndKeeps
  <2> QED
    BY <1>2, <2>2, <2>3, <2>4 DEF ReadOld
<1>3. CASE Evict(a)
  <2> DEFINE x == [act[a] EXCEPT !.list = @ \ {Max(@)}]
  <2>1. x \in Acting /\ Sound(x)
    BY <1>1 DEF Acting, Sound
  <2>2. act' = [act EXCEPT ![a] = x] /\ snaps' \subseteq Nat
    BY <1>1, <1>3 DEF Evict
  <2> HIDE DEF x
  <2> QED
    BY <1>1, <2>1, <2>2, MoveKeeps
<1>4. CASE Shift(a)
  <2> DEFINE i == Max(act[a].list)
  <2>1. CASE i \in snaps /\ i + 1 \notin snaps
    <3> DEFINE x == [act[a] EXCEPT !.list = @ \ {i}]
    <3>1. x \in Acting /\ Sound(x)
      BY <1>1 DEF Acting, Sound
    <3>2. act' = [act EXCEPT ![a] = x]
          /\ snaps' = (snaps \ {i}) \cup {i + 1}
      BY <1>4, <2>1 DEF Shift
    <3>3. snaps' \subseteq Nat
      BY <1>1, <2>1, <3>2
    <3> HIDE DEF x
    <3> QED
      BY <1>1, <3>1, <3>2, <3>3, MoveKeeps
  <2>2. CASE ~(i \in snaps /\ i + 1 \notin snaps)
    BY <1>1, <1>4, <2>2, EndKeeps DEF Shift
  <2> QED
    BY <2>1, <2>2
<1>5. CASE Copy(a)
  <2>1. CASE snaps' = snaps \cup {0} /\ Goto(a, "copying")
    <3>1. snaps' \subseteq Nat /\ "copying" \in Places
      BY <1>1, <2>1 DEF Places, Filing
    <3> QED
      BY <1>1, <2>1, <3>1, GotoKeeps
  <2>2. CASE UNCHANGED snaps /\ End(a)
    BY <1>1, <2>2, EndKeeps
  <2> QED
    BY <1>5, <2>1, <2>2 DEF Copy
<1>6. CASE Copied(a)
  <2>1. snaps' \subseteq Nat
    BY <1>1, <1>6 DEF Copied, files
  <2>2. CASE Goto(a, "remove")
    BY <1>1, <2>1, <2>2, GotoKeeps DEF Places, Filing
  <2>3. CASE End(a)
    BY <1>1, <2>1, <2>3, EndKeeps
  <2> QED
    BY <1>6, <2>2, <2>3 DEF Copied
<1> QED
  BY <1>2, <1>3, <1>4, <1>5, <1>6

LEMMA PlaceKeeps ==
    ASSUME IInv, NEW a \in Actor,
           Remove(a) \/ Place(a) \/ Placed(a) \/ Load(a)
    PROVE  IInv'
<1>1. /\ snaps' \subseteq Nat /\ row' = row /\ writer' = writer
      /\ act[a].at \notin {"idle", "commit", "get"}
  BY DEF Remove, Place, Placed, Load, files, database, IInv, TypeInv
<1>2. ASSUME NEW place \in Places, Goto(a, place) PROVE IInv'
  BY <1>1, <1>2, GotoKeeps
<1>3. ASSUME End(a) PROVE IInv'
  BY <1>1, <1>3, EndKeeps
<1>4. CASE Load(a)
  <2>1. CASE act[a].op = "install"
    <3>1. CASE Goto(a, "get")
      BY <1>2, <3>1 DEF Places
    <3> QED
      BY <1>3, <1>4, <2>1, <3>1 DEF Load
  <2>2. CASE act[a].op # "install"
    <3>1. CASE Goto(a, "flush")
      BY <1>2, <3>1 DEF Places
    <3> QED
      BY <1>3, <1>4, <2>2, <3>1 DEF Load
  <2> QED
    BY <2>1, <2>2
<1>5. CASE Remove(a) \/ Place(a) \/ Placed(a)
  <2>1. {"place", "placing", "load"} \subseteq Places
    BY DEF Places, Filing
  <2> QED
    BY <1>2, <1>3, <1>5, <2>1 DEF Remove, Place, Placed
<1> QED
  BY <1>4, <1>5

LEMMA RemovingKeeps ==
    ASSUME IInv, NEW a \in Actor, Removing(a)
    PROVE  IInv'
<1>1. /\ snaps \subseteq Nat /\ row' = row /\ writer' = writer
      /\ snaps' \subseteq snaps
      /\ act[a].at \notin {"idle", "commit", "get"}
      /\ act[a] \in Acting /\ Sound(act[a])
  BY DEF Removing, Restore, RemoveInstalled, DropSnapshots, database, IInv,
         TypeInv, SoundInv
<1>2. CASE Restore(a)
  <2>1. CASE End(a)
    BY <1>1, <2>1, EndKeeps
  <2>2. CASE \E v \in Version :
                act' = [act EXCEPT ![a].at = "place", ![a].version = v]
    <3>1. PICK v \in Version :
            act' = [act EXCEPT ![a].at = "place", ![a].version = v]
      BY <2>2
    <3> DEFINE x == [act[a] EXCEPT !.at = "place", !.version = v]
    <3>2. x \in Acting /\ Sound(x)
      BY <1>1 DEF Acting, Sound, Places, Filing
    <3>3. act' = [act EXCEPT ![a] = x]
      BY <3>1
    <3> HIDE DEF x
    <3> QED
      BY <1>1, <3>2, <3>3, MoveKeeps
  <2> QED
    BY <1>2, <2>1, <2>2 DEF Restore
<1>3. CASE RemoveInstalled(a)
  BY <1>1, <1>3, GotoKeeps DEF RemoveInstalled, Places, Filing
<1>4. CASE DropSnapshots(a)
  BY <1>1, <1>4, GotoKeeps DEF DropSnapshots, Places
<1> QED
  BY <1>2, <1>3, <1>4 DEF Removing

LEMMA FlushKeeps ==
    ASSUME IInv, NEW a \in Actor, Flush(a)
    PROVE  IInv'
<1>1. /\ act[a].at = "flush" /\ writer = None
      /\ UNCHANGED <<files, row>> /\ snaps' = snaps
      /\ snaps \subseteq Nat /\ row \in AnyRow
      /\ act \in [Actor -> Acting]
      /\ act[a] \in Acting /\ Sound(act[a])
  BY DEF Flush, files, IInv, TypeInv, SoundInv
<1>2. PICK new \in Wanted(a) :
        IF new = act[a].seen THEN Goto(a, "commit") /\ UNCHANGED writer
        ELSE IF new.there /\ act[a].seen.there # row.there
        THEN End(a) /\ UNCHANGED writer
        ELSE /\ writer' = a
             /\ act' = [act EXCEPT ![a].at = "commit",
                            ![a].new = IF new.there /\ row.there
                                       THEN Merged(act[a].seen, new) ELSE new]
  BY DEF Flush
<1>3. CASE Goto(a, "commit") /\ UNCHANGED writer
  BY <1>1, <1>3, GotoKeeps DEF Places
<1>4. CASE End(a) /\ UNCHANGED writer
  BY <1>1, <1>4, EndKeeps
<1>5. CASE /\ ~(new.there /\ act[a].seen.there # row.there)
           /\ writer' = a
           /\ act' = [act EXCEPT ![a].at = "commit",
                          ![a].new = IF new.there /\ row.there
                                     THEN Merged(act[a].seen, new) ELSE new]
  <2> DEFINE goal == IF new.there /\ row.there
                     THEN Merged(act[a].seen, new) ELSE new
             x == [act[a] EXCEPT !.at = "commit", !.new = goal]
  <2>1. act[a].seen \in AnyRow /\ act[a].version \in Version \cup {None}
        /\ act[a].op \in Op
    BY <1>1 DEF Acting, Sound
  <2>2. /\ new \in AnyRow
        /\ new.there /\ ~act[a].seen.there => act[a].op = "install"
        /\ new.there /\ act[a].seen.there /\ act[a].op # "toggle"
             => new.on = act[a].seen.on
    <3>1. CASE act[a].op = "uninstall"
      <4>1. new = NoRow
        BY <3>1 DEF Wanted
      <4> QED
        BY <4>1 DEF NoRow, AnyRow
    <3>2. CASE act[a].op = "toggle"
      <4>1. PICK on \in BOOLEAN : new = [act[a].seen EXCEPT !.on = on]
        BY <3>2 DEF Wanted
      <4>2. act[a].seen.there
        BY <1>1, <3>2 DEF Sound
      <4> QED
        BY <2>1, <3>2, <4>1, <4>2 DEF AnyRow
    <3>3. CASE act[a].op \in {"install", "rollback"} /\ act[a].seen.there
      <4>1. new = [act[a].seen EXCEPT !.version = act[a].version]
        BY <3>3 DEF Wanted
      <4> QED
        BY <2>1, <3>3, <4>1 DEF AnyRow
    <3>4. CASE act[a].op \in {"install", "rollback"} /\ ~act[a].seen.there
      <4>1. new = [there |-> TRUE, version |-> act[a].version, on |-> TRUE]
        BY <3>4 DEF Wanted
      <4>2. act[a].op = "install"
        BY <1>1, <3>4 DEF Sound
      <4> QED
        BY <2>1, <3>4, <4>1, <4>2 DEF AnyRow
    <3> QED
      BY <2>1, <3>1, <3>2, <3>3, <3>4 DEF Op
  <2>3. /\ goal \in AnyRow
        /\ goal.there /\ ~row.there
             => act[a].op = "install" /\ ~act[a].seen.there
        /\ goal.there /\ row.there /\ act[a].op # "toggle"
             => goal.on = row.on
    <3>1. CASE new.there /\ row.there
      <4>1. goal = Merged(act[a].seen, new) /\ act[a].seen.there
        BY <1>5, <2>1, <3>1 DEF AnyRow
      <4>2. goal = [row EXCEPT
                !.version = IF new.version = act[a].seen.version
                            THEN @ ELSE new.version,
                !.on = IF new.on = act[a].seen.on THEN @ ELSE new.on]
        BY <4>1 DEF Merged
      <4> HIDE DEF goal
      <4> QED
        BY <1>1, <2>1, <2>2, <3>1, <4>1, <4>2 DEF AnyRow
    <3>2. CASE ~(new.there /\ row.there)
      <4>1. goal = new
        BY <3>2
      <4>2. new.there => ~row.there /\ ~act[a].seen.there
        BY <1>1, <1>5, <2>1, <3>2 DEF AnyRow
      <4> HIDE DEF goal
      <4> QED
        BY <2>2, <4>1, <4>2
    <3> QED
      BY <3>1, <3>2
  <2> HIDE DEF goal
  <2>4. x \in Acting /\ Sound(x)
    BY <1>1, <2>3 DEF Acting, Sound, Places
  <2>5. act' = [act EXCEPT ![a] = x]
    BY <1>5 DEF goal
  <2>6. act'[a] = x /\ \A b \in Actor \ {a} : act'[b] = act[b]
    BY <1>1, <2>5
  <2>7. x.at = "commit" /\ x.new = goal /\ x.op = act[a].op
        /\ x.seen = act[a].seen
    BY <1>1 DEF Acting
  <2> HIDE DEF x
  <2>8. TypeInv'
    BY <1>1, <1>5, <2>4, <2>5 DEF IInv, TypeInv
  <2>9. SoundInv'
    BY <2>4, <2>6 DEF IInv, SoundInv
  <2>10. WriterInv'
    BY <1>1, <1>5, <2>3, <2>6, <2>7 DEF WriterInv
  <2> QED
    BY <2>8, <2>9, <2>10 DEF IInv
<1> QED
  BY <1>2, <1>3, <1>4, <1>5

LEMMA LockedKeeps ==
    ASSUME IInv, NEW a \in Actor, Locked(a)
    PROVE  IInv'
  BY EndKeeps DEF Locked, files, database, IInv, TypeInv

LEMMA CommitKeeps ==
    ASSUME IInv, NEW a \in Actor, Commit(a)
    PROVE  IInv'
<1>1. row' \in AnyRow /\ snaps' \subseteq Nat /\ (writer # a => row' = row)
  BY DEF Commit, files, IInv, TypeInv, Acting
<1> QED
  BY <1>1, ReleaseKeeps DEF Commit

LEMMA BreakKeeps ==
    ASSUME IInv, NEW a \in Actor, Break(a)
    PROVE  IInv'
<1>1. row' \in AnyRow /\ snaps' \subseteq Nat /\ row' = row
  BY DEF Break, IInv, TypeInv
<1> QED
  BY <1>1, ReleaseKeeps DEF Break

LEMMA NextKeeps == IInv /\ [Next]_vars => IInv'
<1> SUFFICES ASSUME IInv, [Next]_vars PROVE IInv'
  OBVIOUS
<1>1. ASSUME NEW a \in Actor, BeginInstall(a) \/ Begin(a) PROVE IInv'
  BY <1>1, BeginKeeps
<1>2. ASSUME NEW a \in Actor, Installing(a) PROVE IInv'
  BY <1>2, BackupKeeps, PlaceKeeps DEF Installing
<1>3. ASSUME NEW a \in Actor, Removing(a) PROVE IInv'
  BY <1>3, RemovingKeeps
<1>4. ASSUME NEW a \in Actor, Recording(a) PROVE IInv'
  BY <1>4, GetKeeps, FlushKeeps, LockedKeeps, CommitKeeps DEF Recording
<1>5. ASSUME NEW a \in Actor, Break(a) PROVE IInv'
  BY <1>5, BreakKeeps
<1>6. CASE UNCHANGED vars
  BY <1>6 DEF vars, files, database, IInv, TypeInv, SoundInv, WriterInv
<1> QED
  BY <1>1, <1>2, <1>3, <1>4, <1>5, <1>6 DEF Next, GoOn

\* Whoever holds the write lock wants to write the row as it is, merged with its
\* own change, however the operations of the API and of skill_cli overlap and
\* break.
THEOREM InductiveInvariant == Spec => []IInv
<1> QED
  BY InitEstablishes, NextKeeps, PTL DEF Spec

-----------------------------------------------------------------------------
(* The row.                                                                *)

\* The row changes only when the one who holds the lock commits.
LEMMA OnlyCommitChangesRow ==
    ASSUME IInv, [Next]_vars, row' # row
    PROVE  \E a \in Actor : /\ Commit(a) /\ writer = a /\ row' = act[a].new
                            /\ act'[a] = Idle
<1>1. PICK a \in Actor : Commit(a)
  BY DEF Next, GoOn, Installing, Removing, Recording, BeginInstall, Begin,
         Break, ReadOld, Evict, Shift, Copy, Copied, Remove, Place, Placed,
         Load, Restore, RemoveInstalled, DropSnapshots, Get, Flush, Locked,
         vars, files, database
<1>2. writer = a /\ row' = act[a].new
  BY <1>1 DEF Commit
<1>3. act'[a] = Idle
  BY <1>1 DEF Commit, End, IInv, TypeInv
<1> QED
  BY <1>1, <1>2, <1>3

\* An install or a rollback that overlaps a toggle does not undo it, for any
\* number of operations, versions and snapshots.
THEOREM TogglesAreKept == Spec => TogglesKept
<1> DEFINE Step == row.there /\ row'.there /\ row.on # row'.on
              => \E a \in Actor : act[a].op = "toggle" /\ act'[a] = Idle
<1>1. IInv /\ [Next]_vars => Step
  <2> SUFFICES ASSUME IInv, [Next]_vars,
                      row.there /\ row'.there /\ row.on # row'.on
               PROVE  \E a \in Actor : act[a].op = "toggle" /\ act'[a] = Idle
    OBVIOUS
  <2>1. PICK a \in Actor : writer = a /\ row' = act[a].new /\ act'[a] = Idle
    BY OnlyCommitChangesRow
  <2>2. act[a].op = "toggle"
    BY <2>1 DEF IInv, WriterInv
  <2> QED
    BY <2>1, <2>2
<1>2. IInv /\ [Next]_vars => [Step]_vars
  BY <1>1
<1> QED
  BY <1>2, InductiveInvariant, PTL DEF TogglesKept, Spec

\* A deleted row comes back only by an install that began without it, however
\* operations that had read it go on.
THEOREM DeletedRowsStayDeleted == Spec => DeletedStaysDeleted
<1> DEFINE Step == ~row.there /\ row'.there
              => \E a \in Actor : act[a].op = "install" /\ ~act[a].seen.there
                                  /\ act'[a] = Idle
<1>1. IInv /\ [Next]_vars => Step
  <2> SUFFICES ASSUME IInv, [Next]_vars, ~row.there /\ row'.there
               PROVE  \E a \in Actor : /\ act[a].op = "install"
                                       /\ ~act[a].seen.there /\ act'[a] = Idle
    OBVIOUS
  <2>1. PICK a \in Actor : writer = a /\ row' = act[a].new /\ act'[a] = Idle
    BY OnlyCommitChangesRow
  <2>2. act[a].op = "install" /\ ~act[a].seen.there
    BY <2>1 DEF IInv, WriterInv
  <2> QED
    BY <2>1, <2>2
<1>2. IInv /\ [Next]_vars => [Step]_vars
  BY <1>1
<1> QED
  BY <1>2, InductiveInvariant, PTL DEF DeletedStaysDeleted, Spec

-----------------------------------------------------------------------------
(* The snapshots.                                                          *)

\* What a lone actor knows of the snapshots: until it has made room it lists what
\* there is, then there is room for one, then it has made one.
Kept(a) ==
    /\ act[a].at = "backup" /\ Full(act[a].list) => act[a].list = snaps
    /\ act[a].at = "backup" /\ ~Full(act[a].list) => Cardinality(snaps) < MAX_VERSIONS
    /\ act[a].at \in {"copying", "remove"} => Cardinality(snaps) <= MAX_VERSIONS

AloneInv ==
    /\ IsFiniteSet(snaps)
    /\ \A a \in Actor : IsFiniteSet(act[a].list)
    /\ \A a \in Actor : alone = a =>
           Kept(a) /\ \A b \in Actor \ {a} : act[b].at \notin Filing

Acts(a) == BeginInstall(a) \/ Begin(a) \/ GoOn(a) \/ Break(a)

\* One removed, one moved to a free index, one added.
LEMMA Counted ==
    ASSUME NEW S, IsFiniteSet(S), NEW i, NEW j
    PROVE  /\ IsFiniteSet(S \ {i}) /\ IsFiniteSet(S \cup {j})
           /\ Cardinality(S) \in Nat
           /\ Cardinality(S \ {i}) <= Cardinality(S)
           /\ Cardinality(S \cup {j}) <= Cardinality(S) + 1
           /\ i \in S /\ j \notin S =>
                /\ IsFiniteSet((S \ {i}) \cup {j})
                /\ Cardinality((S \ {i}) \cup {j}) = Cardinality(S)
<1>1. Cardinality(S) \in Nat
  BY FS_CardinalityType
<1>2. /\ IsFiniteSet(S \ {i})
      /\ Cardinality(S \ {i}) = IF i \in S THEN Cardinality(S) - 1
                                            ELSE Cardinality(S)
  BY FS_RemoveElement
<1>3. /\ IsFiniteSet(S \cup {j})
      /\ Cardinality(S \cup {j}) = IF j \in S THEN Cardinality(S)
                                              ELSE Cardinality(S) + 1
  BY FS_AddElement
<1>4. ASSUME i \in S, j \notin S
      PROVE  /\ IsFiniteSet((S \ {i}) \cup {j})
             /\ Cardinality((S \ {i}) \cup {j}) = Cardinality(S)
  <2>1. j \notin S \ {i}
    BY <1>4
  <2>2. /\ IsFiniteSet((S \ {i}) \cup {j})
        /\ Cardinality((S \ {i}) \cup {j}) = Cardinality(S \ {i}) + 1
    BY <1>2, <2>1, FS_AddElement
  <2> QED
    BY <1>1, <1>2, <1>4, <2>2
<1> QED
  BY <1>1, <1>2, <1>3, <1>4

\* What an operation does that is not making a snapshot.
LEMMA OtherwiseKept ==
    ASSUME IInv, NEW a \in Actor, IsFiniteSet(snaps), snaps' \subseteq snaps,
           IsFiniteSet(act'[a].list),
           act'[a].at \notin {"backup", "copying"},
           act'[a].at = "remove" => snaps' = snaps /\ act[a].at = "copying"
    PROVE  /\ IsFiniteSet(snaps') /\ Cardinality(snaps') <= Cardinality(snaps)
           /\ Kept(a) => Kept(a)'
           /\ act[a].at \notin Filing => Kept(a)'
<1>1. IsFiniteSet(snaps') /\ Cardinality(snaps') <= Cardinality(snaps)
  BY FS_Subset
<1>2. act[a].at \notin Filing => act'[a].at # "remove"
  BY DEF Filing
<1> QED
  BY <1>1, <1>2 DEF Kept
\* A step moves one actor.
LEMMA ActsMoveOne ==
    ASSUME IInv, NEW a \in Actor, Acts(a)
    PROVE  \A b \in Actor \ {a} : act'[b] = act[b]
<1>1. act \in [Actor -> Acting]
  BY DEF IInv, TypeInv
<1> QED
  BY <1>1 DEF Acts, BeginInstall, Begin, GoOn, Installing, Removing, Recording,
         ReadOld, Evict, Shift, Copy, Copied, Remove, Place, Placed, Load,
         Restore, RemoveInstalled, DropSnapshots, Get, Flush, Locked, Commit,
         Break, End, Goto

\* A step keeps what its own actor knows, and an actor that begins to change files
\* has nothing to know yet.  What a lone installer counts grows only by its own
\* snapshot.
LEMMA ActsKeep ==
    ASSUME IInv, AloneInv, NEW a \in Actor, Acts(a)
    PROVE  /\ IsFiniteSet(snaps')
           /\ IsFiniteSet(act'[a].list)
           /\ act[a].at \notin Filing => snaps' = snaps
           /\ Kept(a) => Kept(a)'
           /\ act[a].at \notin Filing => Kept(a)'
           /\ \/ Cardinality(snaps') <= Cardinality(snaps)
              \/ /\ act[a].at = "backup" /\ ~Full(act[a].list)
                 /\ act'[a].at = "copying"
<1>1. /\ act[a] \in Acting /\ act \in [Actor -> Acting]
      /\ IsFiniteSet(snaps) /\ IsFiniteSet(act[a].list)
      /\ Cardinality(snaps) \in Nat /\ Cardinality(snaps) <= Cardinality(snaps)
  BY FS_CardinalityType DEF IInv, TypeInv, AloneInv
<1>2. IsFiniteSet({}) /\ Cardinality({}) = 0
  BY FS_EmptySet
<1>3. ASSUME End(a) PROVE act'[a].at = "idle" /\ act'[a].list = {}
  BY <1>1, <1>3 DEF End, Idle
<1>4. ASSUME NEW p, Goto(a, p)
      PROVE  act'[a].at = p /\ act'[a].list = act[a].list
  BY <1>1, <1>4 DEF Goto, Acting
<1>5. ASSUME IsFiniteSet(act'[a].list), act'[a].at \notin {"backup", "copying", "remove"},
             snaps' = snaps \/ (snaps' \subseteq snaps /\ act[a].at \in Filing)
      PROVE  /\ IsFiniteSet(snaps')
             /\ IsFiniteSet(act'[a].list)
             /\ act[a].at \notin Filing => snaps' = snaps
             /\ Kept(a) => Kept(a)'
             /\ act[a].at \notin Filing => Kept(a)'
             /\ \/ Cardinality(snaps') <= Cardinality(snaps)
                \/ /\ act[a].at = "backup" /\ ~Full(act[a].list)
                   /\ act'[a].at = "copying"
  <2>1. snaps' \subseteq snaps
    BY <1>5
  <2> QED
    BY <1>1, <1>5, <2>1, OtherwiseKept
<1>6. CASE BeginInstall(a) \/ Begin(a)
  <2>1. snaps' = snaps /\ act'[a].list = {} /\ act'[a].at \in {"fetched", "get"}
    BY <1>1, <1>6 DEF BeginInstall, Begin, Idle, files
  <2> QED
    BY <1>2, <1>5, <2>1
<1>7. CASE ReadOld(a)
  <2>1. snaps' = snaps /\ act[a].at = "fetched"
    BY <1>7 DEF ReadOld, files
  <2>2. CASE act' = [act EXCEPT ![a].at = "backup", ![a].list = snaps]
    <3>1. act'[a].at = "backup" /\ act'[a].list = snaps'
      BY <1>1, <2>1, <2>2 DEF Acting
    <3>2. Kept(a)'
      BY <1>1, <2>1, <3>1, VersionsAssumption DEF Kept, Full
    <3> QED
      BY <1>1, <2>1, <3>1, <3>2
  <2> QED
    BY <1>1, <1>2, <1>3, <1>4, <1>5, <1>7, <2>1, <2>2 DEF ReadOld
<1>8. CASE Evict(a)
  <2> DEFINE m == Max(act[a].list)
  <2>1. /\ snaps' = snaps \ {m} /\ act'[a].list = act[a].list \ {m}
        /\ act'[a].at = "backup" /\ act[a].at = "backup" /\ Full(act[a].list)
    BY <1>1, <1>8 DEF Evict, Acting
  <2> HIDE DEF m
  <2>2. /\ IsFiniteSet(snaps') /\ IsFiniteSet(act'[a].list)
        /\ Cardinality(snaps') <= Cardinality(snaps) /\ Cardinality(snaps') \in Nat
    <3>1. IsFiniteSet(snaps') /\ Cardinality(snaps') <= Cardinality(snaps)
      BY <1>1, <2>1, Counted
    <3>2. IsFiniteSet(act'[a].list)
      BY <1>1, <2>1, FS_Subset
    <3> QED
      BY <3>1, <3>2, FS_CardinalityType
  <2>3. Kept(a) => act'[a].list = snaps'
    BY <2>1 DEF Kept
  <2>4. ASSUME act'[a].list = snaps' PROVE Kept(a)'
    <3>1. ~Full(act'[a].list) => Cardinality(snaps') < MAX_VERSIONS
      BY <2>2, <2>4, VersionsAssumption DEF Full
    <3> QED
      BY <2>1, <2>4, <3>1 DEF Kept
  <2> QED
    BY <2>1, <2>2, <2>3, <2>4 DEF Filing
<1>9. CASE Shift(a)
  <2> DEFINE i == Max(act[a].list)
  <2>1. CASE i \in snaps /\ i + 1 \notin snaps
    <3>1. /\ snaps' = (snaps \ {i}) \cup {i + 1}
          /\ act'[a].list = act[a].list \ {i}
          /\ act'[a].at = "backup" /\ act[a].at = "backup" /\ ~Full(act[a].list)
      BY <1>1, <1>9, <2>1 DEF Shift, Acting
    <3> HIDE DEF i
    <3>2. /\ IsFiniteSet(snaps') /\ IsFiniteSet(act'[a].list)
          /\ Cardinality(snaps') = Cardinality(snaps)
          /\ Cardinality(act'[a].list) <= Cardinality(act[a].list)
          /\ Cardinality(act[a].list) \in Nat /\ Cardinality(act'[a].list) \in Nat
      <4>1. IsFiniteSet(snaps') /\ Cardinality(snaps') = Cardinality(snaps)
        BY <1>1, <2>1, <3>1, Counted
      <4>2. /\ IsFiniteSet(act'[a].list)
            /\ Cardinality(act'[a].list) <= Cardinality(act[a].list)
        BY <1>1, <3>1, FS_Subset
      <4> QED
        BY <1>1, <4>1, <4>2, FS_CardinalityType
    <3>3. ~Full(act'[a].list)
      BY <3>1, <3>2, VersionsAssumption DEF Full
    <3>4. Kept(a) => Kept(a)'
      BY <3>1, <3>2, <3>3 DEF Kept, Full
    <3> QED
      BY <1>1, <3>1, <3>2, <3>4 DEF Filing
  <2>2. CASE ~(i \in snaps /\ i + 1 \notin snaps)
    <3>1. snaps' = snaps /\ End(a)
      BY <1>9, <2>2 DEF Shift
    <3> QED
      BY <1>2, <1>3, <1>5, <3>1
  <2> QED
    BY <2>1, <2>2
<1>10. CASE Copy(a)
  <2>1. CASE snaps' = snaps \cup {0} /\ Goto(a, "copying")
    <3>1. act'[a].at = "copying" /\ act'[a].list = {} /\ act[a].at = "backup"
          /\ ~Full(act[a].list)
      BY <1>2, <1>4, <1>10, <2>1, VersionsAssumption DEF Copy, Full
    <3>2. /\ IsFiniteSet(snaps') /\ Cardinality(snaps') <= Cardinality(snaps) + 1
          /\ Cardinality(snaps') \in Nat
      BY <1>1, <2>1, Counted, FS_CardinalityType
    <3>3. Kept(a) => Kept(a)'
      BY <1>1, <3>1, <3>2, VersionsAssumption DEF Kept
    <3> QED
      BY <1>2, <3>1, <3>2, <3>3 DEF Filing
  <2>2. CASE UNCHANGED snaps /\ End(a)
    BY <1>2, <1>3, <1>5, <2>2
  <2> QED
    BY <1>10, <2>1, <2>2 DEF Copy
<1>11. CASE Copied(a)
  <2>1. snaps' = snaps /\ act[a].at = "copying"
    BY <1>11 DEF Copied, files
  <2>2. CASE Goto(a, "remove")
    <3>1. act'[a].at = "remove" /\ act'[a].list = act[a].list
      BY <1>4, <2>2
    <3> QED
      BY <1>1, <2>1, <3>1, OtherwiseKept DEF Filing
  <2>3. CASE End(a)
    BY <1>2, <1>3, <1>5, <2>1, <2>3
  <2> QED
    BY <1>11, <2>2, <2>3 DEF Copied
<1>12. CASE Remove(a) \/ Place(a) \/ Placed(a) \/ Load(a)
  <2>1. snaps' = snaps
    BY <1>12 DEF Remove, Place, Placed, Load, files
  <2>2. \/ End(a)
        \/ \E p \in {"place", "placing", "load", "get", "flush"} : Goto(a, p)
    BY <1>12 DEF Remove, Place, Placed, Load
  <2> QED
    BY <1>1, <1>2, <1>3, <1>4, <1>5, <2>1, <2>2
<1>13. CASE Removing(a)
  <2>1. CASE Restore(a)
    <3>1. snaps' = snaps
      BY <2>1 DEF Restore
    <3>2. CASE End(a)
      BY <1>2, <1>3, <1>5, <3>1, <3>2
    <3>3. CASE \E v \in Version :
                 act' = [act EXCEPT ![a].at = "place", ![a].version = v]
      <4>1. act'[a].at = "place" /\ act'[a].list = act[a].list
        BY <1>1, <3>3 DEF Acting
      <4> QED
        BY <1>1, <1>5, <3>1, <4>1
    <3> QED
      BY <2>1, <3>2, <3>3 DEF Restore
  <2>2. CASE RemoveInstalled(a)
    BY <1>1, <1>4, <1>5, <2>2 DEF RemoveInstalled
  <2>3. CASE DropSnapshots(a)
    <3>1. /\ snaps' \subseteq snaps /\ act[a].at \in Filing
          /\ act'[a].at = "flush" /\ act'[a].list = act[a].list
      BY <1>4, <2>3 DEF DropSnapshots, Filing
    <3> QED
      BY <1>1, <1>5, <3>1
  <2> QED
    BY <1>13, <2>1, <2>2, <2>3 DEF Removing
<1>14. CASE Recording(a)
  <2>1. snaps' = snaps
    BY <1>14 DEF Recording, Get, Flush, Locked, Commit, files
  <2>2. /\ act'[a].list \in {act[a].list, {}}
        /\ act'[a].at \in {"idle", "flush", "got", "commit"}
    BY <1>1, <1>14 DEF Recording, Get, Flush, Locked, Commit, End, Goto, Idle, Acting
  <2> QED
    BY <1>1, <1>2, <1>5, <2>1, <2>2
<1>15. CASE Break(a)
  <2>1. snaps' = snaps \/ (snaps' \subseteq snaps /\ act[a].at \in Filing)
    BY <1>15 DEF Break, Filing
  <2> QED
    BY <1>2, <1>3, <1>5, <1>15, <2>1 DEF Break
<1> QED
  BY <1>6, <1>7, <1>8, <1>9, <1>10, <1>11, <1>12, <1>13, <1>14, <1>15
     DEF Acts, GoOn, Installing

LEMMA SnapsInit == Init => AloneInv /\ snaps = {} /\ \A a \in Actor : act[a].at = "idle"
<1> SUFFICES ASSUME Init
             PROVE  AloneInv /\ snaps = {} /\ \A a \in Actor : act[a].at = "idle"
  OBVIOUS
<1>1. \A a \in Actor : act[a].at = "idle" /\ act[a].list = {} /\ alone # a
  BY ActorAssumption DEF Init, Idle, None
<1> QED
  BY <1>1, FS_EmptySet DEF Init, AloneInv

\* Only who begins to change files, or was alone before, can be alone.
LEMMA WatchKeeps ==
    ASSUME IInv, AloneInv, NEW a \in Actor, Acts(a), Watch(a)
    PROVE  AloneInv'
<1>1. \A b \in Actor \ {a} : act'[b] = act[b]
  BY ActsMoveOne
<1>2. IsFiniteSet(snaps') /\ \A b \in Actor : IsFiniteSet(act'[b].list)
  BY <1>1, ActsKeep DEF AloneInv
<1>3. ASSUME NEW b \in Actor, alone' = b
      PROVE  Kept(b)' /\ \A c \in Actor \ {b} : act'[c].at \notin Filing
  <2>1. CASE b = a
    <3>1. Kept(a)'
      BY <1>3, <2>1, ActsKeep, ActorAssumption DEF Watch, AloneInv, None
    <3>2. \A c \in Actor \ {a} : act[c].at \notin Filing
      BY <1>3, <2>1, ActorAssumption DEF Watch, AloneInv, None
    <3> QED
      BY <1>1, <2>1, <3>1, <3>2
  <2>2. CASE b # a
    <3>1. alone = b /\ ~(act[a].at \notin Filing /\ act'[a].at \in Filing)
      BY <1>3, <2>2, ActorAssumption DEF Watch, None
    <3>2. /\ Kept(b) /\ act[a].at \notin Filing
          /\ \A c \in Actor \ {b} : act[c].at \notin Filing
      BY <2>2, <3>1 DEF AloneInv
    <3>3. snaps' = snaps /\ act'[b] = act[b] /\ act'[a].at \notin Filing
      BY <1>1, <2>2, <3>1, <3>2, ActsKeep
    <3>4. Kept(b)'
      BY <3>2, <3>3 DEF Kept
    <3> QED
      BY <1>1, <3>2, <3>3, <3>4
  <2> QED
    BY <2>1, <2>2
<1> QED
  BY <1>2, <1>3 DEF AloneInv

LEMMA AloneKept == IInv /\ AloneInv /\ [Next]_vars => AloneInv'
<1> SUFFICES ASSUME IInv, AloneInv, [Next]_vars PROVE AloneInv'
  OBVIOUS
<1>1. CASE Next
  <2>1. PICK a \in Actor : Acts(a) /\ Watch(a)
    BY <1>1 DEF Next, Acts
  <2> QED
    BY <2>1, WatchKeeps
<1>2. CASE UNCHANGED vars
  BY <1>2 DEF vars, files, AloneInv, Kept
<1> QED
  BY <1>1, <1>2

\* An install that nobody disturbs leaves at most MAX_VERSIONS snapshots, whatever
\* the installs before it left when they overlapped or broke, for any actors,
\* operations and MAX_VERSIONS.
THEOREM LoneInstallsKeepTheBound == Spec => []SnapshotsBounded
<1>1. AloneInv => SnapshotsBounded
  BY DEF AloneInv, Kept, SnapshotsBounded
<1> QED
  BY <1>1, SnapsInit, AloneKept, InductiveInvariant, PTL DEF Spec

\* Who changes files is alone, and there are never too many snapshots.
TurnsInv ==
    /\ \A a \in Actor : act[a].at \in Filing => alone = a
    /\ Cardinality(snaps) <= MAX_VERSIONS

LEMMA TurnsKept ==
    ASSUME Elsewhere = {}, IInv, AloneInv, TurnsInv, NEW a \in Actor, Acts(a), Watch(a)
    PROVE  TurnsInv'
<1>1. \A b \in Actor \ {a} : act'[b] = act[b]
  BY ActsMoveOne
<1>2. /\ act[a] \in Acting /\ act \in [Actor -> Acting]
      /\ Cardinality(snaps) \in Nat /\ Cardinality(snaps') \in Nat
  BY ActsKeep, FS_CardinalityType DEF IInv, TypeInv, AloneInv
<1>3. ASSUME act[a].at \notin Filing, act'[a].at \in Filing PROVE Turn(a)
  <2>1. "idle" \notin Filing
    BY DEF Filing
  <2>2. ASSUME End(a) PROVE act'[a].at = "idle"
    BY <1>2, <2>2 DEF End, Idle
  <2>3. ASSUME NEW p, Goto(a, p) PROVE act'[a].at = p
    BY <1>2, <2>3 DEF Goto, Acting
  <2>4. CASE ReadOld(a) \/ Restore(a) \/ RemoveInstalled(a)
    BY <2>4 DEF ReadOld, Restore, RemoveInstalled
  <2>5. CASE Evict(a) \/ Shift(a) \/ Copy(a) \/ Copied(a) \/ Remove(a) \/ Place(a)
             \/ Placed(a) \/ Load(a) \/ DropSnapshots(a)
    BY <1>3, <2>5 DEF Evict, Shift, Copy, Copied, Remove, Place, Placed, Load,
                      DropSnapshots, Filing
  <2>6. CASE BeginInstall(a) \/ Begin(a)
    <3>1. act'[a].at \in {"fetched", "get"}
      BY <1>2, <2>6 DEF BeginInstall, Begin, Idle
    <3> QED
      BY <1>3, <3>1 DEF Filing
  <2>7. CASE Recording(a)
    <3>1. act'[a].at \in {"idle", "flush", "got", "commit"}
      BY <1>2, <2>7 DEF Recording, Get, Flush, Locked, Commit, End, Goto, Idle, Acting
    <3> QED
      BY <1>3, <3>1 DEF Filing
  <2>8. CASE Break(a)
    BY <1>3, <2>1, <2>2, <2>8 DEF Break
  <2> QED
    BY <2>4, <2>5, <2>6, <2>7, <2>8 DEF Acts, GoOn, Installing, Removing
<1>4. ASSUME act[a].at \notin Filing, act'[a].at \in Filing
      PROVE  alone' = a /\ \A b \in Actor \ {a} : act[b].at \notin Filing
  <2>1. \A b \in Actor \ {a} : act[b].at \notin Filing
    BY <1>3, <1>4 DEF Turn
  <2> QED
    BY <1>4, <2>1 DEF Watch
<1>5. \A b \in Actor : act'[b].at \in Filing => alone' = b
  <2> SUFFICES ASSUME NEW b \in Actor, act'[b].at \in Filing PROVE alone' = b
    OBVIOUS
  <2>1. CASE act[a].at \notin Filing /\ act'[a].at \in Filing
    BY <1>1, <1>4, <2>1
  <2>2. CASE ~(act[a].at \notin Filing /\ act'[a].at \in Filing)
    <3>1. alone' = alone
      BY <2>2 DEF Watch
    <3> QED
      BY <1>1, <2>2, <3>1 DEF TurnsInv
  <2> QED
    BY <2>1, <2>2
<1>6. Cardinality(snaps') <= MAX_VERSIONS
  <2>1. CASE Cardinality(snaps') <= Cardinality(snaps)
    BY <1>2, <2>1, VersionsAssumption DEF TurnsInv
  <2>2. CASE act[a].at = "backup" /\ act'[a].at = "copying"
    <3>1. alone = a
      BY <2>2 DEF TurnsInv, Filing
    <3>2. Kept(a)'
      BY <3>1, ActsKeep DEF AloneInv
    <3> QED
      BY <2>2, <3>2 DEF Kept
  <2> QED
    BY <2>1, <2>2, ActsKeep
<1> QED
  BY <1>5, <1>6 DEF TurnsInv

\* As long as only requests of the API change a skill, and no thread of skill_cli,
\* it never has more than MAX_VERSIONS snapshots, whatever breaks in the middle.
THEOREM OneProcessKeepsTheBound ==
    ASSUME Elsewhere = {}
    PROVE  Spec => [](Cardinality(snaps) <= MAX_VERSIONS)
<1>1. Init => TurnsInv
  <2> SUFFICES ASSUME Init PROVE TurnsInv
    OBVIOUS
  <2>1. Cardinality(snaps) = 0
    BY SnapsInit, FS_EmptySet
  <2> QED
    BY <2>1, SnapsInit, VersionsAssumption DEF TurnsInv, Filing
<1>2. IInv /\ AloneInv /\ TurnsInv /\ [Next]_vars => TurnsInv'
  <2> SUFFICES ASSUME IInv, AloneInv, TurnsInv, [Next]_vars PROVE TurnsInv'
    OBVIOUS
  <2>1. CASE Next
    <3>1. PICK a \in Actor : Acts(a) /\ Watch(a)
      BY <2>1 DEF Next, Acts
    <3> QED
      BY <3>1, TurnsKept
  <2>2. CASE UNCHANGED vars
    BY <2>2 DEF vars, files, TurnsInv
  <2> QED
    BY <2>1, <2>2
<1>3. TurnsInv => Cardinality(snaps) <= MAX_VERSIONS
  BY DEF TurnsInv
<1> QED
  BY <1>1, <1>2, <1>3, SnapsInit, AloneKept, InductiveInvariant, PTL DEF Spec
=============================================================================
