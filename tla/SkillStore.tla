------------------------------ MODULE SkillStore ------------------------------
(***************************************************************************)
(* One skill: its installed directory, the snapshots of its earlier         *)
(* versions (skills/versions.py), and its row in the database, changed by   *)
(* requests of the API (api/v1/endpoints/skills.py) in the event loop of    *)
(* the FastAPI process and by skill_cli (tools/builtin_cli.py) in the        *)
(* process of an assistant, both through skills/manager.py.                 *)
(*                                                                         *)
(* Nothing locks the directories.  Between two awaits the requests of the   *)
(* event loop do not disturb each other; skill_cli disturbs them anywhere.  *)
(* What the files contain is left out, but not whether they are complete.   *)
(***************************************************************************)
EXTENDS Naturals, FiniteSetsExt

CONSTANTS
    Actor,        \* requests of the API, and threads of skill_cli
    Elsewhere,    \* the threads of skill_cli
    Version,      \* what a package calls its version
    MAX_VERSIONS, \* of skills/versions.py
    MaxOps,       \* bound: operations; what is no install counts twice
    MaxFaults     \* bound: operations that break in the middle

ASSUME ActorAssumption == Elsewhere \subseteq Actor /\ "none" \notin Actor
ASSUME VersionsAssumption == MAX_VERSIONS \in Nat \ {0}

VARIABLES
    dir,     \* the installed directory
    snaps,   \* the indexes of the snapshots that exist
    row,     \* the committed SkillRecord
    writer,  \* who holds the write lock of the database
    act,     \* what each actor is at
    ops,     \* bounded by MaxOps
    faults,  \* bounded by MaxFaults
    alone    \* history: whose file steps nobody else has overlapped, the latest

files == <<dir, snaps>>
database == <<row, writer>>
vars == <<files, database, act, ops, faults, alone>>

None == "none"
NoRow == [there |-> FALSE, version |-> None, on |-> FALSE]
Row == [there : {TRUE}, version : Version, on : BOOLEAN]

Op == {"install", "rollback", "uninstall", "toggle"}
\* The places between the first file step of an operation and its next await.
Filing == {"backup", "copying", "remove", "place", "placing", "drop", "load"}
Places == Filing \cup {"idle", "fetched", "get", "got", "flush", "commit"}

\* version is what the package, or the snapshot, says; seen is the row as the
\* session read it; list is what _get_existing_indexes returned; new is the row
\* that was flushed.
Idle == [at |-> "idle", op |-> None, version |-> None, seen |-> NoRow,
         list |-> {}, new |-> NoRow]

TypeOK ==
    /\ dir \in {"none", "partial", "whole"}
    /\ snaps \subseteq Nat
    /\ row \in Row \cup {NoRow}
    /\ writer \in Actor \cup {None}
    /\ act \in [Actor -> [at : Places, op : Op \cup {None},
                          version : Version \cup {None}, seen : Row \cup {NoRow},
                          list : SUBSET Nat, new : Row \cup {NoRow}]]
    /\ ops \in 0 .. MaxOps
    /\ faults \in 0 .. MaxFaults
    /\ alone \in Actor \cup {None}

Init ==
    /\ dir = "none"
    /\ snaps = {}
    /\ row = NoRow
    /\ writer = None
    /\ act = [a \in Actor |-> Idle]
    /\ ops = 0
    /\ faults = 0
    /\ alone = None

Goto(a, place) == act' = [act EXCEPT ![a].at = place]
End(a) == act' = [act EXCEPT ![a] = Idle]

\* The event loop is not in the middle of the file steps of another request.
Turn(a) ==
    \A b \in Actor \ {a} : {a, b} \cap Elsewhere = {} => act[b].at \notin Filing

-----------------------------------------------------------------------------
(* Beginning *)

\* The package is downloaded, unpacked and found to be one.
BeginInstall(a) ==
    /\ act[a] = Idle /\ ops < MaxOps
    /\ ops' = ops + 1
    /\ \E v \in Version :
           act' = [act EXCEPT ![a] = [Idle EXCEPT !.at = "fetched", !.op = "install", !.version = v]]
    /\ UNCHANGED <<files, database, faults>>

\* skill_cli cannot roll back.
Begin(a) ==
    /\ act[a] = Idle /\ ops + 2 <= MaxOps
    /\ ops' = ops + 2
    /\ \E op \in Op \ {"install"} :
           /\ op = "rollback" => a \notin Elsewhere
           /\ act' = [act EXCEPT ![a] = [Idle EXCEPT !.at = "get", !.op = op]]
    /\ UNCHANGED <<files, database, faults>>

\* db.get: an operation on a skill that has no row ends.
Get(a) ==
    /\ act[a].at = "get"
    /\ IF act[a].op # "install" /\ ~row.there
       THEN End(a)
       ELSE act' = [act EXCEPT ![a].seen = row,
                               ![a].at = IF act[a].op \in {"install", "toggle"} THEN "flush" ELSE "got"]
    /\ UNCHANGED <<files, database, ops, faults>>

-----------------------------------------------------------------------------
(* install_from_zip and its variants: the files *)

\* What is installed has to be backed up, if its metadata can be read.
ReadOld(a) ==
    /\ act[a].at = "fetched" /\ Turn(a)
    /\ \/ /\ dir # "none"
          /\ act' = [act EXCEPT ![a].at = "backup", ![a].list = snaps]
       \/ dir = "none" /\ Goto(a, "place")
       \/ dir = "partial" /\ End(a)
    /\ UNCHANGED <<files, database, ops, faults>>

\* Mutant: one snapshot too many is kept.
OverFull(list) == Cardinality(list) > MAX_VERSIONS

Full(list) == Cardinality(list) >= MAX_VERSIONS

\* The oldest snapshots are removed (errors are ignored; that there are none is
\* assumed) until there is room for one.
Evict(a) ==
    /\ act[a].at = "backup" /\ Full(act[a].list)
    /\ snaps' = snaps \ {Max(act[a].list)}
    /\ act' = [act EXCEPT ![a].list = @ \ {Max(@)}]
    /\ UNCHANGED <<dir, database, ops, faults>>

\* The others move up by one, the oldest first.  Path.rename fails if there is
\* nothing to move, or something in the way.
Shift(a) ==
    /\ act[a].at = "backup" /\ act[a].list # {} /\ ~Full(act[a].list)
    /\ LET i == Max(act[a].list) IN
       IF i \in snaps /\ i + 1 \notin snaps
       THEN /\ snaps' = (snaps \ {i}) \cup {i + 1}
            /\ act' = [act EXCEPT ![a].list = @ \ {i}]
       ELSE UNCHANGED snaps /\ End(a)
    /\ UNCHANGED <<dir, database, ops, faults>>

\* copytree makes the directory, and refuses one that exists.
Copy(a) ==
    /\ act[a].at = "backup" /\ act[a].list = {}
    /\ IF dir # "none" /\ 0 \notin snaps
       THEN snaps' = snaps \cup {0} /\ Goto(a, "copying")
       ELSE UNCHANGED snaps /\ End(a)
    /\ UNCHANGED <<dir, database, ops, faults>>

\* The files, then .meta.json; it fails if either directory has gone.
Copied(a) ==
    /\ act[a].at = "copying"
    /\ IF dir # "none" /\ 0 \in snaps THEN Goto(a, "remove") ELSE End(a)
    /\ UNCHANGED <<files, database, ops, faults>>

\* rmtree of what was backed up fails if it has gone.
Remove(a) ==
    /\ act[a].at = "remove"
    /\ IF dir # "none" THEN Goto(a, "place") ELSE End(a)
    /\ dir' = "none"
    /\ UNCHANGED <<snaps, database, ops, faults>>

\* copytree, of the package or of a snapshot.
Place(a) ==
    /\ act[a].at = "place"
    /\ IF dir = "none" THEN dir' = "partial" /\ Goto(a, "placing") ELSE UNCHANGED dir /\ End(a)
    /\ UNCHANGED <<snaps, database, ops, faults>>

Placed(a) ==
    /\ act[a].at = "placing"
    /\ IF dir # "none" THEN dir' = "whole" /\ Goto(a, "load") ELSE UNCHANGED dir /\ End(a)
    /\ UNCHANGED <<snaps, database, ops, faults>>

\* load_tool_functions swallows what goes wrong in a package; metadata that
\* cannot be read (any more) end the operation.
Load(a) ==
    /\ act[a].at = "load"
    /\ \/ Goto(a, IF act[a].op = "install" THEN "get" ELSE "flush")
       \/ dir # "whole" /\ End(a)
    /\ UNCHANGED <<files, database, ops, faults>>

-----------------------------------------------------------------------------
(* rollback, uninstall: the files *)

\* What is installed gives way to a snapshot without being backed up itself.
Restore(a) ==
    /\ act[a].op = "rollback" /\ act[a].at = "got" /\ Turn(a)
    /\ \/ End(a) /\ UNCHANGED dir
       \/ /\ snaps # {}
          /\ dir' = "none"
          /\ \E v \in Version : act' = [act EXCEPT ![a].at = "place", ![a].version = v]
    /\ UNCHANGED <<snaps, database, ops, faults>>

RemoveInstalled(a) ==
    /\ act[a].op = "uninstall" /\ act[a].at = "got" /\ Turn(a)
    /\ dir' = "none"
    /\ Goto(a, "drop")
    /\ UNCHANGED <<snaps, database, ops, faults>>

\* delete_all_versions
DropSnapshots(a) ==
    /\ act[a].at = "drop"
    /\ snaps' = {}
    /\ Goto(a, "flush")
    /\ UNCHANGED <<dir, database, ops, faults>>

-----------------------------------------------------------------------------
(* The row: _upsert_record, rollback, uninstall, _set_enabled *)

\* What the operation makes of the row it has seen.
Wanted(a) ==
    CASE act[a].op = "uninstall" -> {NoRow}
      [] act[a].op = "toggle"    -> {[act[a].seen EXCEPT !.on = on] : on \in BOOLEAN}
      [] act[a].op \in {"install", "rollback"} ->
            IF act[a].seen.there
            THEN {[act[a].seen EXCEPT !.version = act[a].version]}
            ELSE {[there |-> TRUE, version |-> act[a].version, on |-> TRUE]}

\* Mutant: the UPDATE writes the whole row.
MergedWhole(seen, new) == new

\* The UPDATE sets the columns that differ from what was read, no others.
Merged(seen, new) ==
    [row EXCEPT !.version = IF new.version = seen.version THEN @ ELSE new.version,
                !.on = IF new.on = seen.on THEN @ ELSE new.on]

\* Mutant: a row that has gone is written again.
FlushAnyway(a) ==
    /\ act[a].at = "flush" /\ writer = None
    /\ \E new \in Wanted(a) :
           IF new = act[a].seen
           THEN Goto(a, "commit") /\ UNCHANGED writer
           ELSE /\ writer' = a
                /\ act' = [act EXCEPT ![a].at = "commit", ![a].new = new]
    /\ UNCHANGED <<files, row, ops, faults>>

\* The session writes nothing, or takes the write lock and inserts, deletes or
\* updates; it fails if the row to insert exists, or that to update does not.
Flush(a) ==
    /\ act[a].at = "flush" /\ writer = None
    /\ \E new \in Wanted(a) :
           IF new = act[a].seen THEN Goto(a, "commit") /\ UNCHANGED writer
           ELSE IF new.there /\ act[a].seen.there # row.there THEN End(a) /\ UNCHANGED writer
           ELSE /\ writer' = a
                /\ act' = [act EXCEPT ![a].at = "commit",
                              ![a].new = IF new.there /\ row.there
                                         THEN Merged(act[a].seen, new) ELSE new]
    /\ UNCHANGED <<files, row, ops, faults>>

\* "database is locked"
Locked(a) ==
    /\ act[a].at = "flush" /\ writer # None
    /\ End(a)
    /\ UNCHANGED <<files, database, ops, faults>>

\* By now the event of the event bus has been sent.
Commit(a) ==
    /\ act[a].at = "commit"
    /\ row' = IF writer = a THEN act[a].new ELSE row
    /\ writer' = IF writer = a THEN None ELSE writer
    /\ End(a)
    /\ UNCHANGED <<files, ops, faults>>

\* An exception or the end of the process: what was done to the files stays, what
\* was not committed does not.
Break(a) ==
    /\ act[a] # Idle /\ faults < MaxFaults
    /\ faults' = faults + 1
    /\ dir' \in IF act[a].at \in {"remove", "got"} /\ dir # "none" THEN {dir, "partial"} ELSE {dir}
    /\ snaps' \in IF act[a].at = "drop" THEN SUBSET snaps ELSE {snaps}
    /\ writer' = IF writer = a THEN None ELSE writer
    /\ End(a)
    /\ UNCHANGED <<row, ops>>

-----------------------------------------------------------------------------

Installing(a) ==
    ReadOld(a) \/ Evict(a) \/ Shift(a) \/ Copy(a) \/ Copied(a) \/ Remove(a) \/ Place(a)
    \/ Placed(a) \/ Load(a)
Removing(a) == Restore(a) \/ RemoveInstalled(a) \/ DropSnapshots(a)
Recording(a) == Get(a) \/ Flush(a) \/ Locked(a) \/ Commit(a)

GoOn(a) == Installing(a) \/ Removing(a) \/ Recording(a)

\* Who begins to change files is alone if nobody else is at it, and stays so until
\* somebody else begins.
Watch(a) ==
    alone' = IF act[a].at \notin Filing /\ act'[a].at \in Filing
             THEN IF \E b \in Actor \ {a} : act[b].at \in Filing THEN None ELSE a
             ELSE alone

Next == \E a \in Actor : (BeginInstall(a) \/ Begin(a) \/ GoOn(a) \/ Break(a)) /\ Watch(a)

Spec == Init /\ [][Next]_vars

-----------------------------------------------------------------------------
(* Properties *)

\* An install that nobody disturbs has at most MAX_VERSIONS snapshots once it has
\* made its own, whatever gaps and extra ones the installs before it left when they
\* overlapped or broke.  (Two that overlap can each leave one too many, and these
\* stay until an undisturbed one evicts them.)
SnapshotsBounded ==
    \A a \in Actor :
        alone = a /\ act[a].at \in {"copying", "remove"} => Cardinality(snaps) <= MAX_VERSIONS

\* Whether a skill is enabled changes only when an operation that means to change
\* it commits: an install or a rollback that read the row before a toggle and
\* writes it afterwards does not undo the toggle.
TogglesKept ==
    [][row.there /\ row'.there /\ row.on # row'.on
       => \E a \in Actor : act[a].op = "toggle" /\ act'[a] = Idle]_vars

\* A row that was deleted comes back only by an install that began without it:
\* no toggle, rollback or update that had read it earlier revives it.
DeletedStaysDeleted ==
    [][~row.there /\ row'.there
       => \E a \in Actor : act[a].op = "install" /\ ~act[a].seen.there /\ act'[a] = Idle]_vars

=============================================================================
