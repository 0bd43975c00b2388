--------------------------- MODULE RestoreScript ---------------------------
(***************************************************************************)
(* scripts/backup.ts and scripts/backup-schemas.ts: a backup of the whole  *)
(* installation and its restore, each a sequence of calls that no          *)
(* transaction spans and any of which may fail or be the last before a     *)
(* crash.  The backend is stopped meanwhile; between runs its data change. *)
(***************************************************************************)
EXTENDS Integers, Sequences, SequencesExt

CONSTANTS
    Schemas,          \* schemas of the database
    MaxPieces,        \* bound: pieces of a dump
    MaxChanges,       \* bound: changes of the installation between runs
    MaxScriptFaults   \* bound: calls that fail and crashes

Trees == {"storage", "config"}
Parts == {"database"} \union Trees \union {"metadata"}
-----------------------------------------------------------------------------
(* What pg_dump writes, as the pieces its text is made of.  A piece is the     *)
(* lexemes the scanner tells apart; "name" is the text of a schema declaration *)
(* wherever it stands.                                                         *)
Pieces ==
    [declaration |-> <<"name", ";">>,
     comment     |-> <<"--", "name", ";", "line">>,
     nested      |-> <<"/*", "/*", "*/", "name", ";", "*/">>,
     directive   |-> <<"\\", "name", ";", "line">>,
     text        |-> <<"'", "name", ";", "''", "\\'", ";">>,
     escaped     |-> <<"E'", "\\'", "name", ";", "'", ";">>,
     body        |-> <<"$$", "name", ";", "$$", ";">>,
     rows        |-> <<"copy", ";", "line", "name", ";", "line", "\\.", "line">>]
Piece == DOMAIN Pieces
Lexemes(p) == [j \in 1..Len(Pieces[p.is]) |-> [lex |-> Pieces[p.is][j], of |-> p.of]]
DumpText(pieces) ==
    LET text[n \in 0..Len(pieces)] == IF n = 0 THEN <<>> ELSE text[n - 1] \o Lexemes(pieces[n])
    IN  text[Len(pieces)]
Declared(pieces) == {p.of : p \in {pieces[i] : i \in {j \in DOMAIN pieces : pieces[j].is = "declaration"}}}

(* The scanner: inside what it is, and what it read of the statement. *)
Outside == [in |-> "sql", depth |-> 0, statement |-> {}, found |-> {}]
Enter(s, what) == [s EXCEPT !.in = what]
Read(s, x) == [s EXCEPT !.statement = @ \union {x}]
Leave(s, x) == Read(Enter(s, "sql"), x)
Declares(statement) == IF \A x \in statement : x.lex = "name" THEN {x.of : x \in statement} ELSE {}
EndStatement(s) ==
    [in |-> IF \E x \in s.statement : x.lex = "copy" THEN "rows" ELSE "sql", depth |-> 0,
     statement |-> {}, found |-> s.found \union Declares(s.statement)]
EveryEscape(s, x) ==
    IF x.lex = "'" THEN Leave(s, x) ELSE s
Quoted(s, x) ==   \* only E'...' takes a backslash as an escape
    CASE s.in = "'" /\ x.lex \in {"'", "\\'"} -> Leave(s, x)
      [] s.in = "E'" /\ x.lex = "'" -> Leave(s, x)
      [] OTHER -> s
Deeper(s, n) == [Enter(s, IF s.depth + n = 0 THEN "sql" ELSE "comment") EXCEPT !.depth = @ + n]
Commented(s, x) ==
    CASE x.lex = "/*" -> Deeper(s, 1)
      [] x.lex = "*/" -> Deeper(s, -1)
      [] OTHER -> s
Plain(s, x) ==
    CASE x.lex = "--" -> Enter(s, "line")
      [] x.lex = "/*" -> Deeper(s, 1)
      [] x.lex = "\\" /\ s.statement = {} -> Enter(s, "line")
      [] x.lex \in {"'", "E'", "$$"} -> Enter(s, x.lex)
      [] x.lex \in {"name", "copy"} -> Read(s, x)
      [] x.lex = ";" -> EndStatement(s)
      [] OTHER -> s
Scan(s, x) ==
    CASE s.in = "rows" -> IF x.lex = "\\." THEN Enter(s, "sql") ELSE s
      [] s.in = "line" -> IF x.lex = "line" THEN Enter(s, "sql") ELSE s
      [] s.in = "comment" -> Commented(s, x)
      [] s.in \in {"'", "E'"} -> Quoted(s, x)
      [] s.in = "$$" -> IF x.lex = "$$" THEN Leave(s, x) ELSE s
      [] OTHER -> Plain(s, x)
extractRestoreSchemas(pieces) ==
    LET text == DumpText(pieces)
        state[n \in 0..Len(text)] == IF n = 0 THEN Outside ELSE Scan(state[n - 1], text[n])
    IN  state[Len(text)].found
-----------------------------------------------------------------------------
VARIABLES
    dump,     \* the pieces of the backup's dump
    db,       \* each schema: "none", "then" as backed up, "now", or "torn"
    tree,     \* storage/ and config/: "then", "now", or "torn" between two of them
    backup,   \* each part of the backup directory: "none", "torn" or "whole"
    script,   \* the step the running script stands at
    stage,    \* the staging directory of the running restore
    retained, \* staging directories that stayed behind
    changes, scriptFaults,
    unfinished, \* history: the dump is loaded and the trees are not yet installed
    doubt       \* history: psql committed and was reported as failed

restoreVars ==
    <<dump, db, tree, backup, script, stage, retained, changes, scriptFaults, unfinished, doubt>>

NoStage == [incoming |-> {}, previous |-> <<>>]

(* What the script does, and how far it is. *)
Rest == <<"rest", 0>>

RestoreInit ==
    /\ dump \in BoundedSeq([is : Piece, of : Schemas], MaxPieces)
    /\ db = [s \in Schemas |-> IF s \in Declared(dump) THEN "then" ELSE "none"]
    /\ tree = [t \in Trees |-> "then"]
    /\ backup = [p \in Parts |-> "none"]
    /\ script = Rest /\ stage = NoStage /\ retained = {} /\ changes = 0 /\ scriptFaults = 0
    /\ unfinished = FALSE /\ doubt = FALSE

ScriptFault == scriptFaults < MaxScriptFaults /\ scriptFaults' = scriptFaults + 1

(* Each part in turn, the metadata last; what the script stops at stays torn. *)
Order == <<"database", "storage", "config", "metadata">>

CreateStart ==
    /\ script = Rest /\ changes = 0 /\ backup["metadata"] # "whole"
    /\ backup' = [p \in Parts |-> "none"] /\ script' = <<"create", 1>>
    /\ UNCHANGED <<dump, db, tree, stage, retained, changes, scriptFaults, unfinished, doubt>>

CreatePart ==
    /\ script[1] = "create"
    /\ LET i == script[2] IN
       \/ /\ backup' = [backup EXCEPT ![Order[i]] = "whole"]
          /\ script' = IF i = Len(Order) THEN Rest ELSE <<"create", i + 1>>
          /\ UNCHANGED scriptFaults
       \/ /\ backup' = [backup EXCEPT ![Order[i]] = "torn"]
          /\ script' = Rest /\ ScriptFault
    /\ UNCHANGED <<dump, db, tree, stage, retained, changes, unfinished, doubt>>

(* The installation is used: a schema is written or created, a tree changes. *)
Change ==
    /\ script = Rest /\ changes < MaxChanges /\ changes' = changes + 1
    /\ \/ \E s \in Schemas : db' = [db EXCEPT ![s] = "now"] /\ UNCHANGED tree
       \/ \E t \in Trees : tree[t] # "torn" /\ tree' = [tree EXCEPT ![t] = "now"] /\ UNCHANGED db
    /\ UNCHANGED <<dump, backup, script, stage, retained, scriptFaults, unfinished, doubt>>

(* A directory without metadata, dump or archive is refused, and one whose archive does   *)
(* not unpack or whose config is missing ends the run: the database is not touched.       *)
Preflight ==
    /\ script = Rest /\ backup["metadata"] = "whole" /\ backup["database"] # "none"
    /\ \A t \in Trees : backup[t] = "whole"
    /\ script' = <<"previous", 0>> /\ stage' = [NoStage EXCEPT !.incoming = Trees]
    /\ UNCHANGED <<dump, db, tree, backup, retained, changes, scriptFaults, unfinished, doubt>>

snapshotIfPresent ==
    /\ script[1] = "previous"
    /\ script' = <<"psql", 0>> /\ stage' = [stage EXCEPT !.previous = tree]
    /\ UNCHANGED <<dump, db, tree, backup, retained, changes, scriptFaults, unfinished, doubt>>

(* One transaction drops the schemas the scanner found and runs the dump; it fails when *)
(* a schema that the dump creates is still there.                                       *)
Dropped == extractRestoreSchemas(dump)
Loads == \A s \in Declared(dump) \ Dropped : db[s] = "none"
AfterLoad ==
    [s \in Schemas |-> IF s \in Declared(dump) THEN IF backup["database"] = "whole" THEN "then" ELSE "torn"
                       ELSE IF s \in Dropped THEN "none" ELSE db[s]]
Psql ==
    /\ script[1] = "psql" /\ Loads
    /\ db' = AfterLoad /\ unfinished' = TRUE /\ script' = <<"install", 1>>
    /\ UNCHANGED <<dump, tree, backup, stage, retained, changes, scriptFaults, doubt>>

(* The finally clause: only an installation that failed keeps the staging directory. *)
AlwaysCleaned(keep) == script' = Rest /\ stage' = NoStage /\ UNCHANGED retained
Ends(keep) ==
    /\ script' = Rest /\ stage' = NoStage
    /\ retained' = IF keep THEN retained \union {stage} ELSE retained

(* The connection may break after the commit. *)
PsqlFails ==
    /\ script[1] = "psql" /\ Ends(FALSE)
    /\ \/ UNCHANGED <<db, unfinished, doubt>> /\ (IF Loads THEN ScriptFault ELSE UNCHANGED scriptFaults)
       \/ Loads /\ ScriptFault /\ db' = AfterLoad /\ unfinished' = TRUE /\ doubt' = TRUE
    /\ UNCHANGED <<dump, tree, backup, changes>>

(* Both trees in turn: emptied, then copied from the incoming one. *)
InstallOrder == <<"storage", "config">>
Install ==
    /\ script[1] = "install" /\ script[2] <= Len(InstallOrder)
    /\ LET t == InstallOrder[script[2]] IN
       \/ tree' = [tree EXCEPT ![t] = "torn"] /\ UNCHANGED script
       \/ tree[t] = "torn" /\ tree' = [tree EXCEPT ![t] = "then"] /\ script' = <<"install", script[2] + 1>>
    /\ UNCHANGED <<dump, db, backup, stage, retained, changes, scriptFaults, unfinished, doubt>>

InstallFails ==
    /\ script[1] = "install" /\ script[2] <= Len(InstallOrder) /\ ScriptFault /\ Ends(TRUE)
    /\ UNCHANGED <<dump, db, tree, backup, changes, unfinished, doubt>>

Finish ==
    /\ script = <<"install", 3>> /\ Ends(FALSE) /\ unfinished' = FALSE
    /\ UNCHANGED <<dump, db, tree, backup, changes, scriptFaults, doubt>>

(* No finally clause runs. *)
ScriptCrash ==
    /\ script[1] \in {"previous", "psql", "install"} /\ ScriptFault
    /\ \/ script[1] = "psql" /\ Loads /\ db' = AfterLoad /\ unfinished' = TRUE
       \/ UNCHANGED <<db, unfinished>>
    /\ script' = Rest /\ stage' = NoStage /\ retained' = retained \union {stage}
    /\ UNCHANGED <<dump, tree, backup, changes, doubt>>

RestoreNext ==
    \/ CreateStart \/ CreatePart \/ Change \/ Preflight \/ snapshotIfPresent \/ Psql \/ PsqlFails
    \/ Install \/ InstallFails \/ Finish \/ ScriptCrash

RestoreSpec == RestoreInit /\ [][RestoreNext]_restoreVars
-----------------------------------------------------------------------------
(* backup-schemas.ts:1: the scanner finds the schemas that the dump creates   *)
(* and no name that only stands in a comment, a string, a function body or    *)
(* the rows of a table: each one is dropped with all its data.                *)
SchemasFound == Dropped = Declared(dump)

(* backup.ts:151, 220 and 258: whatever stops a script, the database is never *)
(* loaded from a backup that was not finished, and once it is loaded, and     *)
(* until the files are installed too, a staging directory holds the new trees *)
(* and each old one as it was: a torn tree can always be had back whole.      *)
(* A commit that was reported as a failure is the exception.                  *)
RestoreRecoverable ==
    LET kept == retained \union {stage} IN
    /\ \A s \in Schemas : db[s] # "torn"
    /\ \A t \in Trees : (unfinished /\ ~doubt) \/ tree[t] = "torn" =>
          \E r \in kept : r.incoming = Trees /\ t \in DOMAIN r.previous /\ r.previous[t] # "torn"
=============================================================================
