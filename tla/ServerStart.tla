----------------------------- MODULE ServerStart -----------------------------
(***************************************************************************)
(* What a start of the server needs on disk besides the presets: the file  *)
(* config.yaml (scripts/config/) and the schema of the database            *)
(* (scripts/database/database.ts, utilities/, migrations/).  Both are made *)
(* when they are missing and migrated step by step when they are old, and  *)
(* each step is a write of its own that the end of the process can cut     *)
(* off.                                                                    *)
(***************************************************************************)
EXTENDS Naturals

CONSTANTS Settings,     \* what the user can set
          OldConfigs,   \* schema versions of config.yaml files to start from
          OldSchemas,   \* numbers of migrations of databases to start from
          MaxWrites     \* writes of the configuration in progress at a time

LatestConfig == 3   \* defaultConfig.config.version
LatestSchema == 7   \* the last migration of CustomMigrationProvider

\* Migrations that fail when their change is already there: 2 and 6 add a column, 7
\* renames one; 1 drops a table if it exists, 3, 4 and 5 create if it does not exist.
NotRepeatable == {2, 6, 7}

ASSUME StartAssumption ==
  /\ Settings # {} /\ MaxWrites \in Nat
  /\ OldConfigs \subseteq 0 .. LatestConfig /\ OldSchemas \subseteq 0 .. LatestSchema

VARIABLES
  configFile,  \* config.yaml
  config,      \* the configuration in memory
  writes,      \* writes of config.yaml in progress
  tables,      \* how many of the tables are there
  changed,     \* migrations whose change is in the schema
  recorded,    \* migrations that the table migrations lists
  schemaAt     \* where DatabaseConnect is

startVars == <<configFile, config, writes, tables, changed, recorded, schemaAt>>
configVars == <<configFile, config, writes>>
schemaVars == <<tables, changed, recorded, schemaAt>>

File(state, version, settings) == [state |-> state, version |-> version, settings |-> settings]
DefaultSettings == CHOOSE s \in Settings : TRUE
NoFile == File("none", 0, DefaultSettings)
Part == File("part", 0, DefaultSettings)
NotLoaded == File("none", 0, DefaultSettings)

TypeOKStart ==
  /\ \A f \in {configFile, config} :
       /\ f.state \in {"none", "part", "whole"}
       /\ f.version \in 0 .. LatestConfig /\ f.settings \in Settings
  /\ \A w \in writes : w.at \in {"open", "write"} /\ w.file.state = "whole"
  /\ tables \in {"none", "some", "all"}
  /\ changed \in 0 .. LatestSchema /\ recorded \in 0 .. LatestSchema
  /\ schemaAt \in {"before", "create", "migrate", "record", "after"}

\* A first start, or the first start after an update of the application.
InitStart ==
  /\ config = NotLoaded /\ writes = {} /\ schemaAt = "before"
  /\ \/ /\ configFile = NoFile /\ tables = "none" /\ changed = 0 /\ recorded = 0
     \/ \E v \in OldConfigs, n \in OldSchemas, s \in Settings :
          /\ configFile = File("whole", v, s)
          /\ tables = "all" /\ changed = n /\ recorded = n

-----------------------------------------------------------------------------
(* LoadConfig. *)

Write(id, at, file, startup) == [id |-> id, at |-> at, file |-> file, startup |-> startup]

\* InitializeConfig.
CreateConfig ==
  /\ configFile.state = "none" /\ writes = {}
  /\ writes' = {Write(1, "open", File("whole", LatestConfig, DefaultSettings), TRUE)}
  /\ UNCHANGED <<configFile, config, schemaVars>>

\* RunMigrations: one write for each version.
MigrateConfig ==
  /\ configFile.state = "whole" /\ configFile.version < LatestConfig /\ writes = {}
  /\ writes' = {Write(1, "open", [configFile EXCEPT !.version = @ + 1], TRUE)}
  /\ UNCHANGED <<configFile, config, schemaVars>>

\* ValidateConfig accepts what is read.
ReadConfig ==
  /\ configFile.state = "whole" /\ configFile.version = LatestConfig /\ writes = {}
  /\ config' = configFile
  /\ UNCHANGED <<configFile, writes, schemaVars>>

\* What is left of a file does not parse, and LoadConfig throws.
ConfigIsUnreadable == configFile.state = "part" /\ writes = {}

\* WriteConfig, for a valid configuration; an invalid one ends the process (ServerLife).
WriteConfig(settings) ==
  /\ \E i \in 1 .. MaxWrites :
       /\ \A w \in writes : w.id # i
       /\ \A j \in 1 .. i - 1 : \E w \in writes : w.id = j
       /\ writes' = writes \cup
            {Write(i, "open", File("whole", LatestConfig, settings), FALSE)}
  /\ UNCHANGED <<configFile, config, schemaVars>>

OpenConfig(w) ==
  /\ w \in writes /\ w.at = "open"
  /\ configFile' = Part
  /\ writes' = (writes \ {w}) \cup {[w EXCEPT !.at = "write"]}
  /\ UNCHANGED <<config, schemaVars>>

\* Two writes that overlap in the file may leave a mixture.
EndConfig(w) ==
  /\ w \in writes /\ w.at = "write"
  /\ writes' = writes \ {w}
  /\ \/ configFile' = w.file
     \/ /\ \E other \in writes \ {w} : other.at = "write"
        /\ configFile' = Part
  /\ config' = IF w.startup THEN config ELSE w.file
  /\ UNCHANGED schemaVars

-----------------------------------------------------------------------------
(* DatabaseConnect. *)

\* isDatabaseInitialized: any table will do.
OpenDatabase ==
  /\ schemaAt = "before"
  /\ schemaAt' = IF tables = "none" THEN "create" ELSE "migrate"
  /\ UNCHANGED <<configVars, tables, changed, recorded>>

\* InitializeDatabaseTables, one statement after the other, with the latest schema.
CreateTables ==
  /\ schemaAt = "create" /\ tables # "all"
  /\ tables' = IF tables = "none" THEN "some" ELSE "all"
  /\ changed' = LatestSchema
  /\ UNCHANGED <<configVars, recorded, schemaAt>>

\* A slip: a new database does not list its migrations.
SkipMigrations_None ==
  /\ schemaAt = "create" /\ tables = "all"
  /\ schemaAt' = "after"
  /\ UNCHANGED <<configVars, tables, changed, recorded>>

\* SkipToLatestMigration, in one transaction.
SkipMigrations ==
  /\ schemaAt = "create" /\ tables = "all"
  /\ recorded' = LatestSchema /\ schemaAt' = "after"
  /\ UNCHANGED <<configVars, tables, changed>>

\* The next migration; one whose change is there already may fail.
Upcoming == recorded + 1
MigrationIsStuck ==
  schemaAt = "migrate" /\ recorded < LatestSchema /\ changed >= Upcoming /\ Upcoming \in NotRepeatable

\* migrateToLatest runs what is not recorded; for SQLite it uses no transaction.
RunMigration ==
  /\ schemaAt = "migrate" /\ recorded < LatestSchema /\ ~MigrationIsStuck
  /\ changed' = IF changed < Upcoming THEN Upcoming ELSE changed
  /\ schemaAt' = "record"
  /\ UNCHANGED <<configVars, tables, recorded>>

RecordMigration ==
  /\ schemaAt = "record" /\ schemaAt' = "migrate"
  /\ recorded' = Upcoming
  /\ UNCHANGED <<configVars, tables, changed>>

SchemaIsLatest ==
  /\ schemaAt = "migrate" /\ recorded = LatestSchema
  /\ schemaAt' = "after"
  /\ UNCHANGED <<configVars, tables, changed, recorded>>

-----------------------------------------------------------------------------

\* The process ends; what is on disk stays.
LoseStart ==
  /\ config' = NotLoaded /\ writes' = {} /\ schemaAt' = "before"
  /\ UNCHANGED <<configFile, tables, changed, recorded>>

\* What an end of the process at this moment cuts off and no later start can resume.
InTheMiddle ==
  \/ \E w \in writes : w.at = "write"
  \/ schemaAt = "create" /\ tables # "none"
  \/ schemaAt = "record" /\ Upcoming \in NotRepeatable

=============================================================================
