------------------------------- MODULE Presets -------------------------------
(***************************************************************************)
(* The user's presets, scripts/presets.ts: the table in memory that the    *)
(* clients see and the files it is rebuilt from when the server starts,    *)
(* with the migration of the single file presets.json of old versions.    *)
(* A preset is a pair <<category, name>>, and so is a path: the directory  *)
(* and the name of the file.  What is in a file is the PresetName in it,   *)
(* which need not be the name of the file.  Names that SanitizePathSegment *)
(* refuses and categories that it makes "uncategorized" are left out.      *)
(* writeFile is two steps, because it opens and truncates the file first.  *)
(***************************************************************************)
EXTENDS Naturals

CONSTANTS Categories,    \* categories besides "uncategorized"
          Names,         \* names of presets
          SafeCategory,  \* SanitizePathSegment of a category
          SafeName,      \* SanitizePathSegment of a name
          OldNames,      \* the presets that presets.json holds, if it exists
          MaxPresetOps   \* operations in progress at a time

ASSUME PresetAssumption ==
  /\ "uncategorized" \notin Categories /\ {"none", "part"} \cap Names = {}
  /\ OldNames \subseteq Names /\ MaxPresetOps \in Nat
  /\ SafeCategory \in [Categories -> Categories] /\ SafeName \in [Names -> Names]
  /\ \A c \in Categories : SafeCategory[SafeCategory[c]] = SafeCategory[c]
  /\ \A n \in Names : SafeName[SafeName[n]] = SafeName[n]

VARIABLES
  listed,      \* presets: the ones in memory
  categories,  \* presets: the keys of the table
  files,       \* what is at each path: nothing, part of a file, or the preset in it
  dirs,        \* the directories of categories
  oldFile,     \* presets.json exists
  migration,   \* [at, left, writing]: the presets to migrate and the one being written
  presetOps,   \* the operations that wait for the file system
  loaded,      \* history: LoadPresets has read every file
  disturbed    \* history: paths of which ListIsDirectory is silent

presetVars == <<listed, categories, files, dirs, oldFile, migration, presetOps,
                loaded, disturbed>>
presetMemory == <<listed, categories, loaded>>

Preset == (Categories \cup {"uncategorized"}) \X Names
OldPresets == {"uncategorized"} \X OldNames

PresetOp == [id : 1 .. MaxPresetOps, kind : {"add", "remove", "rename"},
             from : Preset, to : Preset,
             at : {"access", "mkdir", "open", "write", "rm", "removed"}]

\* getPresetPath: two presets may have one path.
Directory(c) == IF c = "uncategorized" THEN c ELSE SafeCategory[c]
Path(p) == <<Directory(p[1]), SafeName[p[2]]>>

\* The paths an operation touches.
Named(op) == {Path(op.from), Path(op.to)}
Migration(at, left, writing) == [at |-> at, left |-> left, writing |-> writing]

TypeOKPresets ==
  /\ listed \subseteq Preset /\ categories \subseteq Categories \cup {"uncategorized"}
  /\ files \in [Preset -> Names \cup {"none", "part"}] /\ dirs \subseteq Categories
  /\ oldFile \in BOOLEAN /\ loaded \in BOOLEAN
  /\ migration \in [at : {"before", "during", "after"}, left : SUBSET OldPresets,
                    writing : SUBSET OldPresets]
  /\ presetOps \subseteq PresetOp
  /\ disturbed \subseteq Preset

\* A new installation, or one of a version that kept one file.
InitPresets ==
  /\ listed = {} /\ categories = {} /\ files = [p \in Preset |-> "none"] /\ dirs = {}
  /\ oldFile \in BOOLEAN /\ migration = Migration("before", {}, {}) /\ presetOps = {}
  /\ loaded = FALSE /\ disturbed = {}

-----------------------------------------------------------------------------
(* LoadPresets, at the start of the server. *)

BeginMigration ==
  /\ migration.at = "before" /\ oldFile
  /\ migration' = Migration("during", OldPresets, {})
  /\ UNCHANGED <<presetMemory, files, dirs, oldFile, presetOps, disturbed>>

\* The name of the file is the preset's own here, as it is.
MigrateOpens(p) ==
  /\ p \in migration.left /\ migration.writing = {}
  /\ files' = [files EXCEPT ![p] = "part"]
  /\ migration' = Migration("during", migration.left, {p})
  /\ UNCHANGED <<presetMemory, dirs, oldFile, presetOps, disturbed>>

MigrateWrites(p) ==
  /\ p \in migration.writing
  /\ files' = [files EXCEPT ![p] = p[2]]
  /\ migration' = Migration("during", migration.left \ {p}, {})
  /\ UNCHANGED <<presetMemory, dirs, oldFile, presetOps, disturbed>>

\* A slip: the old file goes as soon as it is read.
RemoveOldFile_AtOnce ==
  /\ migration.at = "during" /\ oldFile /\ oldFile' = FALSE
  /\ migration' = IF migration.left = {} THEN Migration("after", {}, {}) ELSE migration
  /\ UNCHANGED <<presetMemory, files, dirs, presetOps, disturbed>>

\* rm(oldPresetsPath), after the last preset.
RemoveOldFile ==
  /\ migration = Migration("during", {}, {})
  /\ oldFile' = FALSE /\ migration' = Migration("after", {}, {})
  /\ UNCHANGED <<presetMemory, files, dirs, presetOps, disturbed>>

\* A file of the migration cannot be opened, written to its end or removed: it is logged,
\* the next start migrates again.
MigrationFails ==
  /\ migration.at = "during"
  /\ migration' = Migration("after", {}, {})
  /\ UNCHANGED <<presetMemory, files, dirs, oldFile, presetOps, disturbed>>

\* Files whose preset has another path, as the migration leaves them.
Astray == {x \in Preset : files[x] \in Names /\ Path(<<x[1], files[x]>>) # x}

\* presetFilesToPresetObject: one file that does not parse, and no preset is loaded.
\* The category is the directory, the name is the one in the file.
ReadPresets ==
  /\ \/ migration.at = "after"
     \/ migration.at = "before" /\ ~oldFile
  /\ migration' = Migration("after", {}, {})
  /\ loaded' = (\A p \in Preset : files[p] # "part")
  /\ listed' = IF loaded' THEN {<<x[1], files[x]>> : x \in {y \in Preset : files[y] \in Names}}
                           ELSE {}
  /\ categories' = IF loaded' THEN dirs \cup {"uncategorized"} ELSE {}
  /\ disturbed' = Astray \cup {Path(<<x[1], files[x]>>) : x \in Astray}
  /\ UNCHANGED <<files, dirs, oldFile, presetOps>>

-----------------------------------------------------------------------------
(* The requests of the clients. *)

\* Operations that share a path, or a category whose directory is missing.
Overlaps(op, other) ==
  \/ Named(op) \cap Named(other) # {}
  \/ Directory(op.to[1]) = Directory(other.to[1]) /\ Directory(op.to[1]) \in Categories \ dirs

\* No other preset in the list has the path of p.
Alone(p, list) == \A q \in list : Path(q) = Path(p) => q = p

Begins(op) ==
  LET clashing == {other \in presetOps : Overlaps(op, other)}
      ids == {other.id : other \in presetOps}
  IN  /\ op.id \notin ids /\ \A i \in 1 .. op.id - 1 : i \in ids
      /\ presetOps' = presetOps \cup {op}
      /\ disturbed' = disturbed \cup (UNION {Named(o) : o \in clashing})
                                \cup (IF clashing # {} THEN Named(op) ELSE {})
                                \cup (IF op.kind = "add" \/ Alone(op.from, listed)
                                      THEN {} ELSE {Path(op.from)})

\* AddPreset: the table first, then the file.
AddPreset(p) ==
  /\ \E i \in 1 .. MaxPresetOps :
       Begins([id |-> i, kind |-> "add", from |-> p, to |-> p,
               at |-> IF p[1] = "uncategorized" THEN "open" ELSE "access"])
  /\ listed' = listed \cup {p} /\ categories' = categories \cup {p[1]}
  /\ UNCHANGED <<files, dirs, oldFile, migration, loaded>>

\* RemovePreset: the file first, then the table.
RemovePreset(p) ==
  /\ \E i \in 1 .. MaxPresetOps :
       Begins([id |-> i, kind |-> "remove", from |-> p, to |-> p, at |-> "rm"])
  /\ UNCHANGED <<presetMemory, files, dirs, oldFile, migration>>

\* RenamePreset: the copy of a preset that is not listed throws before anything is done.
\* The card of a preset sends only a name other than the present one.
RenamePreset(from, to) ==
  /\ from[1] = to[1] /\ from # to /\ from \in listed
  /\ \E i \in 1 .. MaxPresetOps :
       Begins([id |-> i, kind |-> "rename", from |-> from, to |-> to, at |-> "rm"])
  /\ UNCHANGED <<presetMemory, files, dirs, oldFile, migration>>

Moves(op, at) == presetOps' = (presetOps \ {op}) \cup {[op EXCEPT !.at = at]}
Ends(op) == presetOps' = presetOps \ {op}

\* A step that throws: the exception is caught and logged, what is done stays done.
GivesUp(op) == Ends(op) /\ disturbed' = disturbed \cup Named(op)

\* WritePreset looks for the directory of the category ...
FindCategory(op) ==
  /\ op \in presetOps /\ op.at = "access"
  /\ Moves(op, IF Directory(op.to[1]) \in dirs THEN "open" ELSE "mkdir")
  /\ UNCHANGED <<presetMemory, files, dirs, oldFile, migration, disturbed>>

\* ... and makes it, which fails when another operation was faster.
MakeCategory(op) ==
  /\ op \in presetOps /\ op.at = "mkdir"
  /\ \/ Directory(op.to[1]) \notin dirs /\ Moves(op, "open") /\ UNCHANGED disturbed
     \/ Directory(op.to[1]) \in dirs /\ GivesUp(op)
  /\ dirs' = dirs \cup {Directory(op.to[1])}
  /\ UNCHANGED <<presetMemory, files, oldFile, migration>>

OpenFile(op) ==
  /\ op \in presetOps /\ op.at = "open"
  /\ files' = [files EXCEPT ![Path(op.to)] = "part"]
  /\ Moves(op, "write")
  /\ UNCHANGED <<presetMemory, dirs, oldFile, migration, disturbed>>

\* A directory, a file or the content of a file cannot be made, or a file not removed.
StepFails(op) ==
  /\ op \in presetOps /\ op.at \in {"mkdir", "open", "write", "rm"}
  /\ GivesUp(op)
  /\ UNCHANGED <<presetMemory, files, dirs, oldFile, migration>>

\* A write to a file that nobody else has written since it was opened.
WritesAlone(op) ==
  /\ files[Path(op.to)] = "part"
  /\ \A other \in presetOps \ {op} : other.at = "write" => Path(other.to) # Path(op.to)

\* What is in the file at the end of the write.  A file that was removed meanwhile stays
\* removed; one that another wrote too may be either preset, or a mix of both.
Written(op) ==
  IF files[Path(op.to)] = "none" THEN {"none"}
  ELSE {op.to[2]} \cup (IF WritesAlone(op) THEN {} ELSE {"part", files[Path(op.to)]})

\* A slip: a renamed preset stays in the table under its old name too.
EndWrite_KeepsOld(op) ==
  /\ op \in presetOps /\ op.at = "write"
  /\ \E content \in Written(op) : files' = [files EXCEPT ![Path(op.to)] = content]
  /\ listed' = listed \cup {op.to}
  /\ Ends(op)
  /\ UNCHANGED <<categories, loaded, dirs, oldFile, migration, disturbed>>

\* The end of a write.  A rename now changes the table.
EndWrite(op) ==
  /\ op \in presetOps /\ op.at = "write"
  /\ \E content \in Written(op) : files' = [files EXCEPT ![Path(op.to)] = content]
  /\ listed' = IF op.kind = "rename" THEN (listed \cup {op.to}) \ {op.from} ELSE listed
  /\ Ends(op)
  /\ UNCHANGED <<categories, loaded, dirs, oldFile, migration, disturbed>>

\* rm, without force: no file, no removal.
RemoveFile(op) ==
  /\ op \in presetOps /\ op.at = "rm"
  /\ IF files[Path(op.from)] = "none"
     THEN GivesUp(op)
     ELSE /\ Moves(op, IF op.kind = "rename" THEN "open" ELSE "removed")
          /\ UNCHANGED disturbed
  /\ files' = [files EXCEPT ![Path(op.from)] = "none"]
  /\ UNCHANGED <<presetMemory, dirs, oldFile, migration>>

\* delete presets[category][presetName]; without the category it throws, and nothing changes.
Forget(op) ==
  /\ op \in presetOps /\ op.at = "removed"
  /\ listed' = listed \ {op.from}
  /\ Ends(op)
  /\ UNCHANGED <<categories, loaded, files, dirs, oldFile, migration, disturbed>>

-----------------------------------------------------------------------------

\* The process ends; operations are cut off, the files stay as they are.
LosePresets ==
  /\ listed' = {} /\ categories' = {} /\ loaded' = FALSE /\ disturbed' = {}
  /\ presetOps' = {} /\ migration' = Migration("before", {}, {})
  /\ UNCHANGED <<files, dirs, oldFile>>

PresetRequest ==
  \E p \in Preset :
    \/ AddPreset(p) \/ RemovePreset(p)
    \/ \E to \in Preset : RenamePreset(p, to)

PresetStep ==
  \E op \in presetOps :
    \/ FindCategory(op) \/ MakeCategory(op) \/ OpenFile(op)
    \/ EndWrite(op) \/ RemoveFile(op) \/ Forget(op)

PresetFault == \E op \in presetOps : StepFails(op)

\* What the clients see is what a restart would bring back, once no operation on a path
\* is in progress: what is in its file is listed, and what is listed has a file there.
\* Two listed presets may share a path meanwhile.  Nothing is said of the paths where the
\* code does break this (README, section 4): operations that overlapped or failed, the
\* removal of one of two listed presets that share a file, and files that the migration
\* left under a name no operation finds.  Nor of a server that could not load its presets.
ListIsDirectory ==
  \A x \in Preset \ disturbed :
    loaded /\ (\A op \in presetOps : x \notin Named(op)) =>
      /\ files[x] \in Names => \E p \in listed : Path(p) = x /\ p[2] = files[x]
      /\ (\E p \in listed : Path(p) = x) => files[x] \in Names

\* presets.json goes only when each of its presets has a whole file of its own, under its
\* own name, however often the migration was cut off or failed before.
MigrationKeepsPresets ==
  [][oldFile /\ ~oldFile' => \A p \in OldPresets : files'[p] = p[2]]_presetVars

=============================================================================
