----------------------------- MODULE ServerLife -----------------------------
(***************************************************************************)
(* The life of the server process: server.ts, server-startup.ts and        *)
(* server-shutdown.ts around the parts that keep something on disk, the    *)
(* configuration and the schema (ServerStart), the presets (Presets) and   *)
(* the login (ClientAuth).  The queue and the watchers, which start after  *)
(* them, are one step here and have modules of their own.  The process may *)
(* end at every step; compose.base.yaml restarts it ("restart:             *)
(* unless-stopped").                                                       *)
(***************************************************************************)
EXTENDS ServerStart, Presets, ClientAuth

CONSTANTS MaxRequests,   \* requests of a behaviour
          MaxFaults,     \* crashes, signals and failing calls of a behaviour
          MaxEvents      \* both together

ASSUME ServerAssumption ==
  MaxRequests \in Nat /\ MaxFaults \in Nat /\ MaxEvents \in Nat

VARIABLES
  stage,     \* where ServerStartup or Shutdown is
  cutOff,    \* history: a write was cut off, or mixed with another, that no start repairs
  requests, faults

vars == <<startVars, presetVars, authVars, stage, cutOff, requests, faults>>

Starting == {"config", "presets", "database", "auth", "queue"}

TypeOK ==
  /\ TypeOKStart /\ TypeOKPresets /\ TypeOKAuth
  /\ stage \in Starting \cup {"down", "listening", "closing"}
  /\ cutOff \in BOOLEAN /\ requests \in 0 .. MaxRequests /\ faults \in 0 .. MaxFaults

Init ==
  /\ InitStart /\ InitPresets /\ InitAuth
  /\ stage = "down" /\ cutOff = FALSE /\ requests = 0 /\ faults = 0

Fault ==
  /\ faults < MaxFaults /\ requests + faults < MaxEvents
  /\ faults' = faults + 1 /\ UNCHANGED requests

Request ==
  /\ requests < MaxRequests /\ requests + faults < MaxEvents
  /\ requests' = requests + 1 /\ UNCHANGED faults

Quietly == UNCHANGED <<requests, faults>>

-----------------------------------------------------------------------------
(* ServerStartup: each part waits for the one before it. *)

Boot ==
  /\ stage = "down" /\ stage' = "config"
  /\ Quietly /\ UNCHANGED <<startVars, presetVars, authVars, cutOff>>

StartConfig ==
  /\ stage = "config"
  /\ \/ ReadConfig /\ stage' = "presets"
     \/ /\ \/ CreateConfig \/ MigrateConfig
           \/ \E w \in writes : OpenConfig(w) \/ EndConfig(w)
        /\ UNCHANGED stage
  /\ Quietly /\ UNCHANGED <<presetVars, authVars, cutOff>>

StartPresets ==
  /\ stage = "presets"
  /\ \/ ReadPresets /\ stage' = "database"
     \/ /\ \/ BeginMigration \/ RemoveOldFile
           \/ \E p \in OldPresets : MigrateOpens(p) \/ MigrateWrites(p)
        /\ UNCHANGED stage
  /\ Quietly /\ UNCHANGED <<startVars, authVars, cutOff>>

StartDatabase ==
  /\ stage = "database"
  /\ \/ (SkipMigrations \/ SchemaIsLatest) /\ stage' = "auth"
     \/ /\ OpenDatabase \/ CreateTables \/ RunMigration \/ RecordMigration
        /\ UNCHANGED stage
  /\ Quietly /\ UNCHANGED <<presetVars, authVars, cutOff>>

StartAuth ==
  /\ stage = "auth"
  /\ AuthStart /\ stage' = IF authStart' = "after" THEN "queue" ELSE stage
  /\ Quietly /\ UNCHANGED <<startVars, presetVars, cutOff>>

\* InitializeQueue, InitializeWatchers, the routes, the sockets and listen.
StartQueue ==
  /\ stage = "queue" /\ stage' = "listening"
  /\ Quietly /\ UNCHANGED <<startVars, presetVars, authVars, cutOff>>

-----------------------------------------------------------------------------
(* The end of the process, wanted or not. *)

ProcessEnds ==
  /\ stage' = "down" /\ LoseStart /\ LosePresets /\ LoseAuth
  /\ cutOff' = (cutOff \/ InTheMiddle)

\* A part throws: ServerStartup is rejected and nobody handles it.
StartThrows ==
  /\ \/ stage = "config" /\ ConfigIsUnreadable
     \/ stage = "database" /\ MigrationIsStuck
  /\ ProcessEnds /\ Quietly

\* A kill, a power cut, a call that fails for once in the start.
Crash == stage # "down" /\ ProcessEnds /\ Fault

\* SIGINT or SIGTERM: a second signal changes nothing.
BeginShutdown ==
  /\ stage = "listening" /\ stage' = "closing"
  /\ Fault /\ UNCHANGED <<startVars, presetVars, authVars, cutOff>>

\* The sockets are closed, the database too, process.exit: nothing waits for the writes.
EndShutdown == stage = "closing" /\ ProcessEnds /\ Quietly

-----------------------------------------------------------------------------
(* The server listens. *)

ConfigRequest ==
  /\ stage = "listening" /\ Request
  /\ \E s \in Settings : WriteConfig(s)
  /\ UNCHANGED <<presetVars, authVars, stage, cutOff>>

\* WriteConfig throws, and the listener of config-update has no catch.
InvalidConfig == stage = "listening" /\ Request /\ ProcessEnds

PresetsAreAsked ==
  /\ stage = "listening" /\ Request /\ PresetRequest
  /\ UNCHANGED <<startVars, authVars, stage, cutOff>>

LoginIsAsked ==
  /\ stage = "listening" /\ Request /\ AuthRequest
  /\ UNCHANGED <<startVars, presetVars, stage, cutOff>>

\* What is in progress goes on, until process.exit.
Works ==
  /\ stage \in {"listening", "closing"} /\ Quietly /\ UNCHANGED stage
  /\ \/ /\ \E w \in writes : OpenConfig(w) \/ EndConfig(w)
        /\ cutOff' = (cutOff \/ (writes' = {} /\ configFile'.state = "part"))
        /\ UNCHANGED <<presetVars, authVars>>
     \/ PresetStep /\ UNCHANGED <<startVars, authVars, cutOff>>
     \/ AuthStep /\ UNCHANGED <<startVars, presetVars, cutOff>>

Fails ==
  /\ stage \in {"listening", "closing"} /\ Fault
  /\ \/ PresetFault /\ UNCHANGED authVars
     \/ AuthFault /\ UNCHANGED presetVars
  /\ UNCHANGED <<startVars, stage, cutOff>>

MigrationOfPresetsFails ==
  /\ stage = "presets" /\ Fault /\ MigrationFails
  /\ UNCHANGED <<startVars, authVars, stage, cutOff>>

TimePasses ==
  /\ stage = "listening" /\ Tick
  /\ Quietly /\ UNCHANGED <<startVars, presetVars, stage, cutOff>>

-----------------------------------------------------------------------------

Start == StartConfig \/ StartPresets \/ StartDatabase \/ StartAuth \/ StartQueue

Next ==
  \/ Boot \/ Start \/ StartThrows \/ MigrationOfPresetsFails
  \/ ConfigRequest \/ InvalidConfig \/ PresetsAreAsked \/ LoginIsAsked
  \/ Works \/ Fails \/ TimePasses
  \/ Crash \/ BeginShutdown \/ EndShutdown

Spec == Init /\ [][Next]_vars

\* The container restarts the process, a start and a shutdown go on, and so does time.
FairSpec ==
  /\ Spec
  /\ WF_vars(Boot) /\ WF_vars(Start) /\ WF_vars(StartThrows)
  /\ WF_vars(EndShutdown) /\ WF_vars(TimePasses)

\* However often the process ends, and in whatever state of a migration: the server
\* comes to listen for good, unless one of the writes that no start repairs was cut off
\* (README, section 4).
EventuallyServes == <>[](stage = "listening") \/ <>[]cutOff

=============================================================================
