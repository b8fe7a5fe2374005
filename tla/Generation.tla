----------------------------- MODULE Generation -----------------------------
(***************************************************************************)
(* The generators of the command line (internal/cli gen.go, plan.go,        *)
(* apply.go, migration.go; internal/scaffold; internal/atomicdir) over the  *)
(* files of one project: `bear new`, `bear gen api`, `bear gen model|dto`,  *)
(* and `bear gen apply` of a preview.  Only api generations take            *)
(* the lock file; model and dto share internal/ and go.mod with them.  Any  *)
(* step may fail, those of an undo too, which then goes on with what is     *)
(* left to undo; and a process may die between two steps.                   *)
(* The bytes of files are abstracted to what they list; a file written with *)
(* os.WriteFile is "torn" between its truncation and its write.             *)
(***************************************************************************)
EXTENDS Naturals, FiniteSets

CONSTANTS
  Processes,      \* runs of the bear command at the same time
  Names,          \* resource names, each its own package
  DecimalNames,   \* those whose fields need the decimal module
  Database,       \* whether the project's configuration enables a database
  CommandLimit,   \* bound on the generations that are started
  TroubleLimit    \* bound on errors and deaths

ASSUME GenerationAssumption ==
  /\ DecimalNames \subseteq Names /\ Database \in BOOLEAN
  /\ "free" \notin Processes /\ "stale" \notin Processes
  /\ CommandLimit \in Nat /\ TroubleLimit \in Nat

VARIABLES
  project,    \* the project directory exists
  packages,   \* internal/<package>: "absent", "api", "plain" (model, dto), or
              \* "partial" after a removal that did not succeed
  migrations, \* migration files: version, name and direction
  goMod,      \* what go.mod requires, and whether the file is whole
  manifest,   \* .bear/scaffold.json
  registry,   \* the packages listed by internal/app/modules_gen.go
  lock,       \* .bear/generate.lock: its owner, "free", or "stale"
  cmd,        \* per process, the command it executes
  generated,  \* history: APIs whose generation reported success
  stranded,   \* history: APIs left in the manifest by a restore that failed
  commands,   \* commands started so far, for CommandLimit
  troubles    \* errors and deaths so far, for TroubleLimit

generationVars == <<project, packages, migrations, goMod, manifest, registry,
                    lock, cmd, generated, stranded, commands, troubles>>

NoPlan == [name |-> "none", kind |-> "none", seen |-> <<>>, pins |-> {}, version |-> 0]
Quiet == [pc |-> "idle", name |-> "none", kind |-> "none", applies |-> FALSE, plan |-> NoPlan,
          written |-> {}, goModSeen |-> <<>>, ok |-> FALSE]

Places == {"idle", "new", "plan", "publish", "up", "down", "pins", "pinning", "manifest",
           "registry", "restore", "undoFiles", "undoGoMod", "undoingGoMod", "undoPackage",
           "upgrade", "upgrading", "release"}

GoMods == [pins : SUBSET {"orm", "decimal"}, torn : BOOLEAN]
MigrationFiles == [version : 1 .. CommandLimit, name : Names, direction : {"up", "down"}]
PlansType == [name : Names \cup {"none"}, kind : {"none", "api", "plain"},
              seen : {<<>>} \cup ((SUBSET Names) \X {1, 2}),
              pins : SUBSET {"orm", "decimal"}, version : 0 .. CommandLimit]

CommandType == [pc : Places, name : Names \cup {"none"}, kind : {"none", "api", "plain"},
                applies : BOOLEAN, plan : PlansType, written : SUBSET MigrationFiles,
                goModSeen : {<<>>} \cup {<<g>> : g \in GoMods}, ok : BOOLEAN]
Manifests == [state : {"absent", "whole", "torn"}, apis : SUBSET Names, version : {1, 2}]

GenerationTypeOK ==
  /\ project \in BOOLEAN
  /\ packages \in [Names -> {"absent", "api", "plain", "partial"}]
  /\ migrations \subseteq MigrationFiles /\ goMod \in GoMods /\ manifest \in Manifests
  /\ registry \subseteq Names /\ generated \subseteq Names /\ stranded \subseteq Names
  /\ lock \in Processes \cup {"free", "stale"} /\ cmd \in [Processes -> CommandType]
  /\ commands \in 0 .. CommandLimit /\ troubles \in 0 .. TroubleLimit

\* A project without a manifest (made before there was one), or none yet.
GenerationInit ==
  /\ project \in BOOLEAN
  /\ packages = [n \in Names |-> "absent"]
  /\ migrations = {}
  /\ goMod = [pins |-> {}, torn |-> FALSE]
  /\ manifest = [state |-> "absent", apis |-> {}, version |-> 1]
  /\ registry = {} /\ lock = "free" /\ generated = {} /\ stranded = {}
  /\ commands = 0 /\ troubles = 0
  /\ cmd = [p \in Processes |-> Quiet]

files == <<project, packages, migrations, goMod, manifest, registry>>
bounds == <<commands, troubles>>

\* scaffold.Generate: the tree is rendered aside; publishing it replaces nothing.
NewStarts(p) ==
  /\ cmd[p].pc = "idle" /\ ~project
  /\ cmd' = [cmd EXCEPT ![p].pc = "new"]
  /\ UNCHANGED <<files, lock, generated, stranded, bounds>>

Scaffold ==
  IF project THEN UNCHANGED <<project, manifest, bounds>>
  ELSE project' = TRUE /\ manifest' = [manifest EXCEPT !.state = "whole"]

NewPublishes(p) ==
  /\ cmd[p].pc = "new"
  /\ Scaffold
  /\ cmd' = [cmd EXCEPT ![p] = Quiet]
  /\ UNCHANGED <<packages, migrations, goMod, registry, lock, generated, stranded, bounds>>

TakesAnyLock(p) == lock' = p

\* acquireGenerationLock: O_EXCL; a lock that is there ends the command.
TakesLock(p) == lock = "free" /\ lock' = p

\* Applying a plan of kind model or dto differs in nothing from generating it.
CommandStarts(p, kind, name, applies) ==
  /\ cmd[p].pc = "idle" /\ project /\ commands < CommandLimit
  /\ commands' = commands + 1
  /\ IF kind = "api" THEN TakesLock(p) ELSE UNCHANGED lock
  /\ cmd' = [cmd EXCEPT ![p] = [Quiet EXCEPT !.pc = "plan", !.kind = kind, !.name = name,
                                              !.applies = applies]]
  /\ UNCHANGED <<files, generated, stranded, troubles>>

Managed == manifest.state # "absent"

\* computePins: what the kind needs; a decimal that is there is left alone.
Pins(kind, name) ==
  (IF kind = "api" THEN {"orm"} ELSE {})
    \cup (IF name \in DecimalNames /\ "decimal" \notin goMod.pins THEN {"decimal"} ELSE {})

NextVersionByCount == Cardinality(migrations) + 1

NextVersion ==
  LET used == {0} \cup {f.version : f \in migrations}
  IN 1 + CHOOSE v \in used : \A w \in used : w <= v

\* planResource, with the manifest that prepareManagedGeneration read.
Plan(kind, name) ==
  [name |-> name, kind |-> kind,
   seen |-> IF kind = "api" /\ Managed THEN <<manifest.apis, manifest.version>> ELSE <<>>,
   pins |-> Pins(kind, name),
   version |-> IF kind = "api" /\ Database THEN NextVersion ELSE 0]

Readable(kind, name) ==
  /\ kind = "api" => manifest.state # "torn" /\ name \notin manifest.apis
  /\ (kind = "api" \/ name \in DecimalNames) => ~goMod.torn

\* A plan is executed only without conflicts.  A plan that apply reads from a
\* preview only is a gate (plansEqual): it is stale, or equal to the fresh one.
Plans(p) ==
  LET c == cmd[p] IN
  /\ c.pc = "plan"
  /\ \/ /\ Readable(c.kind, c.name) /\ packages[c.name] = "absent"
        /\ cmd' = [cmd EXCEPT ![p].pc = "publish", ![p].plan = Plan(c.kind, c.name)]
     \/ /\ c.applies \/ ~(Readable(c.kind, c.name) /\ packages[c.name] = "absent")
        /\ cmd' = [cmd EXCEPT ![p].pc = "release"]
  /\ UNCHANGED <<files, lock, generated, stranded, bounds>>

\* executePlan: atomicdir.Publish fails if the package exists; then the
\* snapshot of go.mod that a rollback writes back.
Publish(p) ==
  LET c == cmd[p] IN
  /\ c.pc = "publish"
  /\ IF packages[c.name] = "absent"
     THEN /\ packages' = [packages EXCEPT ![c.name] = c.kind]
          /\ cmd' = [cmd EXCEPT ![p].goModSeen = <<goMod>>,
                                ![p].pc = IF c.plan.version = 0 THEN "pins" ELSE "up"]
     ELSE cmd' = [cmd EXCEPT ![p].pc = "release"] /\ UNCHANGED packages
  /\ UNCHANGED <<project, migrations, goMod, manifest, registry, lock, generated, stranded, bounds>>

\* writeResourceMigration: one direction.  It never overwrites: with a version
\* chosen under the lock only a user's own file can be in the way, an error.
WriteMigration(p, direction, next) ==
  LET c == cmd[p]
      file == [version |-> c.plan.version, name |-> c.name, direction |-> direction]
  IN /\ c.pc = direction /\ file \notin migrations
     /\ migrations' = migrations \cup {file}
     /\ cmd' = [cmd EXCEPT ![p].pc = next, ![p].written = @ \cup {file}]
     /\ UNCHANGED <<project, packages, goMod, manifest, registry, lock, generated, stranded, bounds>>

AfterPins(p) == IF cmd[p].plan.seen # <<>> THEN "manifest" ELSE "release"

\* applyPins reads go.mod again and truncates it only if a pin is missing.
ApplyPins(p) ==
  LET c == cmd[p] IN
  /\ c.pc = "pins"
  /\ \/ /\ c.plan.pins # {} /\ goMod.torn
        /\ cmd' = [cmd EXCEPT ![p].pc = "undoFiles"] /\ UNCHANGED goMod
     \/ /\ ~(c.plan.pins # {} /\ goMod.torn) /\ c.plan.pins \subseteq goMod.pins
        /\ cmd' = [cmd EXCEPT ![p].pc = AfterPins(p), ![p].ok = (c.plan.seen = <<>>)]
        /\ UNCHANGED goMod
     \/ /\ ~goMod.torn /\ ~(c.plan.pins \subseteq goMod.pins)
        /\ goMod' = [goMod EXCEPT !.torn = TRUE]
        /\ cmd' = [cmd EXCEPT ![p].pc = "pinning",
                              ![p].plan.pins = c.plan.pins \cup goMod.pins]
  /\ UNCHANGED <<project, packages, migrations, manifest, registry, lock, generated, stranded, bounds>>

PinsWritten(p) ==
  LET c == cmd[p] IN
  /\ c.pc = "pinning"
  /\ goMod' = [pins |-> c.plan.pins, torn |-> FALSE]
  /\ cmd' = [cmd EXCEPT ![p].pc = AfterPins(p), ![p].ok = (c.plan.seen = <<>>)]
  /\ UNCHANGED <<project, packages, migrations, manifest, registry, lock, generated, stranded, bounds>>

\* register: manifest, then registry, both from the manifest read under the lock.
RegisterManifest(p) ==
  LET c == cmd[p] IN
  /\ c.pc = "manifest"
  /\ manifest' = [manifest EXCEPT !.apis = c.plan.seen[1] \cup {c.name}]
  /\ cmd' = [cmd EXCEPT ![p].pc = "registry"]
  /\ UNCHANGED <<project, packages, migrations, goMod, registry, lock, generated, stranded, bounds>>

RegisterModule(p) ==
  LET c == cmd[p] IN
  /\ c.pc = "registry"
  /\ registry' = c.plan.seen[1] \cup {c.name}
  /\ cmd' = [cmd EXCEPT ![p].pc = IF c.applies THEN "upgrade" ELSE "release",
                        ![p].ok = ~c.applies]
  /\ UNCHANGED <<project, packages, migrations, goMod, manifest, lock, generated, stranded, bounds>>

\* The registry could not be written: the manifest goes back to its snapshot.
RestoreManifest(p) ==
  /\ cmd[p].pc = "restore"
  /\ manifest' = [manifest EXCEPT !.apis = cmd[p].plan.seen[1]]
  /\ cmd' = [cmd EXCEPT ![p].pc = "undoFiles"]
  /\ UNCHANGED <<project, packages, migrations, goMod, registry, lock, generated, stranded, bounds>>

\* upgradeManifestToV2 reads the manifest and rewrites it in place.
UpgradeManifest(p) ==
  /\ cmd[p].pc = "upgrade"
  /\ manifest' = [manifest EXCEPT !.state = "torn"]
  /\ cmd' = [cmd EXCEPT ![p].pc = "upgrading"]
  /\ UNCHANGED <<project, packages, migrations, goMod, registry, lock, generated, stranded, bounds>>

ManifestUpgraded(p) ==
  /\ cmd[p].pc = "upgrading"
  /\ manifest' = [manifest EXCEPT !.state = "whole", !.version = 2]
  /\ cmd' = [cmd EXCEPT ![p].pc = "release", ![p].ok = TRUE]
  /\ UNCHANGED <<project, packages, migrations, goMod, registry, lock, generated, stranded, bounds>>

\* The rollback of executePlan: migrations, go.mod, package.
RemoveMigrations(p) ==
  /\ cmd[p].pc = "undoFiles"
  /\ migrations' = migrations \ cmd[p].written
  /\ cmd' = [cmd EXCEPT ![p].pc = "undoGoMod"]
  /\ UNCHANGED <<project, packages, goMod, manifest, registry, lock, generated, stranded, bounds>>

RestoreGoMod(p) ==
  /\ cmd[p].pc = "undoGoMod"
  /\ goMod' = [goMod EXCEPT !.torn = TRUE]
  /\ cmd' = [cmd EXCEPT ![p].pc = "undoingGoMod"]
  /\ UNCHANGED <<project, packages, migrations, manifest, registry, lock, generated, stranded,
                 bounds>>

GoModRestored(p) ==
  /\ cmd[p].pc = "undoingGoMod"
  /\ goMod' = cmd[p].goModSeen[1]
  /\ cmd' = [cmd EXCEPT ![p].pc = "undoPackage"]
  /\ UNCHANGED <<project, packages, migrations, manifest, registry, lock, generated, stranded,
                 bounds>>

RemovePackage(p) ==
  /\ cmd[p].pc = "undoPackage"
  /\ packages' = [packages EXCEPT ![cmd[p].name] = "absent"]
  /\ cmd' = [cmd EXCEPT ![p].pc = "release"]
  /\ UNCHANGED <<project, migrations, goMod, manifest, registry, lock, generated, stranded, bounds>>

Trouble == troubles < TroubleLimit /\ troubles' = troubles + 1

\* Errors while undoing are reported, and the undo goes on: a manifest that
\* cannot be restored keeps its entry although the package is removed next.
RestoreManifestFails(p) ==
  /\ Trouble /\ cmd[p].pc = "restore"
  /\ stranded' = stranded \cup {cmd[p].name}
  /\ cmd' = [cmd EXCEPT ![p].pc = "undoFiles"]
  /\ UNCHANGED <<files, lock, generated, commands>>

RemoveMigrationsFails(p) ==
  /\ Trouble /\ cmd[p].pc = "undoFiles"
  /\ \E removed \in SUBSET cmd[p].written : migrations' = migrations \ removed
  /\ cmd' = [cmd EXCEPT ![p].pc = "undoGoMod"]
  /\ UNCHANGED <<project, packages, goMod, manifest, registry, lock, generated, stranded, commands>>

RestoreGoModFails(p) ==
  /\ Trouble /\ cmd[p].pc \in {"undoGoMod", "undoingGoMod"}
  /\ cmd' = [cmd EXCEPT ![p].pc = "undoPackage"]
  /\ UNCHANGED <<files, lock, generated, stranded, commands>>

RemovePackageFails(p) ==
  /\ Trouble /\ cmd[p].pc = "undoPackage"
  /\ \E left \in {cmd[p].kind, "partial"} : packages' = [packages EXCEPT ![cmd[p].name] = left]
  /\ cmd' = [cmd EXCEPT ![p].pc = "release"]
  /\ UNCHANGED <<project, migrations, goMod, manifest, registry, lock, generated, stranded, commands>>

Release(p) ==
  /\ cmd[p].pc = "release"
  /\ lock' = IF cmd[p].kind = "api" THEN "free" ELSE lock
  /\ generated' = generated \cup {n \in {cmd[p].name} : cmd[p].ok /\ cmd[p].kind = "api"}
  /\ cmd' = [cmd EXCEPT ![p] = Quiet]
  /\ UNCHANGED <<files, stranded, bounds>>

\* An I/O error or a finished context at a step of the forward path.
AfterError(pc) ==
  CASE pc \in {"up", "down", "pins", "pinning", "manifest"} -> "undoFiles"
    [] pc = "registry" -> "restore"
    [] OTHER -> "release"

Fails(p) ==
  /\ Trouble
  /\ cmd[p].pc \in {"plan", "publish", "up", "down", "pins", "pinning", "manifest", "registry",
                    "upgrade", "upgrading"}
  /\ cmd' = [cmd EXCEPT ![p].pc = AfterError(cmd[p].pc), ![p].ok = FALSE]
  /\ UNCHANGED <<files, lock, generated, stranded, commands>>

\* The process dies; its lock stays until the operator deletes it.
Dies(p) ==
  /\ Trouble
  /\ cmd[p].pc # "idle"
  /\ cmd' = [cmd EXCEPT ![p] = Quiet]
  /\ lock' = IF lock = p THEN "stale" ELSE lock
  /\ UNCHANGED <<files, generated, stranded, commands>>

OperatorUnlocks ==
  /\ lock = "stale" /\ lock' = "free"
  /\ UNCHANGED <<files, cmd, generated, stranded, bounds>>

GenerationNext ==
  \/ \E p \in Processes :
       \/ NewStarts(p) \/ NewPublishes(p) \/ Plans(p) \/ Publish(p)
       \/ WriteMigration(p, "up", "down") \/ WriteMigration(p, "down", "pins")
       \/ ApplyPins(p) \/ PinsWritten(p) \/ RegisterManifest(p) \/ RegisterModule(p)
       \/ RestoreManifest(p) \/ UpgradeManifest(p) \/ ManifestUpgraded(p)
       \/ RemoveMigrations(p) \/ RestoreGoMod(p) \/ GoModRestored(p) \/ RemovePackage(p)
       \/ RestoreManifestFails(p) \/ RemoveMigrationsFails(p)
       \/ RestoreGoModFails(p) \/ RemovePackageFails(p)
       \/ Release(p) \/ Fails(p) \/ Dies(p)
       \/ \E k \in {"api", "plain"}, n \in Names : \E a \in {FALSE, k = "api"} :
            CommandStarts(p, k, n, a)
  \/ OperatorUnlocks

(* modules_gen.go never lists a package that is not an API on disk, at any
   instant: executePlan publishes before register, and rolls back only what
   the registry does not list.  The exception is a package whose entry stays
   in the manifest because restoring that failed after the registry's write
   had: it is removed, and the next generation registers it.                 *)
RegistryCompiles == \A n \in registry : packages[n] = "api" \/ n \in stranded

(* A generation that reported success is still on disk, in the manifest and in
   the registry after whatever other commands, errors and deaths followed.
   A manifest torn by upgradeManifestToV2 lists nothing.                     *)
GeneratedIsKept ==
  \A n \in generated :
    /\ packages[n] = "api"
    /\ Managed => n \in registry /\ (manifest.state = "whole" => n \in manifest.apis)

\* Both directions of n's migration are on disk.
HasMigration(n) ==
  \A d \in {"up", "down"} : \E f \in migrations : f.name = n /\ f.direction = d

(* Two APIs never share a migration version (lockGeneration), and every one
   that reported success has both directions of its migration.               *)
MigrationsStayApart ==
  /\ \A f, g \in migrations : f.version = g.version => f.name = g.name
  /\ Database => \A n \in generated : HasMigration(n)

-----------------------------------------------------------------------------
(* What keeps these properties true.                                       *)

\* From the publication of its package to its undo, or its report.
Owns(p) ==
  \/ cmd[p].pc \in {"up", "down", "pins", "pinning", "manifest", "registry", "restore",
                    "undoFiles", "undoGoMod", "undoingGoMod", "undoPackage", "upgrade", "upgrading"}
  \/ cmd[p].ok

\* An api generation holds the lock; a package has one owner.
CommandShape ==
  /\ \A p \in Processes :
       /\ cmd[p].pc \in {"idle", "new"} <=> cmd[p].kind = "none"
       /\ cmd[p].kind = "api" <=> lock = p
       /\ cmd[p].kind # "none" => project /\ cmd[p].name \in Names
       /\ cmd[p].ok => cmd[p].pc = "release"
       /\ cmd[p].pc \in {"up", "down", "manifest", "registry", "restore", "upgrade", "upgrading"} =>
            cmd[p].kind = "api"
       /\ cmd[p].kind = "plain" => cmd[p].plan.seen = <<>> /\ cmd[p].plan.version = 0
       /\ Owns(p) => /\ packages[cmd[p].name] = cmd[p].kind
                     /\ cmd[p].name \notin generated /\ cmd[p].goModSeen # <<>>
                     /\ \A q \in Processes : Owns(q) /\ cmd[q].name = cmd[p].name => q = p
  /\ ~project => generated = {}

Undoing == {"undoFiles", "undoGoMod", "undoingGoMod", "undoPackage"}

\* What a plan has seen of the manifest is current, for the lock is held.
SeesManifest(p) ==
  /\ cmd[p].kind = "api" /\ cmd[p].pc \in {"publish", "up", "down", "pins", "pinning", "manifest"} =>
       cmd[p].name \notin manifest.apis
  /\ Owns(p) /\ (cmd[p].kind = "plain" \/ cmd[p].pc \in Undoing) =>
       cmd[p].name \notin manifest.apis \ stranded
  /\ cmd[p].kind = "api" /\ cmd[p].pc \in {"publish", "up", "down", "pins", "pinning"} =>
       (cmd[p].plan.seen # <<>> <=> Managed)
  /\ cmd[p].pc \in {"manifest", "registry", "restore", "upgrade", "upgrading"} =>
       cmd[p].plan.seen # <<>> /\ Managed
  /\ cmd[p].pc \in {"publish", "up", "down", "pins", "pinning", "manifest"}
       /\ cmd[p].plan.seen # <<>> => cmd[p].plan.seen[1] = manifest.apis
  /\ cmd[p].pc \in {"registry", "restore"} =>
       /\ manifest.apis = cmd[p].plan.seen[1] \cup {cmd[p].name}
       /\ registry \subseteq cmd[p].plan.seen[1]
       /\ cmd[p].name \notin cmd[p].plan.seen[1]
  /\ (cmd[p].kind = "api" /\ cmd[p].ok /\ Managed) \/ cmd[p].pc \in {"upgrade", "upgrading"} =>
       cmd[p].name \in registry

\* The manifest lists packages that are there, or stranded; the registry some
\* of them.
ManifestOnDisk ==
  /\ registry \subseteq manifest.apis
  /\ \A n \in manifest.apis : packages[n] = "api" \/ n \in stranded
  /\ \A p \in Processes : SeesManifest(p)

\* A version that is planned is newer than all, up to the first file that has it;
\* past its migration, an API with a database has both files.
FreshVersion(p) ==
  /\ cmd[p].kind = "api" /\ cmd[p].pc = "plan" =>
       0 < commands /\ \A f \in migrations : f.version < commands
  /\ cmd[p].pc \in {"publish", "up", "down"} =>
       /\ cmd[p].plan.version <= commands
       /\ cmd[p].kind = "api" => (Database <=> cmd[p].plan.version # 0)
  /\ cmd[p].pc \in {"publish", "up"} /\ cmd[p].plan.version # 0 =>
       \A f \in migrations : f.version < cmd[p].plan.version
  /\ cmd[p].pc = "down" =>
       /\ \A f \in migrations : f.version < cmd[p].plan.version \/ f.name = cmd[p].name
       /\ \E f \in migrations : f.name = cmd[p].name /\ f.direction = "up"
  /\ cmd[p].pc \in {"up", "down"} => cmd[p].plan.version # 0
  /\ \A f \in cmd[p].written : f.name = cmd[p].name
  /\ Database /\ cmd[p].kind = "api"
       /\ (cmd[p].ok \/ cmd[p].pc \in {"pins", "pinning", "manifest", "registry", "upgrade",
                                      "upgrading"}) => HasMigration(cmd[p].name)

VersionsAreFresh ==
  /\ \A f \in migrations : f.version <= commands
  /\ \A p \in Processes : FreshVersion(p)

GenerationIInv ==
  /\ GenerationTypeOK /\ CommandShape /\ ManifestOnDisk /\ VersionsAreFresh
  /\ RegistryCompiles /\ GeneratedIsKept /\ MigrationsStayApart
=============================================================================
