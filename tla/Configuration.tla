---------------------------- MODULE Configuration ----------------------------
(***************************************************************************)
(* LoadConfig and LoadDatabaseConfigForGeneration of                       *)
(* pkg/bear/config_loader.go, with the validation of config.go and the     *)
(* production checks of bear.go.                                           *)
(*                                                                         *)
(* The files of a chain are decoded one after the other into one           *)
(* configuration; before each of them strictPolicy decides, from what is   *)
(* merged so far and from the file itself, whether unknown keys are an     *)
(* error.  What is "production" is decided there file by file, and once    *)
(* more, by another function, when the result is validated: the module     *)
(* asks whether the two can disagree.                                      *)
(*                                                                         *)
(* A file is reduced to the settings those decisions read.  A setting it   *)
(* does not give is Absent.  A JSON file may give its section config or    *)
(* server, or server.mode, in another letter case: encoding/json decodes   *)
(* it, and strictPolicy does not find it.  Every other check of a value    *)
(* (ports, durations, ranges, addresses) is one possible refusal.          *)
(***************************************************************************)
EXTENDS Naturals

CONSTANTS FileLimit     \* how many files the chain has at most

ASSUME ConfigAssumption == FileLimit \in Nat

Absent == "absent"
Modes == {Absent, "debug", "release"}
Strictness == {Absent, "on", "off"}
Secrets == {Absent, "weak", "strong"}
Switches == {Absent, "on", "off"}

\* framework is on when config gives framework.strict, or what stands in for it.
Settings == [strict : Strictness, mode : Modes, framework : Switches,
             auth : Switches, secret : Secrets]
Files == [strict : Strictness, mode : Modes, framework : Switches,
          auth : Switches, secret : Secrets,
          unknown : BOOLEAN, foreign : SUBSET {"config", "server"}]

VARIABLES environment,   \* BEAR_ENV and GIN_MODE
          settings,      \* the SysConfig under construction
          ignoredKeys,   \* unknown keys were read and dropped
          unseen,        \* the last file gave strict or mode where strictPolicy does not look
          loader         \* [phase, read]

configVars == <<environment, settings, ignoredKeys, unseen, loader>>

ConfigTypeOK ==
    /\ environment \in [bear : {"", "dev", "production"}, gin : Modes \ {"debug"}]
    /\ settings \in Settings
    /\ ignoredKeys \in BOOLEAN /\ unseen \in BOOLEAN
    /\ loader \in [phase : {"reading", "overriding", "validating", "loaded", "snapshot", "failed"},
                   read : 0..FileLimit]

(* NewSysConfig: authentication is off, and has a well-known secret. *)
NewSysConfig ==
    [strict |-> Absent, mode |-> Absent, framework |-> "off", auth |-> "off",
     secret |-> "weak"]

ConfigInit ==
    /\ environment \in [bear : {"", "dev", "production"}, gin : Modes \ {"debug"}]
    /\ settings = NewSysConfig
    /\ ignoredKeys = FALSE /\ unseen = FALSE
    /\ loader = [phase |-> "reading", read |-> 0]

-----------------------------------------------------------------------------
Merged(given, current) == IF given = Absent THEN current ELSE given

(* configEnvironment and isProductionEnvironment: GIN_MODE stands in for   *)
(* a BEAR_ENV that is not set.                                             *)
ProductionEnvironment ==
    \/ environment.bear = "production"
    \/ environment.bear = "" /\ environment.gin = "release"

(* strictPolicy: the mode and config.strict as they would be after this     *)
(* file, if it gives them in sections of these names.                      *)
SeenMode(file) == IF "server" \in file.foreign THEN Absent ELSE file.mode
SeenStrict(file) == IF "config" \in file.foreign THEN Absent ELSE file.strict

ProductionWith(file) ==
    \/ ProductionEnvironment
    \/ Merged(Merged(SeenMode(file), settings.mode), environment.gin) = "release"

StrictWith(file) == Merged(Merged(SeenStrict(file), settings.strict), "on") = "on"

Refused(file) ==
    \/ ProductionWith(file) /\ ~StrictWith(file)
    \/ file.unknown /\ StrictWith(file)

(* configuredGinMode and isProductionMode, on the merged configuration. *)
IsProductionMode ==
    \/ environment.bear = "production"
    \/ Merged(settings.mode, environment.gin) = "release"

-----------------------------------------------------------------------------
(* decodeConfigFiles, one file: the merge keeps what the file does not give. *)
DecodeFile ==
    /\ loader.phase = "reading" /\ loader.read < FileLimit
    /\ \E file \in Files :
         /\ ~Refused(file)
         /\ settings' = [strict |-> Merged(file.strict, settings.strict),
                         mode |-> Merged(file.mode, settings.mode),
                         framework |-> Merged(file.framework, settings.framework),
                         auth |-> Merged(file.auth, settings.auth),
                         secret |-> Merged(file.secret, settings.secret)]
         /\ ignoredKeys' = (ignoredKeys \/ file.unknown)
         /\ unseen' = (SeenMode(file) # file.mode \/ SeenStrict(file) # file.strict)
    /\ loader' = [loader EXCEPT !.read = @ + 1]
    /\ UNCHANGED environment

(* decodeConfigFiles, a file that cannot be read, parsed or accepted. *)
DecodeFails ==
    /\ loader.phase = "reading" /\ loader.read < FileLimit
    /\ loader' = [loader EXCEPT !.phase = "failed"]
    /\ UNCHANGED <<environment, settings, ignoredKeys, unseen>>

FilesEnd ==
    /\ loader.phase = "reading"
    /\ loader' = [loader EXCEPT !.phase = "overriding"]
    /\ UNCHANGED <<environment, settings, ignoredKeys, unseen>>

(* applyEnvOverrides (BEAR_AUTH_JWT_SECRET) and PostProcess; a number or a  *)
(* Boolean in the environment that does not parse ends the loading.  For   *)
(* LoadDatabaseConfigForGeneration this is all; LoadConfig validates.      *)
ApplyEnvOverrides ==
    /\ loader.phase = "overriding"
    /\ \/ /\ \E given \in Secrets : settings' = [settings EXCEPT !.secret = Merged(given, @)]
          /\ \E phase \in {"snapshot", "validating"} : loader' = [loader EXCEPT !.phase = phase]
       \/ /\ loader' = [loader EXCEPT !.phase = "failed"]
          /\ UNCHANGED settings
    /\ UNCHANGED <<environment, ignoredKeys, unseen>>

(* SysConfig.Validate and validateProductionSecurity. *)
RuntimeContract == IsProductionMode => settings.framework = "on"
ProductionSecurity ==
    IsProductionMode /\ settings.auth = "on" => settings.secret = "strong"

Validate ==
    /\ loader.phase = "validating"
    /\ \/ /\ RuntimeContract /\ ProductionSecurity
          /\ loader' = [loader EXCEPT !.phase = "loaded"]
       \/ loader' = [loader EXCEPT !.phase = "failed"]
    /\ UNCHANGED <<environment, settings, ignoredKeys, unseen>>

ConfigNext ==
    \/ DecodeFile \/ DecodeFails \/ FilesEnd
    \/ ApplyEnvOverrides \/ Validate

-----------------------------------------------------------------------------
(* What a production process starts with: whatever the order of the files  *)
(* and whoever declared production (BEAR_ENV, GIN_MODE or a file), a       *)
(* configuration that LoadConfig returns has a strong secret if its        *)
(* authentication is on, and a runtime policy; its last word on            *)
(* config.strict is not "off", unless the last file has said so, or that   *)
(* this is production, where strictPolicy does not look; and where the     *)
(* environment declared production no unknown key was dropped on the way.  *)
(* It relates the decision taken before each file to the one taken over    *)
(* the merged result.                                                      *)
ProductionLoadsSafely ==
    loader.phase = "loaded" /\ IsProductionMode =>
        /\ settings.auth = "on" => settings.secret = "strong"
        /\ settings.framework = "on"
        /\ settings.strict # "off" \/ unseen
        /\ ProductionEnvironment => ~ignoredKeys

(* What strictPolicy keeps from file to file: where the environment or the *)
(* mode merged so far says production, config.strict is not "off" but for  *)
(* what the last file hid, which the next file is judged by; and where the *)
(* environment says production, no unknown key has been dropped.           *)
ProductionIsStrict ==
    /\ ProductionEnvironment \/ IsProductionMode => settings.strict # "off" \/ unseen
    /\ ProductionEnvironment => ~ignoredKeys

ConfigIInv == ConfigTypeOK /\ ProductionIsStrict /\ ProductionLoadsSafely
=============================================================================
