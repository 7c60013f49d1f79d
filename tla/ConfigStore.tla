---------------------------- MODULE ConfigStore ----------------------------
(***************************************************************************)
(* TEdgeConfigLocation (tedge_config_location.rs): how tedge processes     *)
(* read, migrate and rewrite tedge.toml.  Each process runs a sequence of  *)
(* update_toml (e.g. `tedge config set`), load (any tedge command) or      *)
(* `tedge connect` (build_command, cli.rs, which loads first) calls;       *)
(* the steps of a call are separated where the code awaits the file        *)
(* system, since another process may act on the file in between.  A        *)
(* process may be killed at any step.                                      *)
(*                                                                         *)
(* The file is abstracted to its schema version and the value of each      *)
(* setting: version 1 is the pre-migration layout, version 2 the current   *)
(* one.  Environment overrides of FileAndEnvironment are left out.         *)
(***************************************************************************)
EXTENDS Naturals, FiniteSets

CONSTANTS
    Procs,      \* tedge processes
    Keys,       \* the settings
    Vals,       \* the values a setting is set to
    NoVal       \* a setting absent from the file

\* A tedge.toml document.
Contents == [version : {1, 2}, vals : [Keys -> Vals \cup {NoVal}]]

\* What extract_data reads when tedge.toml does not exist: the defaults,
\* with no config.version, i.e. version 1.
Default == [version |-> 1, vals |-> [k \in Keys |-> NoVal]]

VARIABLES
    dir,        \* the config root directory exists
    exists,     \* tedge.toml exists
    file,       \* its content
    owner,      \* "tedge" | "other": the owner of tedge.toml
    op,         \* per process: "update" (update_toml) | "load" | "connect": its call
    pc,         \* per process: the step of its current call, or "idle"
    dto,        \* per process: the TEdgeConfigDto in hand
    out,        \* per process: the document store() is writing
    storing,    \* per process: "mig" (the migration's store) | "final" (update_toml's)
    key, val,   \* per process: the setting its update closure sets
    sawFile,    \* per process: tedge.toml existed when its call first read it
    ret,        \* per process: how its last call ended
    lastSet     \* per setting: the value the last update_toml wrote for it

vars == <<dir, exists, file, owner, op, pc, dto, out, storing, key, val, sawFile, ret, lastSet>>

-----------------------------------------------------------------------------

\* extract_data: the DTO of what is on disk.
Extract == IF exists THEN file ELSE Default

\* Mutant: migrations that rewrite the layout without carrying the values.
MigrateDropsSettings(doc) == [version |-> 2, vals |-> [k \in Keys |-> NoVal]]

\* The migrations fold: rewrites a version-1 document in the version-2 layout,
\* keeping every setting.
Migrate(doc) == [doc EXCEPT !.version = 2]

\* The call of p ends with result r.
Finish(p, r) ==
    /\ pc' = [pc EXCEPT ![p] = "idle"]
    /\ ret' = [ret EXCEPT ![p] = r]

\* What follows load_dto: update_toml applies its closure, build_command
\* goes on building the command, load returns.
AfterLoadDto(p) ==
    CASE op[p] = "update"  -> pc' = [pc EXCEPT ![p] = "apply"] /\ UNCHANGED ret
      [] op[p] = "connect" -> pc' = [pc EXCEPT ![p] = "build"] /\ UNCHANGED ret
      [] OTHER             -> Finish(p, "Ok")

\* A store() of process p that failed with `?`.
StoreFailed(p) == Finish(p, "Err")

-----------------------------------------------------------------------------
(* Calls *)

\* update_toml: begins with load_dto::<FileOnly>.
UpdateToml(p, k, v) ==
    /\ pc[p] = "idle"
    /\ op' = [op EXCEPT ![p] = "update"]
    /\ pc' = [pc EXCEPT ![p] = "read"]
    /\ key' = [key EXCEPT ![p] = k]
    /\ val' = [val EXCEPT ![p] = v]
    /\ UNCHANGED <<dir, exists, file, owner, dto, out, storing, sawFile, ret, lastSet>>

\* load: load_dto_from_toml_and_env.
Load(p) ==
    /\ pc[p] = "idle"
    /\ op' = [op EXCEPT ![p] = "load"]
    /\ pc' = [pc EXCEPT ![p] = "read"]
    /\ UNCHANGED <<dir, exists, file, owner, dto, out, storing, key, val, sawFile, ret, lastSet>>

\* `tedge connect`: TEdgeConnectOpt::build_command starts with
\* context.load_config()?.  build_command is synchronous, so the load goes
\* through load_sync, whose steps are those of load.
Connect(p) ==
    /\ pc[p] = "idle"
    /\ op' = [op EXCEPT ![p] = "connect"]
    /\ pc' = [pc EXCEPT ![p] = "read"]
    /\ UNCHANGED <<dir, exists, file, owner, dto, out, storing, key, val, sawFile, ret, lastSet>>

\* The rest of build_command, after the load: cloud.try_into()? and
\* service_manager(..)? may fail; otherwise the ConnectCommand is built.
BuildCommand(p) ==
    /\ pc[p] = "build"
    /\ \E r \in {"Ok", "Err"} : Finish(p, r)
    /\ UNCHANGED <<op, dir, exists, file, owner, dto, out, storing, key, val, sawFile, lastSet>>

-----------------------------------------------------------------------------
(* load_dto_with_warnings *)

\* extract_data(path); migrations() is Some for a version-1 DTO.
ExtractDto(p) ==
    /\ pc[p] = "read"
    /\ dto' = [dto EXCEPT ![p] = Extract]
    /\ sawFile' = [sawFile EXCEPT ![p] = exists]
    /\ IF Extract.version = 1
         THEN pc' = [pc EXCEPT ![p] = "mig_read"] /\ UNCHANGED ret
         ELSE AfterLoadDto(p)
    /\ UNCHANGED <<op, dir, exists, file, owner, out, storing, key, val, lastSet>>

\* read_to_string(toml_path) again: on failure break out of the migration,
\* otherwise migrate what was read and store it.
MigRead(p) ==
    /\ pc[p] = "mig_read"
    /\ \/ /\ ~exists
          /\ AfterLoadDto(p)
          /\ UNCHANGED <<out, storing>>
       \/ /\ exists
          /\ out' = [out EXCEPT ![p] = Migrate(file)]
          /\ storing' = [storing EXCEPT ![p] = "mig"]
          /\ pc' = [pc EXCEPT ![p] = "exists"]
          /\ UNCHANGED ret
    /\ UNCHANGED <<op, dir, exists, file, owner, dto, key, val, sawFile, lastSet>>

\* Mutant: no reload after the migration's store; the version-1 DTO is kept.
MigReloadStale(p) ==
    /\ pc[p] = "mig_reload"
    /\ AfterLoadDto(p)
    /\ UNCHANGED <<op, dir, exists, file, owner, dto, out, storing, key, val, sawFile, lastSet>>

\* After the migration's store: extract_data again.
MigReload(p) ==
    /\ pc[p] = "mig_reload"
    /\ dto' = [dto EXCEPT ![p] = Extract]
    /\ AfterLoadDto(p)
    /\ UNCHANGED <<op, dir, exists, file, owner, out, storing, key, val, sawFile, lastSet>>

\* Mutant: store the DTO as loaded instead of the updated one.
ApplyStale(p) ==
    /\ pc[p] = "apply"
    /\ out' = [out EXCEPT ![p] = dto[p]]
    /\ storing' = [storing EXCEPT ![p] = "final"]
    /\ pc' = [pc EXCEPT ![p] = "exists"]
    /\ UNCHANGED <<op, dir, exists, file, owner, dto, key, val, sawFile, ret, lastSet>>

\* update_toml: the closure sets the setting on the DTO (or rejects the
\* value), then store(&config).
Apply(p) ==
    /\ pc[p] = "apply"
    /\ \/ /\ out' = [out EXCEPT ![p] = [dto[p] EXCEPT !.vals[key[p]] = val[p]]]
          /\ storing' = [storing EXCEPT ![p] = "final"]
          /\ pc' = [pc EXCEPT ![p] = "exists"]
          /\ UNCHANGED ret
       \/ /\ Finish(p, "Err")
          /\ UNCHANGED <<out, storing>>
    /\ UNCHANGED <<op, dir, exists, file, owner, dto, key, val, sawFile, lastSet>>

-----------------------------------------------------------------------------
(* store *)

\* Mutant: write without checking that the directory exists.
StoreCheckDirSkipped(p) ==
    /\ pc[p] = "exists"
    /\ pc' = [pc EXCEPT ![p] = "write"]
    /\ UNCHANGED <<op, dir, exists, file, owner, dto, out, storing, key, val, sawFile, ret, lastSet>>

\* try_exists(root).unwrap_or(false): create the directory if it is missing.
StoreCheckDir(p) ==
    /\ pc[p] = "exists"
    /\ pc' = [pc EXCEPT ![p] = IF dir THEN "write" ELSE "mkdir"]
    /\ UNCHANGED <<op, dir, exists, file, owner, dto, out, storing, key, val, sawFile, ret, lastSet>>

\* create_dir(root)?: fails if the directory appeared meanwhile.
StoreMkdir(p) ==
    /\ pc[p] = "mkdir"
    /\ \/ /\ ~dir
          /\ dir' = TRUE
          /\ pc' = [pc EXCEPT ![p] = "write"]
          /\ UNCHANGED ret
       \/ /\ dir
          /\ StoreFailed(p)
          /\ UNCHANGED dir
    /\ UNCHANGED <<op, exists, file, owner, dto, out, storing, key, val, sawFile, lastSet>>

\* atomically_write_file_async(toml_path)?: the new document replaces the
\* file in one step, owned by the writing process, or the write fails.
StoreWrite(p) ==
    /\ pc[p] = "write"
    /\ \/ /\ exists' = TRUE
          /\ file' = out[p]
          /\ owner' = "other"
          /\ pc' = [pc EXCEPT ![p] = "perms"]
          /\ lastSet' = IF storing[p] = "final"
                          THEN [lastSet EXCEPT ![key[p]] = val[p]] ELSE lastSet
          /\ UNCHANGED ret
       \/ /\ StoreFailed(p)
          /\ UNCHANGED <<exists, file, owner, lastSet>>
    /\ UNCHANGED <<op, dir, dto, out, storing, key, val, sawFile>>

\* change_user_and_group and change_mode: a failure is only a warning.  The
\* store returns Ok: to the migration's reload, or out of update_toml.
StorePerms(p) ==
    /\ pc[p] = "perms"
    /\ \E chowned \in BOOLEAN : owner' = IF chowned THEN "tedge" ELSE owner
    /\ IF storing[p] = "mig"
         THEN pc' = [pc EXCEPT ![p] = "mig_reload"] /\ UNCHANGED ret
         ELSE Finish(p, "Ok")
    /\ UNCHANGED <<op, dir, exists, file, dto, out, storing, key, val, sawFile, lastSet>>

\* The process is killed at any step of a call.
Crash(p) ==
    /\ pc[p] # "idle"
    /\ Finish(p, "Killed")
    /\ UNCHANGED <<op, dir, exists, file, owner, dto, out, storing, key, val, sawFile, lastSet>>

\* Another program (tedge init, a package script, another tedge command)
\* creates the config directory.
DirCreatedElsewhere ==
    /\ ~dir
    /\ dir' = TRUE
    /\ UNCHANGED <<op, exists, file, owner, pc, dto, out, storing, key, val, sawFile, ret, lastSet>>

-----------------------------------------------------------------------------

\* tedge.toml before any of these calls: possibly no directory or no file,
\* possibly an old version-1 file, with any settings.
Init ==
    /\ dir \in BOOLEAN
    /\ exists \in BOOLEAN
    /\ exists => dir
    /\ file \in Contents
    /\ ~exists => file = Default
    /\ owner = "tedge"
    /\ op = [p \in Procs |-> "load"]
    /\ pc = [p \in Procs |-> "idle"]
    /\ dto = [p \in Procs |-> Default]
    /\ out = [p \in Procs |-> Default]
    /\ storing = [p \in Procs |-> "final"]
    /\ key = [p \in Procs |-> CHOOSE k \in Keys : TRUE]
    /\ val = [p \in Procs |-> CHOOSE v \in Vals : TRUE]
    /\ sawFile = [p \in Procs |-> FALSE]
    /\ ret = [p \in Procs |-> "none"]
    /\ lastSet = [k \in Keys |-> NoVal]

Next ==
    \E p \in Procs :
        \/ \E k \in Keys, v \in Vals : UpdateToml(p, k, v)
        \/ Load(p) \/ Connect(p) \/ BuildCommand(p)
        \/ ExtractDto(p) \/ MigRead(p) \/ MigReload(p) \/ Apply(p)
        \/ StoreCheckDir(p) \/ StoreMkdir(p) \/ StoreWrite(p) \/ StorePerms(p)
        \/ Crash(p)
    \/ DirCreatedElsewhere

Spec == Init /\ [][Next]_vars


-----------------------------------------------------------------------------
(* Properties *)

Steps == {"idle", "read", "mig_read", "mig_reload", "apply", "build",
          "exists", "mkdir", "write", "perms"}

\* Types; and tedge.toml only exists inside an existing config directory,
\* since store() creates the directory before writing the file.
TypeOK ==
    /\ dir \in BOOLEAN /\ exists \in BOOLEAN /\ file \in Contents
    /\ owner \in {"tedge", "other"}
    /\ op \in [Procs -> {"update", "load", "connect"}]
    /\ pc \in [Procs -> Steps]
    /\ dto \in [Procs -> Contents] /\ out \in [Procs -> Contents]
    /\ storing \in [Procs -> {"mig", "final"}]
    /\ key \in [Procs -> Keys] /\ val \in [Procs -> Vals]
    /\ sawFile \in [Procs -> BOOLEAN]
    /\ ret \in [Procs -> {"none", "Ok", "Err", "Killed"}]
    /\ lastSet \in [Keys -> Vals \cup {NoVal}]
    /\ exists => dir

\* No lost update: once update_toml has written a setting, tedge.toml keeps
\* that value until another update_toml of the same setting is under way.
\* update_toml is a read-modify-write of the whole file (lines 88-92), and a
\* load may rewrite the file while migrating it (line 179).
NoLostUpdate ==
    \A k \in Keys :
        /\ lastSet[k] # NoVal
        /\ ~\E q \in Procs : op[q] = "update" /\ pc[q] # "idle" /\ key[q] = k
        => file.vals[k] = lastSet[k]

\* update_toml is an atomic set of one setting, and nothing else changes a
\* setting: each write of tedge.toml by update_toml's store (line 92) sets
\* exactly the call's own setting on the settings in the file, once per
\* call, and a migration's store (line 179) writes the settings that are in
\* the file when it replaces it.  A call is committed once its final store
\* has written the file (before chown and chmod).
Committed(p) == pc[p] = "perms" /\ storing[p] = "final"

UpdateCall(p) ==
    IF op[p] = "update" /\ pc[p] # "idle"
      THEN [st |-> IF Committed(p) THEN "done" ELSE "pending",
            k |-> key[p], v |-> val[p]]
      ELSE [st |-> "idle", k |-> CHOOSE k \in Keys : TRUE,
            v |-> CHOOSE v \in Vals : TRUE]

Settings == INSTANCE ConfigSettings WITH vals <- file.vals,
                call <- [p \in Procs |-> UpdateCall(p)]

SettingsSpec == Settings!Spec

\* A load, update_toml or build_command that returns Ok after reading an
\* existing tedge.toml holds a version-2 DTO and leaves the file at version
\* 2: the reload of line 182 puts the migrated settings in the DTO that load
\* returns, that update_toml stores and that the ConnectCommand is built
\* with (test old_toml_can_be_read_in_its_entirety).
MigratedOnReturn ==
    \A p \in Procs :
        pc[p] = "idle" /\ ret[p] = "Ok" /\ sawFile[p]
          => dto[p].version = 2 /\ file.version = 2

=============================================================================
