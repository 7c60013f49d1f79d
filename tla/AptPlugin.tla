------------------------------ MODULE AptPlugin ------------------------------
(***************************************************************************)
(* tedge-apt-plugin (plugins/tedge_apt_plugin/src/lib.rs): one invocation  *)
(* of the plugin by the agent, from run_and_exit to the process exit code. *)
(*                                                                         *)
(* The dpkg database is a sequence of dpkg-query lines.  A line's status   *)
(* "<want> ok <status>" is kept as its want and status words; a maintainer *)
(* is a sequence of words.  The apt-get argument list is a sequence of     *)
(* records: an option, an install of name[=version], an install of a .deb  *)
(* file, or a removal name-.                                               *)
(***************************************************************************)
EXTENDS Naturals, Sequences, SequencesExt

CONSTANTS
    PkgNames,       \* package names
    Versions,       \* package versions, "latest" among them
    BadRegex,       \* names that are not valid regular expressions
    Maintainers,    \* maintainer fields (sequences of words)
    Databases,      \* dpkg databases the device may have
    Ops,            \* command lines the agent may run the plugin with
    Configs,        \* the [apt] settings tedge.toml may hold
    DebFile,        \* the package a --file / path .deb contains
    MaxUpdates,     \* longest update list on stdin
    None

\* The results of a child process: exit status 0, a non-zero exit code, or
\* killed by a signal (ExitStatus::code() is None).
Results == {"ok", "code", "signal"}

-----------------------------------------------------------------------------
(* get_installer, validate_version and the list filter *)

\* Mutant: the name alternative does not require the package installed.
ListFilterAnyStatus(p, name, maint) ==
    IF name = None /\ maint = None THEN p.want \in {"install", "deinstall"} /\ p.status = "installed"
    ELSE LET n == IF name = None THEN "" ELSE name
             m == IF maint = None THEN <<>> ELSE maint
         IN \/ n # "" /\ p.name = n
            \/ (IF m = <<>> THEN p.maint = <<>> ELSE IsPrefix(m, p.maint))
               /\ p.want \in {"install", "deinstall"} /\ p.status = "installed"

\* The Regex of lines 106-123 applied to "<name>\t<version>\t<maint>\t<want>
\* ok <status>".  Without filters: the line contains "install ok installed",
\* i.e. want is install or deinstall and the status is installed.  With
\* filters (a missing one is ""): the line starts with "<name>\t", or its
\* third field starts with <maintainer> followed by white space (for "" the
\* field must be empty), and then contains "install ok installed".
ListFilter(p, name, maint) ==
    LET installOkInstalled == p.want \in {"install", "deinstall"} /\ p.status = "installed"
        n == IF name = None THEN "" ELSE name
        m == IF maint = None THEN <<>> ELSE maint
    IN IF name = None /\ maint = None THEN installOkInstalled
       ELSE /\ \/ n # "" /\ p.name = n
               \/ IF m = <<>> THEN p.maint = <<>> ELSE IsPrefix(m, p.maint)
            /\ installOkInstalled

\* get_name_and_version of the lines the filter keeps, in dpkg-query order.
ListOutput(db, name, maint) ==
    LET kept == SelectSeq(db, LAMBDA p : ListFilter(p, name, maint))
    IN [i \in 1..Len(kept) |-> <<kept[i].name, kept[i].version>>]

\* get_installer: the module name, name=version, or the .deb file once its
\* metadata names the module (and the version, when given); None when
\* validate_package fails.
GetInstaller(module, version, path) ==
    CASE path = None /\ version = None -> [kind |-> "install", name |-> module, version |-> None]
      [] path = None -> [kind |-> "install", name |-> module, version |-> version]
      [] DebFile.name = module /\ version \in {None, DebFile.version}
                     -> [kind |-> "file", name |-> DebFile.name, version |-> DebFile.version]
      [] OTHER       -> None

\* validate_version: the second line of `apt list --installed <name>`, the
\* installed package, must have the given version; no such line is Ok.
ValidateVersion(db, module, version) ==
    \A i \in DOMAIN db :
        db[i].name = module /\ db[i].status = "installed" => db[i].version = version

-----------------------------------------------------------------------------

Opt(S) == S \cup {None}

\* A line of the update list on stdin: a parsed SoftwareModuleUpdate, or a
\* line csv/serde cannot deserialize.
Malformed   == [action |-> "malformed", name |-> None, version |-> None, path |-> None]
UpdateLines == [action : {"install", "remove"}, name : PkgNames, version : Opt(Versions),
                path : {None, "deb"}] \cup {Malformed}

\* A command run by run_cmd or Command::new: apt-get's subcommand, the
\* conffile option, and its package arguments.
Cmd(sub, opt, pkgs) == [sub |-> sub, opt |-> opt, pkgs |-> pkgs]

VARIABLES
    op,         \* the parsed command line (filters filled from tedge.toml)
    config,     \* the [apt] settings of tedge.toml, None if it does not load
    db,         \* the dpkg database
    updates,    \* the update list read from stdin (update-list only)
    pc,         \* "start", "run", "loop", "apt", "exiting" or "done"
    i,          \* the update being added to args
    args,       \* the apt-get arguments update-list has built
    printed,    \* the <<name, version>> lines list printed
    ran,        \* the package manager command run, None if none was
    outcome,    \* run_op's result: a child result, or "error" (InternalError)
    exit        \* the process exit code, None while running

vars == <<op, config, db, updates, pc, i, args, printed, ran, outcome, exit>>

\* get_config: the [apt] settings when tedge.toml loads; when the load
\* fails the error is only warned about and the plugin goes on without them.
GetConfig == Configs \cup {None}

Init ==
    /\ op \in Ops
    \* Only list reads a package's maintainer and want: the other operations
    \* are checked with one value of each.
    /\ db \in IF op.kind = "list" THEN Databases
              ELSE {d \in Databases : \A k \in DOMAIN d : d[k].maint = <<>> /\ d[k].want = "install"}
    \* get_config reads tedge.toml for list and install only.
    /\ config \in IF op.kind \in {"list", "install"} THEN GetConfig ELSE {None}
    /\ updates \in IF op.kind = "update-list"
                   THEN UNION {[1..n -> UpdateLines] : n \in 0..MaxUpdates} ELSE {<<>>}
    /\ pc = "start" /\ i = 1 /\ args = <<>> /\ printed = <<>>
    /\ ran = None /\ outcome = None /\ exit = None

\* The command ran and ended with result r: run_op returns Ok(status).
Finished(cmd) ==
    \E r \in Results : ran' = [cmd |-> cmd, result |-> r] /\ outcome' = r

\* The command could not be spawned: InternalError::exec_error.
ExecFailed == ran' = None /\ outcome' = "error"

\* Mutant: a rejected command line returns without an exit code.
StartCliErrorNoExit ==
    /\ pc = "start"
    /\ IF op.kind = "cli_error"
         THEN pc' = "done" /\ UNCHANGED <<op, exit>>
         ELSE /\ op' = IF op.kind = "list" /\ config # None
                         THEN [op EXCEPT !.name = IF @ = None THEN config.name ELSE @,
                                         !.maintainer = IF @ = None THEN config.maintainer ELSE @]
                         ELSE op
              /\ pc' = "run" /\ UNCHANGED exit
    /\ UNCHANGED <<config, db, updates, i, args, printed, ran, outcome>>

\* run_and_exit, lines 325-345: a command line clap rejects exits with 1;
\* for list, a filter not given is taken from tedge.toml when it loads.
Start ==
    /\ pc = "start"
    /\ IF op.kind = "cli_error"
         THEN exit' = 1 /\ pc' = "done" /\ UNCHANGED op
         ELSE /\ op' = IF op.kind = "list" /\ config # None
                         THEN [op EXCEPT !.name = IF @ = None THEN config.name ELSE @,
                                         !.maintainer = IF @ = None THEN config.maintainer ELSE @]
                         ELSE op
              /\ pc' = "run" /\ UNCHANGED exit
    /\ UNCHANGED <<config, db, updates, i, args, printed, ran, outcome>>

\* PluginOp::List, lines 91-133: dpkg-query -W, its lines filtered and
\* printed, its status returned; a filter that does not compile exits 1.
List ==
    /\ pc = "run" /\ op.kind = "list"
    /\ \/ ExecFailed /\ pc' = "exiting" /\ UNCHANGED <<printed, exit>>
       \/ /\ (op.name # None \/ op.maintainer # None) /\ op.name \in BadRegex
          /\ exit' = 1 /\ pc' = "done"
          /\ ran' = [cmd |-> Cmd("dpkg-query", None, <<>>), result |-> "ok"]
          /\ UNCHANGED <<printed, outcome>>
       \/ /\ (op.name = None /\ op.maintainer = None) \/ op.name \notin BadRegex
          /\ printed' = ListOutput(db, op.name, op.maintainer)
          /\ Finished(Cmd("dpkg-query", None, <<>>)) /\ pc' = "exiting" /\ UNCHANGED exit
    /\ UNCHANGED <<op, config, db, updates, i, args>>

\* The conffile option of lines 142-158: tedge.toml's apt.dpk.options.config,
\* or --force-confnew in quotes, passed on as they are, without tedge.toml.
ConffileOption == IF config = None THEN "\"confnew\"" ELSE config.dpk

\* PluginOp::Install, lines 135-159.
Install ==
    /\ pc = "run" /\ op.kind = "install" /\ pc' = "exiting"
    /\ LET inst == GetInstaller(op.module, op.version, op.path)
       IN IF inst = None THEN ExecFailed
          ELSE ExecFailed \/ Finished(Cmd("install", ConffileOption, <<inst>>))
    /\ UNCHANGED <<op, config, db, updates, i, args, printed, exit>>

\* PluginOp::Remove, lines 161-171: apt-get remove name[=version].
RemoveModule ==
    /\ pc = "run" /\ op.kind = "remove" /\ pc' = "exiting"
    /\ \/ ExecFailed
       \/ Finished(Cmd("remove", None,
                       <<[kind |-> "install", name |-> op.module, version |-> op.version]>>))
    /\ UNCHANGED <<op, config, db, updates, i, args, printed, exit>>

\* PluginOp::Prepare and PluginOp::Finalize, lines 225-227.
PrepareFinalize ==
    /\ pc = "run" /\ op.kind \in {"prepare", "finalize"} /\ pc' = "exiting"
    /\ \/ ExecFailed
       \/ Finished(Cmd(IF op.kind = "prepare" THEN "update" ELSE "auto-remove", None, <<>>))
    /\ UNCHANGED <<op, config, db, updates, i, args, printed, exit>>

\* PluginOp::UpdateList, lines 174-191: every line of stdin is deserialized
\* before anything runs; the first that fails ends run_op with an error.
ReadUpdates ==
    /\ pc = "run" /\ op.kind = "update-list"
    /\ IF Malformed \in Range(updates)
         THEN pc' = "exiting" /\ outcome' = "error"
         ELSE pc' = "loop" /\ UNCHANGED outcome
    /\ args' = <<[kind |-> "option", name |-> None, version |-> None]>>
    /\ UNCHANGED <<op, config, db, updates, i, printed, ran, exit>>

\* Mutant: a removal's version is not checked against the installed one.
UpdateStepNoValidate ==
    /\ pc = "loop" /\ i <= Len(updates)
    /\ LET u    == updates[i]
           inst == GetInstaller(u.name, IF u.version = "latest" THEN None ELSE u.version, u.path)
       IN IF u.action = "install"
            THEN IF inst = None THEN pc' = "exiting" /\ outcome' = "error" /\ UNCHANGED <<i, args>>
                 ELSE args' = Append(args, inst) /\ i' = i + 1 /\ UNCHANGED <<pc, outcome>>
            ELSE /\ args' = Append(args, [kind |-> "remove", name |-> u.name, version |-> None])
                 /\ i' = i + 1 /\ UNCHANGED <<pc, outcome>>
    /\ UNCHANGED <<op, config, db, updates, printed, ran, exit>>

\* Lines 192-213, one update: an install adds name[=version] ("latest"
\* dropped) or the validated .deb file; a removal with a version first runs
\* `apt list --installed` and fails unless that version is installed, then
\* adds name-.  A failure ends run_op with the error.
UpdateStep ==
    /\ pc = "loop" /\ i <= Len(updates)
    /\ LET u    == updates[i]
           inst == GetInstaller(u.name, IF u.version = "latest" THEN None ELSE u.version, u.path)
           fail == pc' = "exiting" /\ outcome' = "error" /\ UNCHANGED <<i, args>>
       IN IF u.action = "install"
            THEN IF inst = None THEN fail
                 ELSE args' = Append(args, inst) /\ i' = i + 1 /\ UNCHANGED <<pc, outcome>>
            ELSE \/ u.version # None /\ fail
                 \/ /\ u.version = None \/ ValidateVersion(db, u.name, u.version)
                    /\ args' = Append(args, [kind |-> "remove", name |-> u.name, version |-> None])
                    /\ i' = i + 1 /\ UNCHANGED <<pc, outcome>>
    /\ UNCHANGED <<op, config, db, updates, printed, ran, exit>>

\* Lines 215-222: one apt-get install with all the arguments.
RunAptGet ==
    /\ pc = "loop" /\ i > Len(updates) /\ pc' = "exiting"
    /\ ExecFailed \/ Finished(Cmd("install", None, args))
    /\ UNCHANGED <<op, config, db, updates, i, args, printed, exit>>

\* run_and_exit, lines 347-365: 0 for success, 2 for a non-zero exit code,
\* 4 for a child killed by a signal, 5 for an InternalError.
Exit ==
    /\ pc = "exiting" /\ pc' = "done"
    /\ exit' = CASE outcome = "ok"     -> 0
                 [] outcome = "code"   -> 2
                 [] outcome = "signal" -> 4
                 [] OTHER              -> 5
    /\ UNCHANGED <<op, config, db, updates, i, args, printed, ran, outcome>>

Next ==
    \/ Start \/ List \/ Install \/ RemoveModule \/ PrepareFinalize
    \/ ReadUpdates \/ UpdateStep \/ RunAptGet \/ Exit

Spec == Init /\ [][Next]_vars

-----------------------------------------------------------------------------
(* Properties *)

Installed(p) == p.status = "installed"

TypeOK ==
    /\ op.kind \in {o.kind : o \in Ops}
    /\ op.name \in Opt(PkgNames \cup BadRegex \cup {""})
    /\ op.maintainer = None \/ op.maintainer \in Seq(STRING)
    /\ config \in Configs /\ db \in Databases
    /\ pc \in {"start", "run", "loop", "exiting", "done"}
    /\ i \in 1..MaxUpdates + 1
    /\ printed \in Seq(PkgNames \X Versions)
    /\ outcome \in {None, "error"} \cup Results
    /\ exit \in {None, 0, 1, 2, 4, 5}
    /\ (exit = None) = (pc # "done")

\* list prints only packages dpkg has installed, whatever the filters
\* (the Regex of lines 106-123 requires "install ok installed").
ListedAreInstalled ==
    \A j \in DOMAIN printed :
        \E k \in DOMAIN db : Installed(db[k]) /\ printed[j] = <<db[k].name, db[k].version>>

\* An update list that update-list runs apt-get for was entirely valid, and
\* apt-get gets one argument per update, in the list's order: the module
\* (at the version asked for, none for "latest") or its checked .deb file to
\* install, or the module to remove, when the version to remove, if given,
\* is the installed one (lines 173-222).
UpdateListAllOrNothing ==
    op.kind = "update-list" /\ ran # None =>
        /\ \A j \in DOMAIN updates : updates[j] # Malformed
        /\ Len(ran.cmd.pkgs) = 1 + Len(updates)
        /\ \A j \in DOMAIN updates :
             LET u == updates[j]
                 a == ran.cmd.pkgs[j + 1]
             IN /\ a.name = u.name
                /\ u.action = "remove" <=> a.kind = "remove"
                /\ u.action = "install" /\ u.path = None =>
                     a.version = IF u.version = "latest" THEN None ELSE u.version
                /\ u.action = "remove" /\ u.version # None =>
                     \A k \in DOMAIN db : db[k].name = u.name /\ Installed(db[k])
                                            => db[k].version = u.version

\* "List all the installed modules" (doc comment of PluginOp::List, line
\* 36): without filters, a successful list prints every installed package.
ListsAllInstalled ==
    op.kind = "list" /\ op.name = None /\ op.maintainer = None /\ exit = 0 =>
        \A k \in DOMAIN db :
            Installed(db[k]) => <<db[k].name, db[k].version>> \in Range(printed)

=============================================================================
