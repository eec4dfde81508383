-------------------------------- MODULE RunStore --------------------------------
(***************************************************************************)
(* The directory of a run (store.py): the SQLite tables, the               *)
(* content-addressed artifact files next to them, and what a backup and a  *)
(* restored directory hold, while commands open it one after another and   *)
(* may be killed between any two steps.                                    *)
(*                                                                         *)
(* A payload stands for its SHA-256 identity, and a file is named by it.   *)
(* The lock of a run directory (flock, released when its holder dies)      *)
(* allows one command at a time: a second one ends with RUN_ALREADY_ACTIVE *)
(* and changes nothing.  The threads of a command take turns under the     *)
(* mutex of its RunStore, which write_artifact holds from the check of the *)
(* destination to the registration.                                        *)
(***************************************************************************)
EXTENDS Integers

CONSTANTS
    Payloads,
    Configs,      \* configuration hashes (with the profile)
    Pids,
    MaxCommands,  \* bound: how many commands are started
    None

\* The run directory, and the one its backup is restored into: a run is named
\* by its directory.
Dirs == {"run", "restored"}

Bytes == {"absent", "torn", "whole"}

VARIABLES
    files,       \* the artifact files, by directory and payload
    temps,       \* the temporary files, named by payload and process
    rows,        \* the artifact table
    commits,     \* who refers to an artifact: the configuration of the process
                 \* that inserted the first such row, or None (history)
    runs,        \* the run table: run id -> configuration, or None
    restored,    \* the restored directory: "absent", "copying", then the state
                 \* of the backup it was copied from (history)
    copyTables,  \* the database of the backup, or None
    copyFiles,   \* the artifact files of the backup, or None
    copyTemps,   \* the temporary files among them
    backup,      \* the backup: "none", "begun", "done", "again" when another
                 \* backup was made over a done one
    commands,
    pc,          \* where the running command is; "idle" when none is
    dir,         \* its directory, None when there is no command
    pid,
    config,
    payload,     \* what write_artifact is writing
    returned,    \* the identities it has returned
    error        \* the first exception of a write, or None

dirVars == <<files, temps, rows, commits, runs, restored>>
copyVars == <<copyTables, copyFiles, copyTemps, backup>>
localVars == <<dir, pid, config, payload, returned, error>>
vars == <<dirVars, copyVars, commands, pc, localVars>>

Contents == [Payloads -> Bytes]

Tables ==
    [rows : SUBSET Payloads,
     commits : [Payloads -> Configs \cup {None}],
     runs : [Dirs -> Configs \cup {None}]]

ASSUME StoreAssumption ==
    /\ MaxCommands \in Nat
    /\ None \notin Payloads \cup Configs \cup Pids \cup Dirs \cup Contents \cup Tables

Absent == [p \in Payloads |-> "absent"]

Backups == {"begun", "done", "again"}

\* write_artifact between the check of its destination and its return.
Writing == {"temporary", "written", "stored"}

TypeOK ==
    /\ files \in [Dirs -> Contents]
    /\ temps \in [Dirs -> SUBSET (Payloads \X Pids)]
    /\ rows \in [Dirs -> SUBSET Payloads]
    /\ commits \in [Dirs -> [Payloads -> Configs \cup {None}]]
    /\ runs \in [Dirs -> [Dirs -> Configs \cup {None}]]
    /\ restored \in {"absent", "copying"} \cup Backups
    /\ copyTables \in Tables \cup {None}
    /\ copyFiles \in Contents \cup {None}
    /\ copyTemps \subseteq Payloads \X Pids
    /\ backup \in {"none"} \cup Backups
    /\ commands \in Nat
    /\ pc \in {"idle", "running", "backup", "check", "copy", "restore"} \cup Writing
    /\ dir \in Dirs \cup {None} /\ (pc = "idle" <=> dir = None)
    /\ pid \in Pids \cup {None} /\ (pc # "idle" => pid \in Pids)
    /\ config \in Configs \cup {None}
    /\ pc \in {"running"} \cup Writing => config \in Configs
    /\ payload \in Payloads \cup {None} /\ (pc \in Writing => payload \in Payloads)
    /\ returned \subseteq IF dir = None THEN {} ELSE rows[dir]
    /\ error \in {None, "FileExistsError", "OSError"}

Init ==
    /\ files = [d \in Dirs |-> Absent]
    /\ temps = [d \in Dirs |-> {}]
    /\ rows = [d \in Dirs |-> {}]
    /\ commits = [d \in Dirs |-> [p \in Payloads |-> None]]
    /\ runs = [d \in Dirs |-> [r \in Dirs |-> None]]
    /\ restored = "absent"
    /\ copyTables = None /\ copyFiles = None /\ copyTemps = {} /\ backup = "none"
    /\ commands = 0 /\ pc = "idle"
    /\ dir = None /\ pid = None /\ config = None
    /\ payload = None /\ returned = {} /\ error = None
-----------------------------------------------------------------------------
\* A command starts in directory d, in a process of its own.
Command(d, step) ==
    /\ pc = "idle"
    /\ commands < MaxCommands
    /\ commands' = commands + 1
    /\ pc' = step
    /\ dir' = d /\ pid' \in Pids
    /\ UNCHANGED <<payload, returned, error>>

\* Its process is gone, and the lock with it.
End ==
    /\ pc' = "idle"
    /\ dir' = None /\ pid' = None /\ config' = None
    /\ payload' = None /\ returned' = {} /\ error' = None

Here(variable, value) == [variable EXCEPT ![dir] = value]

\* Slip: the configuration of an existing run is not compared.
AcceptsAny(d, c) == TRUE

\* initialize_run: a new run, or one of the same configuration.
Accepts(d, c) == runs[d][d] \in {None, c}

\* synthesize and rate-existing open the run ...
Open(d) ==
    /\ d = "restored" => restored # "absent"
    /\ Command(d, "running")
    /\ \E c \in Configs :
          /\ Accepts(d, c)
          /\ config' = c
          /\ runs' = [runs EXCEPT ![d][d] = c]
    /\ UNCHANGED <<files, temps, rows, commits, restored, copyVars>>

\* ... or end with RUN_CONFIG_MISMATCH.
Mismatch(d) ==
    /\ d = "restored" => restored # "absent"
    /\ pc = "idle"
    /\ commands < MaxCommands
    /\ commands' = commands + 1
    /\ \E c \in Configs : ~Accepts(d, c)
    /\ UNCHANGED <<dirVars, copyVars, pc, localVars>>

Running == pc = "running" /\ UNCHANGED <<copyVars, commands, dir, pid, config>>

\* The first exception of a write ends the batch, once its workers are done.
Raise(exception) == error' = IF error = None THEN exception ELSE error

\* Is there no such file yet?
Missing(p) == files[dir][p] = "absent"

\* write_artifact(p): the file is there already, or a temporary one is created,
\* unless one of that name is left over.
BeginWrite(p) ==
    /\ Running
    /\ payload' = p
    /\ IF ~Missing(p)
       THEN pc' = "stored" /\ UNCHANGED <<temps, error>>
       ELSE IF <<p, pid>> \in temps[dir]
       THEN pc' = pc /\ Raise("FileExistsError") /\ UNCHANGED temps
       ELSE /\ pc' = "temporary"
            /\ temps' = Here(temps, temps[dir] \cup {<<p, pid>>})
            /\ UNCHANGED error
    /\ UNCHANGED <<files, rows, commits, runs, restored, returned>>

\* The payload is written and synchronised, or the disk is full.
WriteBytes ==
    /\ pc = "temporary"
    /\ \/ pc' = "written" /\ UNCHANGED error
       \/ pc' = "running" /\ Raise("OSError")
    /\ UNCHANGED <<dirVars, copyVars, commands, dir, pid, config, payload, returned>>

\* Slip: the file is moved to its name before it is written.
ReplaceableAtOnce == pc \in {"temporary", "written"}

Replaceable == pc = "written"

\* os.replace
Replace ==
    /\ Replaceable
    /\ files' = [files EXCEPT ![dir][payload] = IF pc = "written" THEN "whole" ELSE "torn"]
    /\ temps' = Here(temps, temps[dir] \ {<<payload, pid>>})
    /\ pc' = "stored"
    /\ UNCHANGED <<rows, commits, runs, restored, copyVars, commands, localVars>>

Registrable == pc = "stored"

\* INSERT OR IGNORE INTO artifact
Registered(p) == rows[dir] \cup {p}

Register ==
    /\ Registrable
    /\ rows' = Here(rows, Registered(payload))
    /\ returned' = returned \cup {payload}
    /\ pc' = "running"
    /\ UNCHANGED <<files, temps, commits, runs, restored, copyVars, commands,
                   dir, pid, config, payload, error>>

\* A row of model_call, turn_commit or conversation_commit refers to p.
Commit(p) ==
    /\ Running
    /\ p \in returned
    /\ commits' = [commits EXCEPT ![dir][p] = IF @ = None THEN config ELSE @]
    /\ UNCHANGED <<files, temps, rows, runs, restored, pc, payload, returned, error>>

\* The command ends, well or with the exception of a write.
Close ==
    /\ pc = "running"
    /\ End
    /\ UNCHANGED <<dirVars, copyVars, commands>>
-----------------------------------------------------------------------------
\* backup: the database first ...
Backup ==
    /\ Command("run", "backup")
    /\ UNCHANGED <<dirVars, copyVars, config>>

BackupDatabase ==
    /\ pc = "backup"
    /\ copyTables' = [rows |-> rows[dir], commits |-> commits[dir], runs |-> runs[dir]]
    /\ backup' = IF backup = "done" THEN "again" ELSE backup
    /\ pc' = "check"
    /\ UNCHANGED <<dirVars, copyFiles, copyTemps, commands, localVars>>

\* ... then BACKUP_EXISTS, when artifacts were copied there before ...
BackupArtifacts ==
    /\ pc = "check"
    /\ IF copyFiles # None
       THEN End /\ UNCHANGED <<copyFiles, backup>>
       ELSE /\ pc' = "copy" /\ copyFiles' = Absent /\ backup' = "begun"
            /\ UNCHANGED localVars
    /\ UNCHANGED <<dirVars, copyTables, copyTemps, commands>>

Copied(from, to, p) == [to EXCEPT ![p] = from[p]]

\* Slip: the command does not wait for the last files.
AllCopiedEarly(from, to) == TRUE

AllCopied(from, to) == to = from

\* ... and file after file.
CopyFile ==
    /\ pc = "copy"
    /\ \E p \in Payloads :
          /\ files[dir][p] # copyFiles[p]
          /\ copyFiles' = Copied(files[dir], copyFiles, p)
    /\ UNCHANGED <<dirVars, copyTables, copyTemps, backup, commands, pc, localVars>>

BackupDone ==
    /\ pc = "copy"
    /\ AllCopied(files[dir], copyFiles)
    /\ copyTemps' = temps[dir]
    /\ backup' = "done"
    /\ End
    /\ UNCHANGED <<dirVars, copyTables, copyFiles, commands>>

\* RESTORE_DESTINATION_NOT_EMPTY otherwise.
Restorable == restored = "absent"

\* restore: the database, and then file after file.
Restore ==
    /\ copyTables # None /\ copyFiles # None
    /\ Restorable
    /\ Command("restored", "restore")
    /\ rows' = [rows EXCEPT !["restored"] = copyTables.rows]
    /\ commits' = [commits EXCEPT !["restored"] = copyTables.commits]
    /\ runs' = [runs EXCEPT !["restored"] = copyTables.runs]
    /\ restored' = "copying"
    /\ UNCHANGED <<files, temps, copyVars, config>>

RestoreFile ==
    /\ pc = "restore"
    /\ \E p \in Payloads :
          /\ files[dir][p] # copyFiles[p]
          /\ files' = Here(files, Copied(copyFiles, files[dir], p))
    /\ UNCHANGED <<temps, rows, commits, runs, restored, copyVars, commands, pc, localVars>>

RestoreDone ==
    /\ pc = "restore"
    /\ AllCopied(copyFiles, files[dir])
    /\ temps' = Here(temps, copyTemps)
    /\ restored' = backup
    /\ End
    /\ UNCHANGED <<files, rows, commits, runs, copyVars, commands>>

\* The process dies, at any time.
Kill ==
    /\ pc # "idle"
    /\ End
    /\ UNCHANGED <<dirVars, copyVars, commands>>

Next ==
    \/ \E d \in Dirs : Open(d) \/ Mismatch(d)
    \/ \E p \in Payloads : BeginWrite(p) \/ Commit(p)
    \/ WriteBytes \/ Replace \/ Register \/ Close
    \/ Backup \/ BackupDatabase \/ BackupArtifacts \/ CopyFile \/ BackupDone
    \/ Restore \/ RestoreFile \/ RestoreDone
    \/ Kill

Spec == Init /\ [][Next]_vars
-----------------------------------------------------------------------------
\* What replay verifies, and what resuming relies on: a registered artifact has
\* its whole file, and what a row refers to is registered.
Sound(contents, registered, referring) ==
    \A p \in Payloads :
        /\ p \in registered => contents[p] = "whole"
        /\ referring[p] # None => p \in registered

\* Wherever the run's commands were killed, the run stays readable; so does a
\* restored run whose backup was complete ("Atomically store bytes before
\* registering the complete reference").
DurableReadable ==
    /\ Sound(files["run"], rows["run"], commits["run"])
    /\ restored = "done" =>
          Sound(files["restored"], rows["restored"], commits["restored"])

\* A backup that was reported is sound, whatever was going on when it was made.
BackupConsistent ==
    backup = "done" => Sound(copyFiles, copyTables.rows, copyTables.commits)

\* "Create a consistent SQLite backup and copy immutable artifacts": a backup
\* that was made stays consistent, also when the command is given again and
\* refused.
BackupStaysConsistent ==
    backup \in {"done", "again"} => Sound(copyFiles, copyTables.rows, copyTables.commits)

\* All of a run is made under the configuration it was started with.
RunOfOneConfiguration ==
    \A p \in Payloads : commits["run"][p] \in {None, runs["run"]["run"]}
=================================================================================
