---------------------------- MODULE RunStoreProofs ----------------------------
(***************************************************************************)
(* For every set of payloads, configurations and process ids, and any      *)
(* number of commands, kills, backups and restores: RunStore keeps its     *)
(* types, a run and its backup stay sound, and a run keeps its             *)
(* configuration.                                                          *)
(***************************************************************************)
EXTENDS RunStore, TLAPS

\* No file of an artifact's name was ever seen half written: what is there when
\* write_artifact checks can be trusted.
NothingTorn ==
    /\ \A d \in Dirs : \A p \in Payloads : files[d][p] \in {"absent", "whole"}
    /\ copyFiles # None => \A p \in Payloads : copyFiles[p] \in {"absent", "whole"}
    /\ pc = "stored" => files[dir][payload] = "whole"

\* The backup in the making is one of the run as it is.
CopyFollows ==
    /\ pc \in {"backup", "check", "copy"} => dir = "run"
    /\ pc \in {"check", "copy"} =>
          copyTables = [rows |-> rows["run"], commits |-> commits["run"], runs |-> runs["run"]]
    /\ pc = "copy" => backup = "begun" /\ copyFiles # None
    /\ backup # "none" <=> copyFiles # None
    /\ backup # "none" => copyTables # None
    /\ pc = "check" => backup # "done"

\* A restored directory has the tables of the backup until it is whole.
RestoreFollows ==
    pc = "restore" =>
        /\ dir = "restored" /\ restored = "copying"
        /\ copyTables # None /\ copyFiles # None
        /\ rows["restored"] = copyTables.rows
        /\ commits["restored"] = copyTables.commits

\* A process has the configuration of the run it works in.
ConfigurationHeld ==
    /\ pc \in {"running"} \cup Writing => runs[dir][dir] = config
    /\ RunOfOneConfiguration

StoreInv ==
    /\ TypeOK
    /\ NothingTorn
    /\ CopyFollows
    /\ RestoreFollows
    /\ ConfigurationHeld
    /\ DurableReadable
    /\ BackupConsistent
-----------------------------------------------------------------------------
\* The end of a command types what it resets.
LEMMA EndFacts ==
    ASSUME End
    PROVE  /\ pc' = "idle" /\ dir' = None /\ pid' = None /\ config' = None
           /\ payload' = None /\ returned' = {} /\ error' = None
  BY DEF End

LEMMA TypeStep == StoreInv /\ [Next]_vars => TypeOK'
  <1> SUFFICES ASSUME StoreInv, [Next]_vars PROVE TypeOK'
    OBVIOUS
  <1> USE DEF StoreInv, TypeOK, Writing
  <1>1. ASSUME NEW d \in Dirs, Open(d)
        PROVE  TypeOK'
    <2>1. runs' \in [Dirs -> [Dirs -> Configs \cup {None}]] /\ config' \in Configs
      BY <1>1 DEF Open
    <2>2. returned = {} /\ payload' = payload
      BY <1>1 DEF Open, Command
    <2>3. QED  BY <1>1, <2>1, <2>2, StoreAssumption DEF Open, Command, copyVars
  <1>2. ASSUME NEW d \in Dirs, Mismatch(d)
        PROVE  TypeOK'
    BY <1>2, StoreAssumption DEF Mismatch, copyVars, dirVars, localVars
  <1>3. ASSUME NEW p \in Payloads, BeginWrite(p)
        PROVE  TypeOK'
    <2>1. dir \in Dirs /\ pid \in Pids /\ config \in Configs
      BY <1>3 DEF BeginWrite, Running
    <2>2. temps' \in [Dirs -> SUBSET (Payloads \X Pids)]
      BY <1>3, <2>1 DEF BeginWrite, Here
    <2>3. pc' \in {"running", "temporary", "stored"} /\ error' \in {None, "FileExistsError", "OSError"}
      BY <1>3 DEF BeginWrite, Running, Raise
    <2>4. QED  BY <1>3, <2>1, <2>2, <2>3 DEF BeginWrite, Running, copyVars
  <1>4. CASE WriteBytes
    BY <1>4 DEF WriteBytes, Raise, dirVars, copyVars
  <1>5. CASE Replace
    <2>1. files' \in [Dirs -> Contents]
      BY <1>5 DEF Replace, Replaceable, Contents, Bytes
    <2>2. temps' \in [Dirs -> SUBSET (Payloads \X Pids)]
      BY <1>5 DEF Replace, Replaceable, Here
    <2>3. QED  BY <1>5, <2>1, <2>2 DEF Replace, Replaceable, copyVars, localVars
  <1>6. CASE Register
    <2>1. rows' = [rows EXCEPT ![dir] = rows[dir] \cup {payload}] /\ dir \in Dirs /\ payload \in Payloads
      BY <1>6 DEF Register, Registrable, Registered, Here
    <2>2. rows' \in [Dirs -> SUBSET Payloads] /\ returned' \subseteq rows'[dir]
      BY <1>6, <2>1, StoreAssumption DEF Register
    <2>3. QED  BY <1>6, <2>1, <2>2, StoreAssumption DEF Register, Registrable, copyVars
  <1>7. ASSUME NEW p \in Payloads, Commit(p)
        PROVE  TypeOK'
    BY <1>7 DEF Commit, Running, copyVars
  <1>8. CASE Close
    BY <1>8, EndFacts DEF Close, dirVars, copyVars
  <1>9. CASE Backup
    <2>1. returned = {}
      BY <1>9 DEF Backup, Command
    <2>2. "run" \in Dirs
      BY DEF Dirs
    <2>3. QED  BY <1>9, <2>1, <2>2, StoreAssumption DEF Backup, Command, dirVars, copyVars
  <1>10. CASE BackupDatabase
    <2>1. copyTables' \in Tables
      BY <1>10 DEF BackupDatabase, Tables
    <2>2. QED  BY <1>10, <2>1 DEF BackupDatabase, dirVars, localVars, Backups
  <1>11. CASE BackupArtifacts
    <2>1. CASE copyFiles # None
      BY <1>11, <2>1, EndFacts DEF BackupArtifacts, dirVars
    <2>2. CASE copyFiles = None
      BY <1>11, <2>2 DEF BackupArtifacts, dirVars, localVars, Absent, Contents, Bytes, Backups
    <2>3. QED  BY <2>1, <2>2
  <1>12. CASE CopyFile
    <2>1. copyFiles' \in Contents
      BY <1>12 DEF CopyFile, Copied, Contents, CopyFollows
    <2>2. QED  BY <1>12, <2>1 DEF CopyFile, dirVars, localVars
  <1>13. CASE BackupDone
    BY <1>13, EndFacts DEF BackupDone, dirVars, Backups
  <1>14. CASE Restore
    <2>1. copyTables \in Tables
      BY <1>14 DEF Restore
    <2>2. /\ rows' \in [Dirs -> SUBSET Payloads]
          /\ commits' \in [Dirs -> [Payloads -> Configs \cup {None}]]
          /\ runs' \in [Dirs -> [Dirs -> Configs \cup {None}]]
      BY <1>14, <2>1 DEF Restore, Tables
    <2>3. returned = {}
      BY <1>14 DEF Restore, Command
    <2>4. QED  BY <1>14, <2>2, <2>3, StoreAssumption DEF Restore, Command, copyVars, Dirs
  <1>15. CASE RestoreFile
    <2>1. files' \in [Dirs -> Contents]
      BY <1>15 DEF RestoreFile, Here, Copied, Contents, RestoreFollows
    <2>2. QED  BY <1>15, <2>1 DEF RestoreFile, copyVars, localVars
  <1>16. CASE RestoreDone
    <2>1. backup \in Backups /\ temps' \in [Dirs -> SUBSET (Payloads \X Pids)]
      BY <1>16 DEF RestoreDone, Here, RestoreFollows, CopyFollows
    <2>2. QED  BY <1>16, <2>1, EndFacts DEF RestoreDone, copyVars
  <1>17. CASE Kill
    BY <1>17, EndFacts DEF Kill, dirVars, copyVars
  <1>18. CASE UNCHANGED vars
    BY <1>18 DEF vars, dirVars, copyVars, localVars
  <1>19. QED
    BY <1>1, <1>2, <1>3, <1>4, <1>5, <1>6, <1>7, <1>8, <1>9, <1>10, <1>11, <1>12, <1>13,
       <1>14, <1>15, <1>16, <1>17, <1>18
    DEF Next

Writes ==
    (\E p \in Payloads : BeginWrite(p) \/ Commit(p)) \/ WriteBytes \/ Replace \/ Register

\* What a step of write_artifact or a commit may change, and where.
LEMMA WriteFacts ==
    ASSUME StoreInv,
           Writes
    PROVE  /\ dir \in Dirs /\ dir' = dir /\ config' = config
           /\ pc \in {"running"} \cup Writing /\ pc' \in {"running"} \cup Writing
           /\ UNCHANGED <<runs, restored, copyVars>>
           /\ \A d \in Dirs \ {dir} :
                 files'[d] = files[d] /\ rows'[d] = rows[d] /\ commits'[d] = commits[d]
           /\ \A p \in Payloads :
                 /\ files'[dir][p] \in {files[dir][p], "whole"}
                 /\ p \in rows'[dir] => p \in rows[dir] \/ files[dir][p] = "whole"
                 /\ commits'[dir][p] = commits[dir][p]
                       \/ (p \in rows[dir] /\ commits'[dir][p] = config)
                 /\ p \in rows[dir] => p \in rows'[dir]
           /\ pc' = "stored" => files'[dir][payload'] = "whole"
  <1> USE DEF StoreInv, TypeOK, Writing, copyVars
  <1>1. ASSUME NEW p \in Payloads, BeginWrite(p)
        PROVE  /\ pc = "running" /\ pc' \in {"running", "temporary", "stored"}
               /\ UNCHANGED <<files, rows, commits, runs, restored, copyVars, dir, config>>
               /\ payload' = p /\ (pc' = "stored" => files[dir][p] = "whole")
    BY <1>1 DEF BeginWrite, Running, Missing, NothingTorn
  <1>2. ASSUME NEW p \in Payloads, Commit(p)
        PROVE  /\ pc = "running" /\ pc' = "running" /\ p \in rows[dir]
               /\ UNCHANGED <<files, rows, runs, restored, copyVars, dir, config>>
               /\ commits' = [commits EXCEPT ![dir][p] = IF @ = None THEN config ELSE @]
    BY <1>2 DEF Commit, Running
  <1>3. CASE WriteBytes
    BY <1>3 DEF WriteBytes, dirVars
  <1>4. CASE Replace
    BY <1>4 DEF Replace, Replaceable, localVars, Contents
  <1>5. CASE Register
    <2>1. /\ pc = "stored" /\ pc' = "running" /\ payload \in Payloads
          /\ rows' = [rows EXCEPT ![dir] = rows[dir] \cup {payload}]
          /\ UNCHANGED <<files, commits, runs, restored, copyVars, dir, config>>
      BY <1>5 DEF Register, Registrable, Registered, Here
    <2>2. files[dir][payload] = "whole"
      BY <2>1 DEF NothingTorn
    <2>3. QED  BY <2>1, <2>2
  <1>6. CASE \E p \in Payloads : BeginWrite(p)
    BY <1>1, <1>6
  <1>7. CASE \E p \in Payloads : Commit(p)
    BY <1>2, <1>7
  <1>8. QED  BY <1>3, <1>4, <1>5, <1>6, <1>7 DEF Writes

\* The steps that touch neither files nor rows of any directory.
StartsOrEnds ==
    \/ \E d \in Dirs : Open(d) \/ Mismatch(d)
    \/ Close \/ Backup \/ BackupDatabase \/ BackupArtifacts \/ CopyFile \/ BackupDone
    \/ Kill \/ UNCHANGED vars

LEMMA StartOrEndFacts ==
    ASSUME StoreInv, StartsOrEnds
    PROVE  UNCHANGED <<files, rows, commits, restored>>
  BY DEF StartsOrEnds, Open, Mismatch, Command, Close, Backup, BackupDatabase, BackupArtifacts,
         CopyFile, BackupDone, Kill, End, dirVars, copyVars, vars, StoreInv, TypeOK

\* The steps of Next, by what they touch.
LEMMA StepKinds ==
    ASSUME [Next]_vars
    PROVE  Writes \/ StartsOrEnds \/ Restore \/ RestoreFile \/ RestoreDone
  BY DEF Next, Writes, StartsOrEnds

LEMMA TornStep == StoreInv /\ [Next]_vars => NothingTorn'
  <1> SUFFICES ASSUME StoreInv, [Next]_vars PROVE NothingTorn'
    OBVIOUS
  <1> USE DEF StoreInv, NothingTorn
  <1>1. CASE Writes
    BY <1>1, WriteFacts DEF copyVars
  <1>2. CASE StartsOrEnds
    <2>1. UNCHANGED files
      BY <1>2, StartOrEndFacts
    <2>2. pc' = "stored" => UNCHANGED <<pc, dir, payload>>
      BY <1>2 DEF StartsOrEnds, Open, Mismatch, Command, Close, Backup, BackupDatabase,
                  BackupArtifacts, CopyFile, BackupDone, Kill, End, vars, localVars
    <2>3. copyFiles' # None => \A p \in Payloads : copyFiles'[p] \in {"absent", "whole"}
      <3>1. CASE CopyFile
        <4>1. PICK p \in Payloads : copyFiles' = [copyFiles EXCEPT ![p] = files[dir][p]]
          BY <3>1 DEF CopyFile, Copied
        <4>2. copyFiles # None /\ dir \in Dirs /\ copyFiles \in Contents
          BY <3>1 DEF CopyFile, CopyFollows, TypeOK
        <4>3. QED  BY <4>1, <4>2 DEF Contents
      <3>2. CASE copyFiles' \in {copyFiles, Absent}
        BY <3>2 DEF Absent
      <3>3. ~CopyFile => copyFiles' \in {copyFiles, Absent}
        BY <1>2 DEF StartsOrEnds, Open, Mismatch, Close, Backup, BackupDatabase,
                    BackupArtifacts, BackupDone, Kill, vars, copyVars
      <3>4. QED  BY <3>1, <3>2, <3>3
    <2>4. QED  BY <2>1, <2>2, <2>3
  <1>3. CASE Restore
    BY <1>3 DEF Restore, Command, copyVars
  <1>4. CASE RestoreFile
    <2>1. PICK p \in Payloads :
              files' = [files EXCEPT ![dir] = [files[dir] EXCEPT ![p] = copyFiles[p]]]
      BY <1>4 DEF RestoreFile, Here, Copied
    <2>2. copyFiles # None /\ dir \in Dirs /\ files \in [Dirs -> Contents]
      BY <1>4 DEF RestoreFile, RestoreFollows, TypeOK
    <2>3. pc' = "restore" /\ copyFiles' = copyFiles
      BY <1>4 DEF RestoreFile, copyVars
    <2>4. \A d \in Dirs : \A q \in Payloads : files'[d][q] \in {"absent", "whole"}
      BY <2>1, <2>2 DEF Contents
    <2>5. QED  BY <2>3, <2>4
  <1>5. CASE RestoreDone
    BY <1>5 DEF RestoreDone, End, copyVars
  <1>6. QED  BY <1>1, <1>2, <1>3, <1>4, <1>5, StepKinds

LEMMA CopyStep == StoreInv /\ [Next]_vars => CopyFollows'
  <1> SUFFICES ASSUME StoreInv, [Next]_vars PROVE CopyFollows'
    OBVIOUS
  <1> USE DEF StoreInv, CopyFollows
  <1>1. CASE Writes
    BY <1>1, WriteFacts DEF copyVars, Writing
  <1>2. CASE (\E d \in Dirs : Open(d) \/ Mismatch(d)) \/ Backup \/ Restore
    BY <1>2 DEF Open, Mismatch, Backup, Restore, Command, copyVars
  <1>3. CASE Close \/ RestoreDone \/ Kill
    BY <1>3 DEF Close, RestoreDone, Kill, End, copyVars
  <1>4. CASE BackupDatabase
    <2>1. /\ copyTables' = [rows |-> rows["run"], commits |-> commits["run"], runs |-> runs["run"]]
          /\ pc' = "check" /\ dir' = "run"
          /\ UNCHANGED <<rows, commits, runs, copyFiles>>
          /\ backup' = IF backup = "done" THEN "again" ELSE backup
      BY <1>4 DEF BackupDatabase, dirVars, localVars
    <2>2. copyTables' # None
      BY <1>4, StoreAssumption DEF BackupDatabase, TypeOK, Tables
    <2>3. QED  BY <2>1, <2>2
  <1>5. CASE BackupArtifacts
    <2>1. Absent # None
      BY StoreAssumption DEF Absent, Contents, Bytes
    <2>2. copyTables # None
      BY <1>5, StoreAssumption DEF BackupArtifacts, TypeOK, Tables
    <2>3. QED
      BY <1>5, <2>1, <2>2 DEF BackupArtifacts, End, dirVars, localVars
  <1>6. CASE CopyFile
    <2>1. copyFiles' # None
      <3>1. copyFiles \in Contents /\ dir \in Dirs /\ files[dir] \in Contents
        BY <1>6 DEF CopyFile, TypeOK
      <3>2. copyFiles' \in Contents
        BY <1>6, <3>1 DEF CopyFile, Copied, Contents
      <3>3. QED  BY <3>2, StoreAssumption
    <2>2. QED  BY <1>6, <2>1 DEF CopyFile, dirVars, localVars
  <1>7. CASE BackupDone
    BY <1>7 DEF BackupDone, End
  <1>8. CASE RestoreFile
    BY <1>8 DEF RestoreFile, copyVars
  <1>9. CASE UNCHANGED vars
    BY <1>9 DEF vars, dirVars, copyVars, localVars
  <1>10. QED
    BY <1>1, <1>2, <1>3, <1>4, <1>5, <1>6, <1>7, <1>8, <1>9, StepKinds DEF StartsOrEnds

LEMMA RestoreStep == StoreInv /\ [Next]_vars => RestoreFollows'
  <1> SUFFICES ASSUME StoreInv, [Next]_vars PROVE RestoreFollows'
    OBVIOUS
  <1> USE DEF StoreInv, RestoreFollows
  <1>1. CASE Restore
    BY <1>1 DEF Restore, Command, copyVars, TypeOK, Dirs
  <1>2. CASE RestoreFile
    BY <1>2 DEF RestoreFile, copyVars, localVars
  <1>3. CASE UNCHANGED vars
    BY <1>3 DEF vars, dirVars, copyVars, localVars
  <1>4. ASSUME ~Restore, ~RestoreFile, ~UNCHANGED vars
        PROVE  pc' # "restore"
    BY <1>4 DEF Next, Open, Mismatch, Command, BeginWrite, Commit, Running, WriteBytes, Replace,
                Register, Close, Backup, BackupDatabase, BackupArtifacts, CopyFile,
                BackupDone, RestoreDone, Kill, End
  <1>5. QED  BY <1>1, <1>2, <1>3, <1>4

LEMMA ConfigurationStep == StoreInv /\ [Next]_vars => ConfigurationHeld'
  <1> SUFFICES ASSUME StoreInv, [Next]_vars PROVE ConfigurationHeld'
    OBVIOUS
  <1> USE DEF StoreInv, ConfigurationHeld, RunOfOneConfiguration
  <1>0. "run" \in Dirs
    BY DEF Dirs
  <1>1. CASE Writes
    <2>1. \A p \in Payloads : commits'["run"][p] \in {None, runs["run"]["run"]}
      <3>1. TAKE p \in Payloads
      <3>2. CASE dir = "run"
        BY <1>1, <3>2, WriteFacts
      <3>3. CASE dir # "run"
        BY <1>0, <1>1, <3>3, WriteFacts
      <3>4. QED  BY <3>2, <3>3
    <2>2. QED  BY <1>1, <2>1, WriteFacts
  <1>2. ASSUME NEW d \in Dirs, Open(d)
        PROVE  ConfigurationHeld'
    <2>1. PICK c \in Configs :
              Accepts(d, c) /\ config' = c /\ runs' = [runs EXCEPT ![d][d] = c]
      BY <1>2 DEF Open
    <2>2. dir' = d /\ runs'[d][d] = c /\ commits' = commits
      BY <1>2, <2>1 DEF Open, Command, TypeOK
    <2>3. runs'["run"]["run"] \in {runs["run"]["run"]} \/ runs["run"]["run"] = None
      BY <1>0, <2>1 DEF Accepts, TypeOK
    <2>4. \A p \in Payloads : commits["run"][p] \in {None, runs'["run"]["run"]}
      BY <2>3
    <2>5. QED  BY <2>1, <2>2, <2>4
  <1>3. CASE Restore
    <2>1. /\ pc' = "restore"
          /\ commits'["run"] = commits["run"] /\ runs'["run"] = runs["run"]
      BY <1>0, <1>3 DEF Restore, Command, TypeOK
    <2>2. QED  BY <2>1 DEF Writing
  <1>4. ASSUME \/ (\E d \in Dirs : Mismatch(d)) \/ Close \/ Backup \/ BackupDatabase
               \/ BackupArtifacts \/ CopyFile \/ BackupDone \/ RestoreFile \/ RestoreDone
               \/ Kill
        PROVE  UNCHANGED <<commits, runs>> /\ pc' \notin {"running"} \cup Writing
    BY <1>4 DEF Mismatch, Close, Backup, Command, BackupDatabase, BackupArtifacts, CopyFile,
                BackupDone, RestoreFile, RestoreDone, Kill, End, dirVars, Writing
  <1>5. CASE UNCHANGED vars
    BY <1>5 DEF vars, dirVars, localVars
  <1>6. QED
    BY <1>1, <1>2, <1>3, <1>4, <1>5, StepKinds DEF StartsOrEnds

LEMMA DurableStep == StoreInv /\ [Next]_vars => DurableReadable'
  <1> SUFFICES ASSUME StoreInv, [Next]_vars PROVE DurableReadable'
    OBVIOUS
  <1> USE DEF StoreInv, DurableReadable, Sound
  <1>0. "run" \in Dirs /\ "restored" \in Dirs
    BY DEF Dirs
  <1>1. CASE Writes
    <2>1. ASSUME NEW d \in Dirs, Sound(files[d], rows[d], commits[d])
          PROVE  Sound(files'[d], rows'[d], commits'[d])
      <3>1. CASE d = dir
        BY <1>1, <2>1, <3>1, WriteFacts
      <3>2. CASE d # dir
        BY <1>1, <2>1, <3>2, WriteFacts
      <3>3. QED  BY <3>1, <3>2
    <2>2. restored' = restored
      BY <1>1, WriteFacts
    <2>3. QED  BY <1>0, <2>1, <2>2
  <1>2. CASE StartsOrEnds
    BY <1>2, StartOrEndFacts
  <1>3. CASE Restore
    BY <1>0, <1>3 DEF Restore, TypeOK
  <1>4. CASE RestoreFile
    <2>1. restored' = "copying" /\ UNCHANGED <<rows, commits>> /\ files'["run"] = files["run"]
      BY <1>0, <1>4 DEF RestoreFile, RestoreFollows, Here, TypeOK
    <2>2. QED  BY <2>1
  <1>5. CASE RestoreDone
    <2>1. UNCHANGED <<files, rows, commits>> /\ restored' = backup /\ files["restored"] = copyFiles
      BY <1>5 DEF RestoreDone, AllCopied, RestoreFollows
    <2>2. backup = "done" => Sound(files["restored"], rows["restored"], commits["restored"])
      BY <1>5, <2>1 DEF RestoreDone, RestoreFollows, BackupConsistent
    <2>3. QED  BY <2>1, <2>2
  <1>6. QED  BY <1>1, <1>2, <1>3, <1>4, <1>5, StepKinds

LEMMA BackupStep == StoreInv /\ [Next]_vars => BackupConsistent'
  <1> SUFFICES ASSUME StoreInv, [Next]_vars PROVE BackupConsistent'
    OBVIOUS
  <1> USE DEF StoreInv, BackupConsistent
  <1>1. CASE BackupDone
    <2>1. /\ copyTables = [rows |-> rows["run"], commits |-> commits["run"], runs |-> runs["run"]]
          /\ copyFiles = files["run"] /\ UNCHANGED <<copyTables, copyFiles>>
      BY <1>1 DEF BackupDone, AllCopied, CopyFollows
    <2>2. Sound(copyFiles, copyTables.rows, copyTables.commits)
      BY <2>1 DEF DurableReadable
    <2>3. QED  BY <2>1, <2>2
  <1>2. CASE BackupDatabase \/ BackupArtifacts \/ CopyFile
    <2>1. backup' # "done"
      BY <1>2 DEF BackupDatabase, BackupArtifacts, CopyFile, CopyFollows
    <2>2. QED  BY <2>1
  <1>3. CASE Writes
    BY <1>3, WriteFacts DEF copyVars
  <1>4. ASSUME ~Writes, ~BackupDone, ~BackupDatabase, ~BackupArtifacts, ~CopyFile
        PROVE  UNCHANGED copyVars
    BY <1>4 DEF Next, Writes, Open, Mismatch, Close, Backup, Restore, RestoreFile, RestoreDone,
                Kill, vars
  <1>5. QED  BY <1>1, <1>2, <1>3, <1>4 DEF copyVars
-----------------------------------------------------------------------------
LEMMA InitInv == Init => StoreInv
  <1> SUFFICES ASSUME Init PROVE StoreInv
    OBVIOUS
  <1>1. TypeOK
    BY StoreAssumption
    DEF Init, TypeOK, Absent, Contents, Bytes, Backups, Writing
  <1>2. NothingTorn /\ CopyFollows /\ RestoreFollows /\ ConfigurationHeld
    BY DEF Init, NothingTorn, CopyFollows, RestoreFollows, ConfigurationHeld,
           RunOfOneConfiguration, Absent, Writing, Dirs
  <1>3. DurableReadable /\ BackupConsistent
    BY DEF Init, DurableReadable, BackupConsistent, Sound, Dirs
  <1>4. QED  BY <1>1, <1>2, <1>3 DEF StoreInv

LEMMA InvHolds == Spec => []StoreInv
  <1>1. StoreInv /\ [Next]_vars => StoreInv'
    BY TypeStep, TornStep, CopyStep, RestoreStep, ConfigurationStep, DurableStep, BackupStep
    DEF StoreInv
  <1>2. QED  BY InitInv, <1>1, PTL DEF Spec

\* The directory of a run, its backup and the command in it keep their types.
THEOREM TypeCorrect == Spec => []TypeOK
  <1>1. StoreInv => TypeOK
    BY DEF StoreInv
  <1>2. QED  BY InvHolds, <1>1, PTL

\* Wherever a command is killed, every registered artifact has its whole file and
\* every reference its artifact, in the run and in what a complete backup of it
\* was restored to.
THEOREM DurableHolds == Spec => []DurableReadable
  <1>1. StoreInv => DurableReadable
    BY DEF StoreInv
  <1>2. QED  BY InvHolds, <1>1, PTL

\* A backup that was reported, and not made again, holds all its database refers
\* to.
THEOREM BackupHolds == Spec => []BackupConsistent
  <1>1. StoreInv => BackupConsistent
    BY DEF StoreInv
  <1>2. QED  BY InvHolds, <1>1, PTL

\* A run never mixes the results of two configurations.
THEOREM ConfigurationHolds == Spec => []RunOfOneConfiguration
  <1>1. StoreInv => RunOfOneConfiguration
    BY DEF StoreInv, ConfigurationHeld
  <1>2. QED  BY InvHolds, <1>1, PTL
=================================================================================
