-------------------------- MODULE ControlMigration --------------------------
(***************************************************************************)
(* Installing the control database (chatbi_control/database.py,            *)
(* bootstrap/control.py), and the look at it before the API or             *)
(* create-admin uses it.  The migrator creates database and role, runs all *)
(* SQL files of database/control in one transaction, lets the library      *)
(* install its checkpoint tables and grants them to the runtime role;      *)
(* outside that one transaction every statement commits by itself.  A run  *)
(* fails or dies at any step and is started again, over what it or an      *)
(* earlier release left; two runs may overlap.  The look is made in three  *)
(* transactions.                                                           *)
(***************************************************************************)
EXTENDS Naturals, Sequences, FiniteSets, SequencesExt

CONSTANTS
  Migrator,   \* bound: processes that migrate at the same time
  Later,      \* checkpoint migrations that alter a table, after those that create one
  MaxFaults   \* bound: statements that fail and processes that die

MigrationAssumption == Later \in Nat /\ MaxFaults \in Nat

File == <<"schema", "rbac", "grants", "analysis_runs", "history", "execution", "stop">>
\* The last file of each earlier release, chatbi-control-v1 to v4; 0: nothing is installed.
Releases == {0, 3, 4, 5, 6}

\* The checkpoint tables in the order the library creates them, and as they are granted.
Created == <<"checkpoint_migrations", "checkpoints", "checkpoint_blobs", "checkpoint_writes">>
Granted == <<"checkpoints", "checkpoint_blobs", "checkpoint_writes", "checkpoint_migrations">>
Steps == Len(Created) + Later

VARIABLES
  database,   \* whether the database is there
  role,       \* whether the login role of the runtime is there
  files,      \* SQL files in force
  made,       \* checkpoint migrations whose statement has been executed
  noted,      \* rows of checkpoint_migrations
  granted,    \* checkpoint tables the role may use
  migrator,   \* the runs
  look,       \* where verify_control_schema is
  faults
vars == <<database, role, files, made, noted, granted, migrator, look, faults>>
objects == <<database, role, files, made, noted, granted>>

Active(m) == migrator[m].pc \notin {"idle", "failed", "done"}
Tables == {Created[i] : i \in DOMAIN Created \cap 1 .. made}

(* A release is there whole or as its migrator left it when it died between its files and
   its grants. *)
Init ==
  /\ \E r \in Releases :
       /\ database = (r # 0) /\ role = (r # 0) /\ files = {File[i] : i \in 1 .. r}
       /\ made \in IF r <= 3 THEN {0} ELSE 0 .. Steps
       /\ noted \in {n \in 0 .. made : n + 1 >= made}
       /\ granted \in IF noted = Steps THEN {{}, Range(Granted)} ELSE {{}}
  /\ migrator = [m \in Migrator |-> [pc |-> "idle", found |-> FALSE, at |-> 0, alone |-> FALSE, hurt |-> FALSE]]
  /\ look = "none" /\ faults = 0

Go(m, pc) == migrator' = [migrator EXCEPT ![m].pc = pc]
Refused(m) == Go(m, "failed") /\ UNCHANGED objects

-----------------------------------------------------------------------------
(***************************************************************************)
(* The migrator.                                                           *)
(***************************************************************************)
(* migrate begins, again after an earlier run: is the database there? *)
LookForDatabase(m) ==
  /\ ~Active(m)
  /\ migrator' = [n \in Migrator |->
       IF n = m THEN [pc |-> "database", found |-> database, at |-> 0, hurt |-> FALSE,
                      alone |-> \A k \in Migrator \ {m} : ~Active(k)]
       ELSE [migrator[n] EXCEPT !.alone = FALSE]]
  /\ UNCHANGED <<objects, look, faults>>

(* A database that has come up since the look is an error. *)
CreateDatabase(m) ==
  /\ migrator[m].pc = "database"
  /\ IF ~migrator[m].found /\ database THEN Refused(m)
     ELSE database' = TRUE /\ Go(m, "role") /\ UNCHANGED <<role, files, made, noted, granted>>
  /\ UNCHANGED <<look, faults>>

LookForRole(m) ==
  /\ migrator[m].pc = "role"
  /\ migrator' = [migrator EXCEPT ![m].pc = "login", ![m].found = role]
  /\ UNCHANGED <<objects, look, faults>>

RoleCommand(found) == found \/ ~role

(* _ensure_login_role: ALTER or CREATE; and the connection is granted. *)
EnsureLoginRole(m) ==
  /\ migrator[m].pc = "login"
  /\ IF RoleCommand(migrator[m].found)
     THEN role' = TRUE /\ Go(m, "files") /\ UNCHANGED <<database, files, made, noted, granted>>
     ELSE Refused(m)
  /\ UNCHANGED <<look, faults>>

(* All files in one transaction.  Their statements may be repeated, but two transactions
   that create the same table get into each other's way.  A commit may be reported as failed. *)
RunFiles(m) ==
  /\ migrator[m].pc = "files"
  /\ \/ /\ files' = Range(File) /\ UNCHANGED <<database, role, made, noted, granted>>
        /\ \/ Go(m, "setup") /\ UNCHANGED faults
           \/ /\ faults < MaxFaults /\ faults' = faults + 1
              /\ migrator' = [migrator EXCEPT ![m].pc = "failed", ![m].hurt = TRUE]
     \/ ~migrator[m].alone /\ Refused(m) /\ UNCHANGED faults
  /\ UNCHANGED look

(* PostgresSaver.setup: its own table, then the migrations above the highest one noted,
   each executed and then noted; a number can be noted once. *)
Setup(m) ==
  /\ migrator[m].pc = "setup"
  /\ made' = IF made = 0 THEN 1 ELSE made
  /\ migrator' = [migrator EXCEPT ![m].pc = "make", ![m].at = noted]
  /\ UNCHANGED <<database, role, files, noted, granted, look, faults>>

MakeStep(m) ==
  /\ migrator[m].pc = "make" /\ migrator[m].at < Steps
  /\ made' = IF made > migrator[m].at THEN made ELSE migrator[m].at + 1
  /\ Go(m, "note")
  /\ UNCHANGED <<database, role, files, noted, granted, look, faults>>

NoteStep(m) ==
  /\ migrator[m].pc = "note"
  /\ IF noted > migrator[m].at THEN Refused(m)
     ELSE /\ noted' = noted + 1
          /\ migrator' = [migrator EXCEPT ![m].pc = "make", ![m].at = @ + 1]
          /\ UNCHANGED <<database, role, files, made, granted>>
  /\ UNCHANGED <<look, faults>>

(* _install_analysis_checkpoints: the grants, one by one; two of them on one table collide. *)
Grant(m) ==
  /\ migrator[m].pc = "make" /\ migrator[m].at >= Steps
  /\ \/ /\ granted' = granted \cup {Granted[migrator[m].at - Steps + 1]}
        /\ migrator' = [migrator EXCEPT ![m].at = @ + 1,
                          ![m].pc = IF migrator[m].at + 1 = Steps + Len(Granted) THEN "done" ELSE "make"]
        /\ UNCHANGED <<database, role, files, made, noted>>
     \/ ~migrator[m].alone /\ Refused(m)
  /\ UNCHANGED <<look, faults>>

(* A statement fails, or the process dies. *)
Fails(m) ==
  /\ Active(m) /\ faults < MaxFaults /\ faults' = faults + 1
  /\ migrator' = [migrator EXCEPT ![m].pc = "failed", ![m].hurt = TRUE]
  /\ UNCHANGED <<objects, look>>

-----------------------------------------------------------------------------
(***************************************************************************)
(* verify_control_schema, as the runtime role.                             *)
(***************************************************************************)
ReadVersions ==
  /\ look \in {"none", "refused"}
  /\ look' = IF database /\ role /\ "stop" \in files THEN "versions" ELSE "refused"
  /\ UNCHANGED <<objects, migrator, faults>>

CheckpointReady == Range(Created) \subseteq Tables /\ noted > 0 /\ granted = Range(Granted)

ReadCheckpoints ==
  /\ look = "versions"
  /\ look' = IF CheckpointReady THEN "checkpoints" ELSE "refused"
  /\ UNCHANGED <<objects, migrator, faults>>

(* _verify_history_schema: tables, columns, keys, checks, indexes and rights of three files. *)
VerifyHistorySchema ==
  /\ look = "checkpoints"
  /\ look' = IF {"history", "execution", "stop"} \subseteq files THEN "passed" ELSE "refused"
  /\ UNCHANGED <<objects, migrator, faults>>

Next ==
  \/ \E m \in Migrator :
       \/ LookForDatabase(m) \/ CreateDatabase(m) \/ LookForRole(m) \/ EnsureLoginRole(m)
       \/ RunFiles(m) \/ Setup(m) \/ MakeStep(m) \/ NoteStep(m) \/ Grant(m) \/ Fails(m)
  \/ ReadVersions \/ ReadCheckpoints \/ VerifyHistorySchema

Spec == Init /\ [][Next]_vars

-----------------------------------------------------------------------------
TypeOK ==
  /\ database \in BOOLEAN /\ role \in BOOLEAN /\ files \subseteq Range(File)
  /\ made \in 0 .. Steps /\ noted \in 0 .. made /\ granted \subseteq Range(Granted)
  /\ migrator \in [Migrator ->
       [pc : {"idle", "database", "role", "login", "files", "setup", "make", "note", "failed", "done"},
        found : BOOLEAN, at : 0 .. Steps + Len(Granted), alone : BOOLEAN, hurt : BOOLEAN]]
  /\ look \in {"none", "versions", "checkpoints", "passed", "refused"} /\ faults \in 0 .. MaxFaults

Whole == files = Range(File) /\ made = Steps /\ noted = Steps /\ granted = Range(Granted)

(* Nothing starts on a part of the schema: who passes the look finds every file in force and
   every checkpoint migration done, whichever runs died before or are under way.
   (verify_control_schema) *)
StartsOnWhole == look = "passed" => Whole

(* A run that nothing disturbs installs everything, over whatever a run that died or an
   earlier release left.  (initialize_control_database) *)
RerunInstalls ==
  \A m \in Migrator :
    /\ migrator[m].pc = "failed" => migrator[m].hurt \/ ~migrator[m].alone
    /\ migrator[m].pc = "done" => Whole

MigrationHolds == TypeOK /\ StartsOnWhole /\ RerunInstalls
=============================================================================
