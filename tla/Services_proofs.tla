---------------------------- MODULE Services_proofs ----------------------------
(***************************************************************************)
(* Theorems about the components that stand behind a question and share no *)
(* state: the installation of the control database, the life of the        *)
(* process, the publication of the retrieval assets, the export files and  *)
(* the runs of an analysis.                                                *)
(***************************************************************************)
EXTENDS Integers, Sequences, FiniteSets, SequenceTheorems, FiniteSetTheorems, NaturalsInduction,
        WellFoundedInduction, TLAPS

CONSTANTS
  MaxFaults,
  Migrator, Later,      \* of ControlMigration
  Thread,               \* of Lifespan
  None, Builder, BuildId, Kinds, Facts, Reader, Production, \* of RagPublish
  Owner, Request, Sender, MaxTotal, MaxLives, Faults        \* of ExportRuntime

VARIABLES
  faults,
  database, role, files, made, noted, granted, migrator, look,  \* of ControlMigration
  phase, step, got, open, stack, failed, accepting, bound, thread, mishaps,  \* of Lifespan
  source, collection, staging, final, current, build, cache, reader, \* of RagPublish
  stage, lives, rt, disk, workers, job  \* of ExportRuntime, stage for its phase

N == INSTANCE ControlMigration
W == INSTANCE Lifespan WITH faults <- mishaps
R == INSTANCE RagPublish
X == INSTANCE ExportRuntime WITH phase <- stage

-----------------------------------------------------------------------------
(***************************************************************************)
(* ControlMigration.  What is installed only grows, so what a migrator or  *)
(* the look has found stays true.                                          *)
(***************************************************************************)
AllFiles == {"schema", "rbac", "grants", "analysis_runs", "history", "execution", "stop"}
AllTables == {"checkpoint_migrations", "checkpoints", "checkpoint_blobs", "checkpoint_writes"}

\* The names of the files of the installation, one by one.
LEMMA FileNames == N!Range(N!File) = AllFiles
  BY DEF N!Range, N!File, AllFiles

\* The tables that are created are the tables that are granted.
LEMMA TableNames == N!Range(N!Granted) = AllTables /\ N!Range(N!Created) = AllTables /\ Len(N!Granted) = 4 /\ Len(N!Created) = 4
  BY DEF N!Range, N!Granted, N!Created, AllTables

(* Files come in releases, checkpoint tables are granted after the last migration of theirs. *)
Installed ==
  /\ "stop" \in files => files = AllFiles
  /\ granted # {} => noted = N!Steps

(* How far a run has come is in force. *)
Progress(m) ==
  LET s == migrator[m] IN
  /\ s.pc \in {"setup", "make", "note", "done"} => files = AllFiles
  /\ s.pc = "make" => (s.at <= N!Steps => s.at <= noted) /\ (s.at >= N!Steps => noted = N!Steps)
  /\ s.pc = "note" => s.at < N!Steps /\ s.at <= noted /\ s.at < made
  /\ s.pc = "make" => \A i \in 1 .. 4 : s.at >= N!Steps + i => N!Granted[i] \in granted
  /\ s.pc = "make" => s.at < N!Steps + 4
  /\ s.pc = "done" => N!Whole

(* A run that is alone has read what is there. *)
Undisturbed(m) ==
  LET s == migrator[m] IN
  /\ s.pc = "failed" => s.hurt \/ ~s.alone
  /\ s.alone /\ N!Active(m) =>
    /\ \A k \in Migrator \ {m} : ~N!Active(k)
    /\ s.pc = "database" => s.found = database
    /\ s.pc = "login" => s.found = role
    /\ s.pc \in {"make", "note"} /\ s.at <= N!Steps => noted = s.at

Looked ==
  /\ look \in {"versions", "checkpoints"} => files = AllFiles
  /\ look = "checkpoints" => granted = AllTables
  /\ look = "passed" => N!Whole

MigInv ==
  /\ N!MigrationAssumption
  /\ N!TypeOK /\ Installed /\ Looked
  /\ \A m \in Migrator : Progress(m) /\ Undisturbed(m)

\* Nothing is installed yet.
LEMMA MigInit == N!MigrationAssumption /\ N!Init => MigInv
<1> SUFFICES ASSUME N!MigrationAssumption, N!Init PROVE MigInv
  OBVIOUS
<1> USE DEF N!Init
<1>1. PICK r \in {0, 3, 4, 5, 6} :
        /\ database = (r # 0) /\ role = (r # 0) /\ files = {N!File[i] : i \in 1 .. r}
        /\ made \in IF r <= 3 THEN {0} ELSE 0 .. N!Steps
        /\ noted \in {n \in 0 .. made : n + 1 >= made}
        /\ granted \in IF noted = N!Steps THEN {{}, N!Range(N!Granted)} ELSE {{}}
  BY DEF N!Releases
<1>2. N!Steps \in Nat /\ N!Steps = 4 + Later
  BY TableNames DEF N!Steps, N!MigrationAssumption
<1>3. files \subseteq AllFiles /\ "stop" \notin files
  <2>1. \A i \in 1 .. 6 : N!File[i] \in AllFiles /\ N!File[i] # "stop"
    BY DEF N!File, AllFiles
  <2>2. ASSUME NEW f \in files PROVE \E i \in 1 .. 6 : f = N!File[i]
    <3>1. PICK i \in 1 .. r : f = N!File[i]
      BY <1>1
    <3>2. i \in 1 .. 6
      BY <3>1
    <3> QED BY <3>1, <3>2
  <2> QED BY <2>1, <2>2
<1>4. made \in 0 .. N!Steps /\ noted \in 0 .. made /\ granted \subseteq AllTables
  BY <1>1, <1>2, TableNames
<1>5. N!TypeOK
  BY <1>1, <1>2, <1>3, <1>4, FileNames, TableNames DEF N!TypeOK, N!MigrationAssumption
<1>6. Installed /\ Looked
  BY <1>1, <1>3 DEF Installed, Looked
<1>7. \A m \in Migrator : Progress(m) /\ Undisturbed(m)
  BY DEF Progress, Undisturbed, N!Active
<1> QED BY <1>5, <1>6, <1>7 DEF MigInv

\* The invariant says what the theorem promises.
LEMMA MigSays == MigInv => N!MigrationHolds
  BY DEF MigInv, Looked, Progress, Undisturbed, N!MigrationHolds, N!StartsOnWhole, N!RerunInstalls

(* Every step of a run, and of the look, keeps the invariant. *)
LEMMA MigNext == MigInv /\ [N!Next]_(N!vars) => MigInv'
<1> SUFFICES ASSUME MigInv, [N!Next]_(N!vars) PROVE MigInv'
  OBVIOUS
<1>s. N!Steps \in Nat /\ N!Steps = 4 + Later /\ Later \in Nat /\ MaxFaults \in Nat
  BY TableNames DEF N!Steps, N!MigrationAssumption, MigInv
<1>t. N!TypeOK /\ Installed /\ Looked /\ \A m \in Migrator : Progress(m) /\ Undisturbed(m)
  BY DEF MigInv
<1>w. N!Whole <=> files = AllFiles /\ made = N!Steps /\ noted = N!Steps /\ granted = AllTables
  BY FileNames, TableNames DEF N!Whole
<1>v. N!Whole' <=> files' = AllFiles /\ made' = N!Steps /\ noted' = N!Steps /\ granted' = AllTables
  BY FileNames, TableNames DEF N!Whole
<1> DEFINE RunT == [pc : {"idle", "database", "role", "login", "files", "setup", "make", "note", "failed", "done"},
                    found : BOOLEAN, at : 0 .. N!Steps + 4, alone : BOOLEAN, hurt : BOOLEAN]
<1>ty. N!TypeOK <=>
        /\ migrator \in [Migrator -> RunT]
        /\ database \in BOOLEAN /\ role \in BOOLEAN /\ files \subseteq AllFiles
        /\ made \in 0 .. N!Steps /\ noted \in 0 .. made /\ granted \subseteq AllTables
        /\ look \in {"none", "versions", "checkpoints", "passed", "refused"} /\ faults \in 0 .. MaxFaults
  BY FileNames, TableNames DEF N!TypeOK
<1>tz. N!TypeOK' <=>
        /\ migrator' \in [Migrator -> RunT]
        /\ database' \in BOOLEAN /\ role' \in BOOLEAN /\ files' \subseteq AllFiles
        /\ made' \in 0 .. N!Steps /\ noted' \in 0 .. made' /\ granted' \subseteq AllTables
        /\ look' \in {"none", "versions", "checkpoints", "passed", "refused"} /\ faults' \in 0 .. MaxFaults
  BY FileNames, TableNames DEF N!TypeOK
<1> DEFINE Inv == N!TypeOK /\ Installed /\ Looked /\ \A m \in Migrator : Progress(m) /\ Undisturbed(m)
<1>a. N!MigrationAssumption'
  BY DEF MigInv, N!MigrationAssumption
<1>1. ASSUME NEW m \in Migrator, N!LookForDatabase(m) PROVE Inv'
  <2> USE <1>1 DEF N!LookForDatabase, N!Go, N!Refused, N!objects
  <2>0. migrator' \in [Migrator -> RunT]
    <3>1. ASSUME NEW n \in Migrator PROVE [migrator[n] EXCEPT !.alone = FALSE] \in RunT
      <4>1. migrator[n] \in RunT BY <1>t, <1>ty
      <4> QED BY <4>1
    <3>2. ASSUME NEW b \in BOOLEAN
          PROVE [pc |-> "database", found |-> database, at |-> 0, hurt |-> FALSE, alone |-> b] \in RunT
      BY <1>s, <1>t, <1>ty
    <3>3. (\A k \in Migrator \ {m} : ~N!Active(k)) \in BOOLEAN
      OBVIOUS
    <3> HIDE DEF RunT
    <3> QED BY <3>1, <3>2, <3>3
  <2>1. N!TypeOK'
    BY <1>s, <1>t, <1>ty, <1>tz, <2>0, FileNames, TableNames
  <2>2. Installed' /\ Looked'
    BY <1>s, <1>t, <1>w, <1>v, FileNames, TableNames DEF N!TypeOK, Installed, Looked, Progress
  <2>3. ASSUME NEW k \in Migrator PROVE Progress(k)'
    BY <1>s, <1>t, <1>w, <1>v, FileNames, TableNames DEF N!TypeOK, Installed, Progress
  <2>4. ASSUME NEW k \in Migrator PROVE Undisturbed(k)'
    BY <1>s, <1>t, FileNames, TableNames DEF N!TypeOK, Progress, Undisturbed, N!Active, N!RoleCommand
  <2> QED BY <2>1, <2>2, <2>3, <2>4
<1>2. ASSUME NEW m \in Migrator, N!CreateDatabase(m) PROVE Inv'
  <2> USE <1>2 DEF N!CreateDatabase, N!Go, N!Refused, N!objects
  <2>0. migrator' \in [Migrator -> RunT]
    BY <1>s, <1>t, <1>ty
  <2>1. N!TypeOK'
    BY <1>s, <1>t, <1>ty, <1>tz, <2>0, FileNames, TableNames
  <2>2. Installed' /\ Looked'
    BY <1>s, <1>t, <1>w, <1>v, FileNames, TableNames DEF N!TypeOK, Installed, Looked, Progress
  <2>3. ASSUME NEW k \in Migrator PROVE Progress(k)'
    BY <1>s, <1>t, <1>w, <1>v, FileNames, TableNames DEF N!TypeOK, Installed, Progress
  <2>4. ASSUME NEW k \in Migrator PROVE Undisturbed(k)'
    BY <1>s, <1>t, FileNames, TableNames DEF N!TypeOK, Progress, Undisturbed, N!Active, N!RoleCommand
  <2> QED BY <2>1, <2>2, <2>3, <2>4
<1>3. ASSUME NEW m \in Migrator, N!LookForRole(m) PROVE Inv'
  <2> USE <1>3 DEF N!LookForRole, N!Go, N!Refused, N!objects
  <2>0. migrator' \in [Migrator -> RunT]
    <3>1. migrator[m] \in RunT /\ role \in BOOLEAN BY <1>t, <1>ty
    <3>2. [migrator[m] EXCEPT !.pc = "login", !.found = role] \in RunT BY <3>1
    <3>3. migrator' = [migrator EXCEPT ![m] = [migrator[m] EXCEPT !.pc = "login", !.found = role]] BY <1>t, <1>ty
    <3> HIDE DEF RunT
    <3> QED BY <3>2, <3>3, <1>t, <1>ty
  <2>1. N!TypeOK'
    BY <1>s, <1>t, <1>ty, <1>tz, <2>0, FileNames, TableNames
  <2>2. Installed' /\ Looked'
    BY <1>s, <1>t, <1>w, <1>v, FileNames, TableNames DEF N!TypeOK, Installed, Looked, Progress
  <2>3. ASSUME NEW k \in Migrator PROVE Progress(k)'
    BY <1>s, <1>t, <1>w, <1>v, FileNames, TableNames DEF N!TypeOK, Installed, Progress
  <2>4. ASSUME NEW k \in Migrator PROVE Undisturbed(k)'
    BY <1>s, <1>t, FileNames, TableNames DEF N!TypeOK, Progress, Undisturbed, N!Active, N!RoleCommand
  <2> QED BY <2>1, <2>2, <2>3, <2>4
<1>4. ASSUME NEW m \in Migrator, N!EnsureLoginRole(m) PROVE Inv'
  <2> USE <1>4 DEF N!EnsureLoginRole, N!Go, N!Refused, N!objects
  <2>0. migrator' \in [Migrator -> RunT]
    BY <1>s, <1>t, <1>ty
  <2>1. N!TypeOK'
    BY <1>s, <1>t, <1>ty, <1>tz, <2>0, FileNames, TableNames
  <2>2. Installed' /\ Looked'
    BY <1>s, <1>t, <1>w, <1>v, FileNames, TableNames DEF N!TypeOK, Installed, Looked, Progress
  <2>3. ASSUME NEW k \in Migrator PROVE Progress(k)'
    BY <1>s, <1>t, <1>w, <1>v, FileNames, TableNames DEF N!TypeOK, Installed, Progress
  <2>4. ASSUME NEW k \in Migrator PROVE Undisturbed(k)'
    BY <1>s, <1>t, FileNames, TableNames DEF N!TypeOK, Progress, Undisturbed, N!Active, N!RoleCommand
  <2> QED BY <2>1, <2>2, <2>3, <2>4
<1>5. ASSUME NEW m \in Migrator, N!RunFiles(m) PROVE Inv'
  <2> USE <1>5 DEF N!RunFiles, N!Go, N!Refused, N!objects
  <2>0. migrator' \in [Migrator -> RunT]
    BY <1>s, <1>t, <1>ty
  <2>1. N!TypeOK'
    BY <1>s, <1>t, <1>ty, <1>tz, <2>0, FileNames, TableNames
  <2>2. Installed' /\ Looked'
    BY <1>s, <1>t, <1>w, <1>v, FileNames, TableNames DEF N!TypeOK, Installed, Looked, Progress
  <2>3. ASSUME NEW k \in Migrator PROVE Progress(k)'
    BY <1>s, <1>t, <1>w, <1>v, FileNames, TableNames DEF N!TypeOK, Installed, Progress
  <2>4. ASSUME NEW k \in Migrator PROVE Undisturbed(k)'
    BY <1>s, <1>t, FileNames, TableNames DEF N!TypeOK, Progress, Undisturbed, N!Active, N!RoleCommand
  <2> QED BY <2>1, <2>2, <2>3, <2>4
<1>6. ASSUME NEW m \in Migrator, N!Setup(m) PROVE Inv'
  <2> USE <1>6 DEF N!Setup, N!Go, N!Refused, N!objects
  <2>0. migrator' \in [Migrator -> RunT]
    <3>1. migrator[m] \in RunT /\ noted \in 0 .. N!Steps + 4 BY <1>s, <1>t, <1>ty
    <3>2. [migrator[m] EXCEPT !.pc = "make", !.at = noted] \in RunT BY <3>1
    <3>3. migrator' = [migrator EXCEPT ![m] = [migrator[m] EXCEPT !.pc = "make", !.at = noted]] BY <1>t, <1>ty
    <3> HIDE DEF RunT
    <3> QED BY <3>2, <3>3, <1>t, <1>ty
  <2>1. N!TypeOK'
    BY <1>s, <1>t, <1>ty, <1>tz, <2>0, FileNames, TableNames
  <2>2. Installed' /\ Looked'
    BY <1>s, <1>t, <1>w, <1>v, FileNames, TableNames DEF N!TypeOK, Installed, Looked, Progress
  <2>3. ASSUME NEW k \in Migrator PROVE Progress(k)'
    BY <1>s, <1>t, <1>w, <1>v, FileNames, TableNames DEF N!TypeOK, Installed, Progress
  <2>4. ASSUME NEW k \in Migrator PROVE Undisturbed(k)'
    BY <1>s, <1>t, FileNames, TableNames DEF N!TypeOK, Progress, Undisturbed, N!Active, N!RoleCommand
  <2> QED BY <2>1, <2>2, <2>3, <2>4
<1>7. ASSUME NEW m \in Migrator, N!MakeStep(m) PROVE Inv'
  <2> USE <1>7 DEF N!MakeStep, N!Go, N!Refused, N!objects
  <2>0. migrator' \in [Migrator -> RunT]
    BY <1>s, <1>t, <1>ty
  <2>1. N!TypeOK'
    BY <1>s, <1>t, <1>ty, <1>tz, <2>0, FileNames, TableNames
  <2>2. Installed' /\ Looked'
    BY <1>s, <1>t, <1>w, <1>v, FileNames, TableNames DEF N!TypeOK, Installed, Looked, Progress
  <2>3. ASSUME NEW k \in Migrator PROVE Progress(k)'
    BY <1>s, <1>t, <1>w, <1>v, FileNames, TableNames DEF N!TypeOK, Installed, Progress
  <2>4. ASSUME NEW k \in Migrator PROVE Undisturbed(k)'
    BY <1>s, <1>t, FileNames, TableNames DEF N!TypeOK, Progress, Undisturbed, N!Active, N!RoleCommand
  <2> QED BY <2>1, <2>2, <2>3, <2>4
<1>8. ASSUME NEW m \in Migrator, N!NoteStep(m) PROVE Inv'
  <2> USE <1>8 DEF N!NoteStep, N!Go, N!Refused, N!objects
  <2>0. migrator' \in [Migrator -> RunT]
    BY <1>s, <1>t, <1>ty
  <2>1. N!TypeOK'
    BY <1>s, <1>t, <1>ty, <1>tz, <2>0, FileNames, TableNames
  <2>2. Installed' /\ Looked'
    BY <1>s, <1>t, <1>w, <1>v, FileNames, TableNames DEF N!TypeOK, Installed, Looked, Progress
  <2>3. ASSUME NEW k \in Migrator PROVE Progress(k)'
    BY <1>s, <1>t, <1>w, <1>v, FileNames, TableNames DEF N!TypeOK, Installed, Progress
  <2>4. ASSUME NEW k \in Migrator PROVE Undisturbed(k)'
    BY <1>s, <1>t, FileNames, TableNames DEF N!TypeOK, Progress, Undisturbed, N!Active, N!RoleCommand
  <2> QED BY <2>1, <2>2, <2>3, <2>4
<1>9. ASSUME NEW m \in Migrator, N!Grant(m) PROVE Inv'
  <2> DEFINE s == migrator[m]
             i == s.at - N!Steps + 1
             t == [s EXCEPT !.at = s.at + 1, !.pc = IF s.at + 1 = N!Steps + 4 THEN "done" ELSE "make"]
  <2>1. /\ s \in RunT /\ s.pc = "make" /\ s.at >= N!Steps /\ s.at < N!Steps + 4 /\ i \in 1 .. 4
        /\ noted = N!Steps /\ made = N!Steps /\ files = AllFiles
        /\ \A k \in 1 .. 4 : s.at >= N!Steps + k => N!Granted[k] \in granted
    BY <1>9, <1>s, <1>t, <1>ty DEF N!Grant, Progress
  <2>2. CASE N!Go(m, "failed") /\ ~s.alone /\ UNCHANGED <<N!objects, look, faults>>
    <3> USE <2>2 DEF N!Go, N!objects
    <3>1. [s EXCEPT !.pc = "failed"] \in RunT /\ migrator' = [migrator EXCEPT ![m] = [s EXCEPT !.pc = "failed"]]
      BY <2>1
    <3>2. N!TypeOK'
      <4> HIDE DEF RunT
      <4> QED BY <3>1, <1>t, <1>ty, <1>tz
    <3>3. Installed' /\ Looked'
      BY <1>t, <1>w, <1>v DEF Installed, Looked
    <3>4. ASSUME NEW k \in Migrator PROVE Progress(k)'
      BY <1>t, <1>ty, <1>w, <1>v DEF Progress
    <3>5. ASSUME NEW k \in Migrator PROVE Undisturbed(k)'
      BY <1>t, <1>ty DEF Undisturbed, N!Active
    <3> QED BY <3>2, <3>3, <3>4, <3>5
  <2>3. CASE /\ granted' = granted \cup {N!Granted[i]} /\ migrator' = [migrator EXCEPT ![m] = t]
             /\ UNCHANGED <<database, role, files, made, noted, look, faults>>
    <3>1. t \in RunT
      <4>1. s.at + 1 \in 0 .. N!Steps + 4
        BY <2>1, <1>s
      <4>2. (IF s.at + 1 = N!Steps + 4 THEN "done" ELSE "make") \in {"make", "done"}
        OBVIOUS
      <4> QED BY <4>1, <4>2, <2>1
    <3>2. N!Granted[i] \in AllTables
      BY <2>1 DEF N!Granted, AllTables
    <3>3. N!TypeOK'
      <4> HIDE DEF RunT, t, i
      <4> QED BY <2>3, <3>1, <3>2, <1>t, <1>ty, <1>tz
    <3>4. \A k \in Migrator : migrator'[k] = IF k = m THEN t ELSE migrator[k]
      <4> HIDE DEF t
      <4> QED BY <2>3, <1>t, <1>ty
    <3>5. \A k \in 1 .. 4 : t.at >= N!Steps + k => N!Granted[k] \in granted'
      <4> SUFFICES ASSUME NEW k \in 1 .. 4, t.at >= N!Steps + k PROVE N!Granted[k] \in granted'
        OBVIOUS
      <4>1. t.at = s.at + 1 /\ s.at \in Nat
        BY <2>1
      <4>2. CASE k = i
        BY <4>2, <2>3
      <4>3. CASE k # i
        <5>1. s.at >= N!Steps + k
          BY <4>1, <4>3, <1>s
        <5> QED BY <5>1, <2>1, <2>3
      <4> QED BY <4>2, <4>3
    <3>6. t.pc = "done" => N!Whole'
      <4> SUFFICES ASSUME t.pc = "done" PROVE N!Whole'
        OBVIOUS
      <4>1. t.at = N!Steps + 4
        BY <2>1
      <4>2. \A k \in 1 .. 4 : N!Granted[k] \in granted'
        BY <4>1, <3>5, <1>s
      <4>3. AllTables \subseteq granted'
        BY <4>2 DEF AllTables, N!Granted
      <4> QED BY <4>3, <3>3, <1>v, <1>tz, <2>1, <2>3
    <3>7. Installed' /\ Looked'
      BY <1>t, <1>ty, <1>w, <1>v, <2>1, <2>3, <3>2 DEF Installed, Looked
    <3>8. ASSUME NEW k \in Migrator PROVE Progress(k)'
      <4>1. CASE k = m
        BY <4>1, <3>4, <3>5, <3>6, <2>1, <2>3, <1>s DEF Progress
      <4>2. CASE k # m
        BY <4>2, <3>4, <2>1, <2>3, <1>s, <1>t, <1>ty, <1>w, <1>v, <3>2 DEF Progress
      <4> QED BY <4>1, <4>2
    <3>9. ASSUME NEW k \in Migrator PROVE Undisturbed(k)'
      <4>1. t.pc \in {"make", "done"} /\ t.alone = s.alone /\ ~(t.at <= N!Steps)
        BY <2>1, <1>s
      <4>2. CASE k = m
        <5> HIDE DEF t
        <5> QED BY <4>1, <4>2, <3>4, <2>1, <2>3, <1>s, <1>t DEF Undisturbed, N!Active
      <4>3. CASE k # m
        <5>1. ~(migrator[k].alone /\ N!Active(k))
          BY <4>3, <2>1, <1>t DEF Undisturbed, N!Active
        <5> QED BY <5>1, <4>3, <3>4, <1>t DEF Undisturbed, N!Active
      <4> QED BY <4>2, <4>3
    <3> QED BY <3>3, <3>7, <3>8, <3>9
  <2> QED BY <1>9, <2>2, <2>3, <1>t, <1>ty, TableNames DEF N!Grant, N!Refused
<1>10. ASSUME NEW m \in Migrator, N!Fails(m) PROVE Inv'
  <2> USE <1>10 DEF N!Fails, N!Go, N!Refused, N!objects
  <2>0. migrator' \in [Migrator -> RunT]
    <3> DEFINE r == [migrator[m] EXCEPT !.pc = "failed", !.hurt = TRUE]
    <3>1. migrator \in [Migrator -> RunT]
      BY <1>t, <1>ty
    <3>2. r \in RunT
      BY <3>1
    <3>3. migrator' = [migrator EXCEPT ![m] = r]
      BY DEF N!Fails
    <3> HIDE DEF r, RunT
    <3> QED BY <3>1, <3>2, <3>3
  <2>1. N!TypeOK'
    BY <1>s, <1>t, <1>ty, <1>tz, <2>0, FileNames, TableNames
  <2>2. Installed' /\ Looked'
    BY <1>s, <1>t, <1>w, <1>v, FileNames, TableNames DEF N!TypeOK, Installed, Looked, Progress
  <2>3. ASSUME NEW k \in Migrator PROVE Progress(k)'
    BY <1>s, <1>t, <1>w, <1>v, FileNames, TableNames DEF N!TypeOK, Installed, Progress
  <2>4. ASSUME NEW k \in Migrator PROVE Undisturbed(k)'
    BY <1>s, <1>t, FileNames, TableNames DEF N!TypeOK, Progress, Undisturbed, N!Active, N!RoleCommand
  <2> QED BY <2>1, <2>2, <2>3, <2>4
<1>11. CASE N!ReadVersions \/ N!ReadCheckpoints \/ N!VerifyHistorySchema
  <2>1. UNCHANGED <<N!objects, migrator, faults>>
    BY <1>11 DEF N!ReadVersions, N!ReadCheckpoints, N!VerifyHistorySchema
  <2>2. N!TypeOK' /\ Installed'
    BY <2>1, <1>11, <1>t, <1>ty, <1>tz DEF N!ReadVersions, N!ReadCheckpoints, N!VerifyHistorySchema, N!objects, Installed
  <2>3. Looked'
    BY <2>1, <1>11, <1>t, <1>ty, <1>w, <1>v, TableNames
    DEF N!ReadVersions, N!ReadCheckpoints, N!VerifyHistorySchema, N!CheckpointReady, N!objects, Installed, Looked, AllTables
  <2>4. ASSUME NEW k \in Migrator PROVE Progress(k)'
    BY <2>1, <1>t, <1>w, <1>v DEF N!objects, Progress
  <2>5. ASSUME NEW k \in Migrator PROVE Undisturbed(k)'
    BY <2>1, <1>t DEF N!objects, Undisturbed, N!Active
  <2> QED BY <1>a, <2>2, <2>3, <2>4, <2>5 DEF MigInv
<1>12. CASE UNCHANGED N!vars
  <2>1. N!TypeOK' /\ Installed' /\ Looked'
    BY <1>t, <1>12, <1>ty, <1>tz, <1>w, <1>v DEF N!vars, Installed, Looked
  <2>2. ASSUME NEW k \in Migrator PROVE Progress(k)'
    BY <1>t, <1>12, <1>w, <1>v DEF N!vars, Progress
  <2>3. ASSUME NEW k \in Migrator PROVE Undisturbed(k)'
    BY <1>t, <1>12 DEF N!vars, Undisturbed, N!Active
  <2> QED BY <1>a, <2>1, <2>2, <2>3 DEF MigInv
<1> QED BY <1>a, <1>1, <1>2, <1>3, <1>4, <1>5, <1>6, <1>7, <1>8, <1>9, <1>10, <1>11, <1>12 DEF N!Next, MigInv

(* Whatever number of installations run after each other or at once, and whatever fails: the
   process starts on a whole installation only, a run that reports success has left one, and a
   run that was alone and met no fault installs. (control_database_migration, runtime) *)
THEOREM MigrationIsWhole == N!MigrationAssumption /\ N!Spec => []N!MigrationHolds
<1>1. MigInv /\ [N!Next]_(N!vars) => MigInv'
  BY MigNext
<1>2. N!MigrationAssumption /\ N!Spec => []MigInv
  BY MigInit, <1>1, PTL DEF N!Spec
<1> QED BY <1>2, MigSays, PTL

-----------------------------------------------------------------------------
(***************************************************************************)
(* Lifespan.                                                               *)
(***************************************************************************)
LEMMA StartupIs ==
  /\ Len(W!Startup) = 13
  /\ W!Startup[1] = "tracing" /\ W!Startup[2] = "control_database" /\ W!Startup[3] = "llm_http"
  /\ W!Startup[4] = "llm_async_http" /\ W!Startup[5] = "rag" /\ W!Startup[6] = "dependencies"
  /\ W!Startup[7] = "operations_monitor" /\ W!Startup[8] = "history" /\ W!Startup[9] = "settings"
  /\ W!Startup[10] = "business_analysis" /\ W!Startup[11] = "execution" /\ W!Startup[12] = "bindings"
  /\ W!Startup[13] = "export"
  BY DEF W!Startup

\* The resources of the lifespan, one by one.
LEMMA ResourceIs == W!Resource = {"tracing", "control_database", "llm_http", "llm_async_http", "rag",
                                  "operations_monitor", "history", "business_analysis", "execution", "export"}
<1>1. W!Range(W!Startup) = {"tracing", "control_database", "llm_http", "llm_async_http", "rag", "dependencies",
             "operations_monitor", "history", "settings", "business_analysis", "execution", "bindings", "export"}
  BY DEF W!Range, W!Startup
<1> QED BY <1>1 DEF W!Resource

Lease == {"owner", "run", "history"}

\* The leases, request by request.
LEMMA LeasesAre ==
  /\ DOMAIN W!Leases = {"query", "analysis", "continue", "resume", "execution"}
  /\ \A k \in DOMAIN W!Leases :
       /\ W!Leases[k] \in Seq(Lease)
       /\ \E i \in 1 .. Len(W!Leases[k]) : W!Leases[k][i] = "owner"
       /\ Len(W!Leases[k]) \in Nat /\ 0 < Len(W!Leases[k])
<1> DEFINE L == Lease
<1>1. /\ DOMAIN W!Leases = {"query", "analysis", "continue", "resume", "execution"}
      /\ W!Leases["query"] = <<"owner">> /\ W!Leases["analysis"] = <<"owner", "run">>
      /\ W!Leases["continue"] = <<"history", "owner">> /\ W!Leases["resume"] = <<"history", "owner", "run">>
      /\ W!Leases["execution"] = <<"owner", "history", "run">>
  BY DEF W!Leases
<1>2. /\ <<"owner">> \in Seq(L) /\ <<"owner", "run">> \in Seq(L) /\ <<"history", "owner">> \in Seq(L)
      /\ <<"history", "owner", "run">> \in Seq(L) /\ <<"owner", "history", "run">> \in Seq(L)
  BY DEF Lease
<1>3. \A k \in DOMAIN W!Leases : W!Leases[k] \in Seq(L)
  BY <1>1, <1>2
<1>4. \A k \in DOMAIN W!Leases : \E i \in 1 .. Len(W!Leases[k]) : W!Leases[k][i] = "owner"
  <2>1. /\ \E i \in 1 .. Len(<<"owner">>) : <<"owner">>[i] = "owner"
        /\ \E i \in 1 .. Len(<<"owner", "run">>) : <<"owner", "run">>[i] = "owner"
        /\ \E i \in 1 .. Len(<<"history", "owner">>) : <<"history", "owner">>[i] = "owner"
        /\ \E i \in 1 .. Len(<<"history", "owner", "run">>) : <<"history", "owner", "run">>[i] = "owner"
        /\ \E i \in 1 .. Len(<<"owner", "history", "run">>) : <<"owner", "history", "run">>[i] = "owner"
    OBVIOUS
  <2> QED BY <1>1, <2>1
<1>5. \A k \in DOMAIN W!Leases : Len(W!Leases[k]) \in Nat /\ 0 < Len(W!Leases[k])
  BY <1>1
<1> QED BY <1>1, <1>3, <1>4, <1>5

(* A thread has taken the leases of its kind in order; a worker that has lost them has none. *)
ThreadFits(t) ==
  LET wanted == W!Leases[t.kind] IN
  /\ t.pc \in {"idle", "asked", "work", "leaving", "over"}
  /\ t.kind \in DOMAIN W!Leases
  /\ t.held \in Seq(Lease)
  /\ Len(t.held) <= Len(wanted) /\ \A i \in 1 .. Len(t.held) : t.held[i] = wanted[i]
  /\ t.pc = "asked" => Len(t.held) < Len(wanted)
  /\ t.pc = "work" /\ t.kind # "execution" => Len(t.held) = Len(wanted)
  /\ t.pc \in {"idle", "over"} => t.held = <<>>

ThreadOK(k) == ThreadFits(thread[k])

Holds(k, l) == \E i \in 1 .. Len(thread[k].held) : thread[k].held[i] = l
Quiet == \A k \in Thread : thread[k].pc = "idle"
Draining == stack # <<>> /\ stack[Len(stack)] = "history_drain"
OnStack(r) == \E i \in 1 .. Len(stack) : stack[i] = r

(* Before anybody may ask, everything has been acquired in order; nobody asks before. *)
StartOK ==
  /\ phase = "starting" =>
       /\ step \in 1 .. 13 /\ Quiet
       /\ \A i \in 1 .. 13 : W!Startup[i] \in open => i < step
       /\ bound => step > 12
       /\ IF step > 10 THEN Draining ELSE ~OnStack("history_drain")
  /\ phase = "serving" => Draining
  /\ phase \in {"export", "execution", "guard"} => Quiet \/ Draining

(* What is open in each phase. *)
OpenOK ==
  /\ phase \in {"starting", "serving", "export"} => open = got
  /\ phase = "execution" => got \ {"export"} \subseteq open
  /\ phase = "guard" => got \ {"export", "execution"} \subseteq open
  /\ phase = "unwinding" /\ OnStack("history_drain") => got \ {"export", "execution"} \subseteq open

(* What was acquired and is neither given back nor failed is still to be closed. *)
ToClose ==
  \A r \in open \ failed :
    \/ OnStack(r)
    \/ r = "export" /\ phase \in {"starting", "serving", "export"}
    \/ r = "execution" /\ phase \in {"starting", "serving", "export", "execution"}

StackOK ==
  /\ stack \in Seq(W!Resource \cup {"history_drain"})
  /\ \A i \in 1 .. Len(stack) : IF stack[i] = "history_drain" THEN i = Len(stack) ELSE stack[i] \in got

(* Who may still be inside in each phase, and what is still given out. *)
InsideOK ==
  /\ phase \in {"guard", "unwinding", "down"} =>
       /\ Quiet \/ "owner" \notin accepting
       /\ \A k \in Thread : thread[k].pc # "work" /\ ~Holds(k, "owner")
  /\ phase \in {"unwinding", "down"} =>
       /\ Quiet \/ "run" \notin accepting
       /\ ~bound
       /\ \A k \in Thread : ~Holds(k, "run")
  /\ phase \in {"unwinding", "down"} /\ ~OnStack("history_drain") =>
       /\ Quiet \/ "history" \notin accepting
       /\ \A k \in Thread : ~Holds(k, "history")
  /\ phase = "down" => stack = <<>>

ThreadT == [pc : {"idle", "asked", "work", "leaving", "over"}, kind : DOMAIN W!Leases, held : Seq(Lease)]

LifeInv ==
  /\ W!LifespanAssumption
  /\ thread \in [Thread -> ThreadT]
  /\ W!TypeOK /\ StartOK /\ OpenOK /\ ToClose /\ StackOK /\ InsideOK
  /\ phase \in {"starting", "serving", "export", "execution", "guard", "unwinding", "down"}
  /\ \A k \in Thread : ThreadOK(k)

\* A request that has not begun, or is over, holds no lease.
LEMMA HoldsNothing ==
  ASSUME NEW k \in Thread, ThreadOK(k), ~Holds(k, "owner"), ~Holds(k, "run"), ~Holds(k, "history")
  PROVE  thread[k].held = <<>>
<1>1. thread[k].held \in Seq(Lease) /\ Len(thread[k].held) \in Nat
  BY DEF ThreadOK, ThreadFits
<1>2. \A i \in 1 .. Len(thread[k].held) : thread[k].held[i] \in {"owner", "run", "history"}
  BY <1>1 DEF Lease
<1>3. Len(thread[k].held) = 0
  <2> SUFFICES ASSUME Len(thread[k].held) # 0 PROVE FALSE
    BY <1>1
  <2>1. 1 \in 1 .. Len(thread[k].held)
    BY <1>1
  <2> QED BY <2>1, <1>2 DEF Holds
<1> QED BY <1>1, <1>3

\* The process that has not started.
LEMMA LifeInit == W!LifespanAssumption /\ W!Init => LifeInv
<1> SUFFICES ASSUME W!LifespanAssumption, W!Init PROVE LifeInv
  OBVIOUS
<1>0. stack = <<>> /\ Len(stack) = 0 /\ ~\E i \in 1 .. Len(stack) : TRUE
  <2>1. stack = <<>> /\ Len(<<>>) = 0 /\ 1 .. 0 = {}
    BY DEF W!Init
  <2> QED BY <2>1
<1>1. W!TypeOK
  BY StartupIs DEF W!TypeOK, W!Init, W!Idle
<1>2. StartOK
  BY <1>0 DEF StartOK, Quiet, OnStack, W!Init, W!Idle
<1>3. OpenOK /\ ToClose /\ StackOK /\ InsideOK
  <2>1. StackOK
    BY <1>0 DEF StackOK
  <2>2. phase = "starting" /\ open = {} /\ got = {}
    BY DEF W!Init
  <2>3. OpenOK
    BY <2>2 DEF OpenOK
  <2>4. ToClose
    BY <2>2 DEF ToClose
  <2>5. InsideOK
    BY <2>2 DEF InsideOK
  <2> QED BY <2>1, <2>3, <2>4, <2>5
<1>4. \A k \in Thread : thread[k].pc = "idle" /\ thread[k].kind = "query" /\ thread[k].held = <<>>
  BY DEF W!Init, W!Idle
<1>5. ASSUME NEW k \in Thread PROVE ThreadOK(k)
  <2>1. Len(thread[k].held) = 0 /\ thread[k].held \in Seq(Lease) /\ 1 .. 0 = {}
    <3>1. thread[k].held = <<>>
      BY <1>4
    <3>2. <<>> \in Seq(Lease) /\ Len(<<>>) = 0
      OBVIOUS
    <3> HIDE <1>4
    <3> QED BY <3>1, <3>2
  <2>2. "query" \in DOMAIN W!Leases /\ Len(W!Leases["query"]) \in Nat
    BY LeasesAre
  <2> QED BY <1>4, <2>1, <2>2 DEF ThreadOK, ThreadFits
<1>6. thread \in [Thread -> ThreadT]
  BY LeasesAre DEF ThreadT, W!Init, W!Idle
<1>7. phase = "starting"
  BY DEF W!Init
<1> QED BY <1>1, <1>2, <1>3, <1>5, <1>6, <1>7 DEF LifeInv

\* The invariant says what the theorem promises.
LEMMA LifeSays == LifeInv => W!LifespanHolds
<1> SUFFICES ASSUME LifeInv PROVE W!WorkStandsOnOpen /\ W!NothingLeft
  BY DEF LifeInv, W!LifespanHolds
<1>1. ASSUME NEW k \in Thread, thread[k].pc = "work" PROVE got \ {"export"} \subseteq open
  BY <1>1 DEF LifeInv, StartOK, OpenOK, InsideOK, Quiet
<1>2. ASSUME NEW k \in Thread, thread[k].held # <<>> PROVE got \ {"export", "execution"} \subseteq open
  <2>1. ~Quiet /\ ThreadOK(k)
    BY <1>2 DEF LifeInv, ThreadOK, ThreadFits, Quiet
  <2>2. phase \in {"unwinding", "down"} => OnStack("history_drain")
    BY <1>2, <2>1, HoldsNothing DEF LifeInv, InsideOK
  <2>3. phase # "down"
    BY <2>2 DEF LifeInv, InsideOK, OnStack, StackOK
  <2> QED BY <2>1, <2>2, <2>3 DEF LifeInv, StartOK, OpenOK
<1>3. ASSUME phase = "down" PROVE open \subseteq failed /\ ~bound /\ \A k \in Thread : thread[k].held = <<>> /\ thread[k].pc # "work"
  <2>1. stack = <<>> /\ \A r : ~OnStack(r)
    BY <1>3 DEF LifeInv, InsideOK, OnStack
  <2>2. \A k \in Thread : thread[k].held = <<>>
    BY <1>3, <2>1, HoldsNothing DEF LifeInv, InsideOK
  <2> QED BY <1>3, <2>1, <2>2 DEF LifeInv, InsideOK, ToClose
<1> QED BY <1>1, <1>2, <1>3 DEF W!WorkStandsOnOpen, W!NothingLeft

\* The first lease a request takes.
LEMMA FrontIs ==
  ASSUME NEW S, NEW s \in Seq(S), s # <<>>
  PROVE  /\ SubSeq(s, 1, Len(s) - 1) \in Seq(S)
         /\ Len(SubSeq(s, 1, Len(s) - 1)) = Len(s) - 1
         /\ \A i \in 1 .. Len(s) - 1 : SubSeq(s, 1, Len(s) - 1)[i] = s[i]
<1>1. Len(s) \in Nat /\ Len(s) > 0
  OBVIOUS
<1>2. ASSUME NEW i \in 1 .. Len(s) - 1 PROVE s[i] \in S
  <2>1. i \in 1 .. Len(s)
    BY <1>1
  <2> QED BY <2>1, ElementOfSeq
<1> DEFINE n == Len(s) - 1
<1>3. n \in Nat /\ 1 \in Int /\ n \in Int
  BY <1>1
<1>4. \A i \in 1 .. n : s[i] \in S
  BY <1>2
<1> HIDE DEF n
<1>5. /\ SubSeq(s, 1, n) \in Seq(S)
      /\ Len(SubSeq(s, 1, n)) = IF 1 <= n THEN n - 1 + 1 ELSE 0
      /\ \A i \in 1 .. n - 1 + 1 : SubSeq(s, 1, n)[i] = s[1 + i - 1]
  BY <1>3, <1>4, SubSeqProperties
<1>6. Len(SubSeq(s, 1, n)) = n
  <2>1. (IF 1 <= n THEN n - 1 + 1 ELSE 0) = n
    BY <1>3
  <2> DEFINE u == SubSeq(s, 1, n)
  <2>2. Len(u) = IF 1 <= n THEN n - 1 + 1 ELSE 0
    BY <1>5
  <2> HIDE DEF u
  <2>3. Len(u) = n
    BY <2>1, <2>2
  <2> QED BY <2>3 DEF u
<1>7. \A i \in 1 .. n : SubSeq(s, 1, n)[i] = s[i]
  <2>1. \A i \in 1 .. n : i \in 1 .. n - 1 + 1 /\ 1 + i - 1 = i
    BY <1>3
  <2> QED BY <2>1, <1>5, Zenon
<1> QED BY <1>5, <1>6, <1>7 DEF n

(* A cleanup taken from the stack. *)
LEMMA Popped ==
  ASSUME StackOK, stack # <<>>, stack' = W!Front(stack)
  PROVE  /\ W!Last(stack) = stack[Len(stack)]
         /\ stack' \in Seq(W!Resource \cup {"history_drain"})
         /\ \A i \in 1 .. Len(stack') : stack'[i] = stack[i] /\ stack[i] \in got
         /\ ~OnStack("history_drain")'
         /\ \A r : OnStack(r) => OnStack(r)' \/ r = W!Last(stack)
         /\ W!Last(stack) = "history_drain" \/ W!Last(stack) \in got
         /\ W!Last(stack) # "history_drain" => ~OnStack("history_drain")
<1> DEFINE n == Len(stack)
<1>1. stack \in Seq(W!Resource \cup {"history_drain"}) /\ n \in Nat
  BY DEF StackOK
<1>2. n > 0
  BY <1>1
<1>3. stack' \in Seq(W!Resource \cup {"history_drain"}) /\ Len(stack') = n - 1 /\ \A i \in 1 .. n - 1 : stack'[i] = stack[i]
  <2>1. stack' = SubSeq(stack, 1, n - 1)
    BY DEF W!Front
  <2>2. n - 1 \in Nat /\ \A i \in 1 .. n - 1 : i \in 1 .. n
    BY <1>1, <1>2
  <2> QED BY <1>1, <2>1, FrontIs
<1>4. W!Last(stack) = stack[n]
  BY DEF W!Last
<1>5. \A i \in 1 .. n : (stack[i] = "history_drain" => i = n) /\ (stack[i] # "history_drain" => stack[i] \in got)
  BY DEF StackOK
<1>6. \A i \in 1 .. n - 1 : i \in 1 .. n /\ i # n
  BY <1>1
<1>7. n \in 1 .. n
  BY <1>1, <1>2
<1>8. ~OnStack("history_drain")'
  BY <1>3, <1>5, <1>6 DEF OnStack
<1>9. \A i \in 1 .. n : i = n \/ i \in 1 .. n - 1
  BY <1>1
<1>10. \A r : OnStack(r) => OnStack(r)' \/ r = stack[n]
  BY <1>3, <1>9 DEF OnStack
<1>11. stack[n] # "history_drain" => ~OnStack("history_drain")
  BY <1>5 DEF OnStack
<1> QED BY <1>3, <1>4, <1>5, <1>6, <1>7, <1>8, <1>10, <1>11

(* A request thread or a worker does something of its own. *)
LEMMA ThreadStep ==
  ASSUME LifeInv, NEW k \in Thread, NEW t \in ThreadT,
         thread' = [thread EXCEPT ![k] = t], UNCHANGED <<phase, open, W!life>>,
         ThreadOK(k)', Quiet => phase = "serving",
         \A l : Holds(k, l)' => Holds(k, l) \/ (l \in accepting /\ ~Quiet),
         t.pc = "work" => thread[k].pc = "work" \/ Holds(k, "owner")'
  PROVE  LifeInv'
<1>0. UNCHANGED <<phase, step, got, open, stack, failed, accepting, bound, mishaps>>
  BY DEF W!life
<1>1. thread' \in [Thread -> ThreadT] /\ thread'[k] = t /\ \A j \in Thread : j # k => thread'[j] = thread[j]
  BY DEF LifeInv
<1>2. \A j \in Thread \ {k} : (ThreadOK(j) <=> ThreadOK(j)') /\ \A l : Holds(j, l) <=> Holds(j, l)'
  BY <1>1 DEF ThreadOK, ThreadFits, Holds
<1>3. W!TypeOK'
  <2>1. \A j \in Thread : thread'[j].pc \in {"idle", "asked", "work", "leaving", "over"}
    BY <1>1 DEF ThreadT
  <2> QED BY <1>0, <2>1 DEF LifeInv, W!TypeOK
<1>4. OpenOK' /\ ToClose' /\ StackOK'
  BY <1>0 DEF LifeInv, OpenOK, ToClose, StackOK, OnStack
<1>5. StartOK'
  BY <1>0 DEF LifeInv, StartOK, Draining, OnStack
<1>6. InsideOK'
  <2>1. \A r : OnStack(r)' <=> OnStack(r)
    BY <1>0 DEF OnStack
  <2>2. ASSUME phase \in {"guard", "unwinding", "down"}
        PROVE  "owner" \notin accepting /\ \A j \in Thread : thread'[j].pc # "work" /\ ~Holds(j, "owner")'
    BY <2>2, <1>1, <1>2 DEF LifeInv, InsideOK
  <2>3. ASSUME phase \in {"unwinding", "down"}
        PROVE  "run" \notin accepting /\ ~bound /\ \A j \in Thread : ~Holds(j, "run")'
    BY <2>3, <1>1, <1>2 DEF LifeInv, InsideOK
  <2>4. ASSUME phase \in {"unwinding", "down"}, ~OnStack("history_drain")
        PROVE  "history" \notin accepting /\ \A j \in Thread : ~Holds(j, "history")'
    BY <2>4, <1>1, <1>2 DEF LifeInv, InsideOK
  <2>5. phase = "down" => stack = <<>>
    BY DEF LifeInv, InsideOK
  <2> QED BY <1>0, <2>1, <2>2, <2>3, <2>4, <2>5 DEF InsideOK
<1>7. \A j \in Thread : ThreadOK(j)'
  BY <1>2 DEF LifeInv
<1> QED BY <1>0, <1>1, <1>3, <1>4, <1>5, <1>6, <1>7 DEF LifeInv, W!LifespanAssumption

\* The startup steps differ, and what each registers for the shutdown.
LEMMA StartupOnce ==
  /\ \A i, j \in 1 .. 13 : W!Startup[i] = W!Startup[j] => i = j
  /\ \A i \in 1 .. 13 : W!Startup[i] \in W!Resource <=> i \notin {6, 9, 12}
  /\ \A i \in 1 .. 13 : W!Registers(W!Startup[i]) =
       IF i \in {6, 9, 11, 12, 13} THEN <<>>
       ELSE IF i = 10 THEN <<"business_analysis", "history_drain">> ELSE <<W!Startup[i]>>
<1>1. \A i \in 1 .. 13 : i \in {1, 2, 3, 4, 5, 6, 7, 8, 9, 10, 11, 12, 13}
  OBVIOUS
<1>2. \A i, j \in 1 .. 13 : W!Startup[i] = W!Startup[j] => i = j
  BY <1>1, StartupIs
<1>3. \A i \in 1 .. 13 : W!Startup[i] \in W!Resource <=> i \notin {6, 9, 12}
  BY <1>1, StartupIs, ResourceIs
<1>4. ASSUME NEW i \in 1 .. 13
      PROVE  W!Registers(W!Startup[i]) = IF i \in {6, 9, 11, 12, 13} THEN <<>>
                                         ELSE IF i = 10 THEN <<"business_analysis", "history_drain">> ELSE <<W!Startup[i]>>
  BY <1>1, <1>4, StartupIs DEF W!Registers
<1> QED BY <1>2, <1>3, <1>4

(* Cleanups registered on top of those of the resources before. *)
LEMMA Pushed ==
  ASSUME StackOK, ~OnStack("history_drain"), got \subseteq got', NEW w \in Seq(W!Resource \cup {"history_drain"}),
         stack' = stack \o w,
         \A i \in 1 .. Len(w) : IF w[i] = "history_drain" THEN i = Len(w) ELSE w[i] \in got'
  PROVE  /\ StackOK'
         /\ \A r : OnStack(r) => OnStack(r)'
         /\ \A i \in 1 .. Len(w) : OnStack(w[i])'
         /\ OnStack("history_drain")' => \E i \in 1 .. Len(w) : w[i] = "history_drain"
         /\ \A i \in 1 .. Len(w) : w[i] = "history_drain" => Draining'
<1> DEFINE n == Len(stack)  q == Len(w)  T == W!Resource \cup {"history_drain"}
<1>1. stack \in Seq(T) /\ n \in Nat /\ q \in Nat
  BY DEF StackOK
<1>2. /\ stack' \in Seq(T) /\ Len(stack') = n + q
      /\ \A i \in 1 .. n : stack'[i] = stack[i]
      /\ \A i \in 1 .. q : stack'[n + i] = w[i]
  <2>1. w \in Seq(T)
    OBVIOUS
  <2> HIDE DEF T
  <2>2. /\ stack' \in Seq(T) /\ Len(stack') = n + q
        /\ \A i \in 1 .. Len(stack) + Len(w) : stack'[i] = IF i <= Len(stack) THEN stack[i] ELSE w[i - Len(stack)]
    BY <1>1, <2>1, ConcatProperties
  <2>3. \A i \in 1 .. n : i \in 1 .. n + q /\ i <= n
    BY <1>1
  <2>4. \A i \in 1 .. q : n + i \in 1 .. n + q /\ ~(n + i <= n) /\ n + i - n = i
    BY <1>1
  <2> HIDE DEF n, q
  <2> QED BY <2>2, <2>3, <2>4 DEF n, q
<1>3. \A i \in 1 .. n : stack[i] # "history_drain" /\ stack[i] \in got'
  BY DEF StackOK, OnStack
<1>4. \A i \in 1 .. n + q : i \in 1 .. n \/ (i - n \in 1 .. q /\ i = n + (i - n))
  BY <1>1
<1>5. \A i \in 1 .. n : i \in 1 .. n + q
  BY <1>1
<1>6. \A i \in 1 .. q : n + i \in 1 .. n + q
  BY <1>1
<1>7. ASSUME NEW i \in 1 .. n + q PROVE IF stack'[i] = "history_drain" THEN i = n + q ELSE stack'[i] \in got'
  <2>1. CASE i \in 1 .. n
    BY <2>1, <1>2, <1>3
  <2>2. CASE i - n \in 1 .. q /\ i = n + (i - n)
    <3>1. stack'[i] = w[i - n]
      BY <2>2, <1>2
    <3>2. IF w[i - n] = "history_drain" THEN i - n = q ELSE w[i - n] \in got'
      BY <2>2
    <3>3. i - n = q => i = n + q
      BY <1>1
    <3> QED BY <3>1, <3>2, <3>3
  <2> QED BY <2>1, <2>2, <1>4
<1>8. StackOK'
  <2>1. W!Resource' = W!Resource
    BY DEF W!Resource, W!Startup, W!Range
  <2> QED BY <1>2, <1>7 DEF StackOK
<1>9. \A r : OnStack(r) => OnStack(r)'
  BY <1>2, <1>5 DEF OnStack
<1>10. ASSUME NEW i \in 1 .. q PROVE OnStack(w[i])'
  BY <1>2, <1>6 DEF OnStack
<1>11. OnStack("history_drain")' => \E i \in 1 .. q : w[i] = "history_drain"
  BY <1>2, <1>3, <1>4 DEF OnStack
<1>12. ASSUME NEW i \in 1 .. q, w[i] = "history_drain" PROVE Draining'
  <2>1. i = q /\ q > 0
    BY <1>12, <1>1
  <2>2. stack'[n + q] = "history_drain" /\ Len(stack') = n + q /\ n + q > 0
    BY <2>1, <1>1, <1>2, <1>12
  <2>3. stack' # <<>>
    BY <2>2
  <2>4. stack'[Len(stack')] = "history_drain"
    <3> HIDE DEF n, q
    <3> QED BY <2>2
  <2> QED BY <2>3, <2>4 DEF Draining
<1> QED BY <1>8, <1>9, <1>10, <1>11, <1>12

\* A startup step that succeeds.
LEMMA Starts == ASSUME LifeInv, W!Acquire PROVE LifeInv'
<1> DEFINE T == W!Resource \cup {"history_drain"}
<1>0. PICK r : r = W!Startup[step]
  OBVIOUS
<1>1. /\ phase = "starting" /\ step \in 1 .. 13 /\ Quiet /\ got = open
      /\ IF step > 10 THEN Draining ELSE ~OnStack("history_drain")
      /\ \A i \in 1 .. 13 : W!Startup[i] \in open => i < step
      /\ bound => step > 12
  BY DEF LifeInv, W!Acquire, StartOK, OpenOK
<1>2. step' = step + 1 /\ UNCHANGED <<failed, thread, mishaps>> /\ (bound' <=> (bound \/ r = "bindings"))
      /\ accepting' = accepting \cup W!LeasesOf(r)
      /\ phase' = IF step = 13 THEN "serving" ELSE "starting"
  BY <1>0, <1>1, StartupIs DEF W!Acquire, W!PublishBindings
<1>3. \/ got' = got \cup ({r} \cap W!Resource) /\ open' = open \cup ({r} \cap W!Resource) /\ stack' = stack \o W!Registers(r)
      \/ step = 5 /\ UNCHANGED <<got, open, stack>>
  <2>1. r = "rag" => step = 5
    <3>1. 5 \in 1 .. 13 /\ W!Startup[5] = "rag"
      BY StartupIs
    <3> QED BY <3>1, <1>0, <1>1, StartupOnce
  <2>2. \/ got' = got \cup ({r} \cap W!Resource) /\ open' = open \cup ({r} \cap W!Resource) /\ stack' = stack \o W!Registers(r)
        \/ r = "rag" /\ UNCHANGED <<got, open, stack>>
    BY <1>0 DEF W!Acquire
  <2> QED BY <2>1, <2>2
<1>4. /\ (r \in W!Resource <=> step \notin {6, 9, 12}) /\ (r = "bindings" <=> step = 12) /\ (r = "export" <=> step = 13)
      /\ (r = "execution" <=> step = 11) /\ (r = "business_analysis" <=> step = 10)
      /\ W!Registers(r) = IF step \in {6, 9, 11, 12, 13} THEN <<>>
                          ELSE IF step = 10 THEN <<"business_analysis", "history_drain">> ELSE <<r>>
  BY <1>0, <1>1, StartupOnce, StartupIs
<1>5. W!LeasesOf(r) \subseteq {"owner", "run", "history"}
  BY DEF W!LeasesOf
<1>6. got \subseteq got' /\ got' = open' /\ got' \subseteq got \cup {r} /\ got' \subseteq W!Resource
  BY <1>1, <1>3 DEF LifeInv, W!TypeOK
<1>7. /\ StackOK' /\ \A x : OnStack(x) => OnStack(x)'
      /\ (IF step + 1 > 10 THEN Draining' ELSE ~OnStack("history_drain")')
      /\ r \in got' => r \in got \/ OnStack(r)' \/ r \in {"execution", "export"}
  <2>1. CASE UNCHANGED <<got, open, stack>> /\ step # 10
    <3>1. W!Resource' = W!Resource
      BY DEF W!Resource, W!Startup, W!Range
    <3>2. step + 1 > 10 <=> step > 10
      BY <2>1, <1>1
    <3>3. StackOK'
      BY <2>1, <3>1 DEF LifeInv, StackOK
    <3>4. \A x : OnStack(x) <=> OnStack(x)'
      BY <2>1 DEF OnStack
    <3>5. Draining <=> Draining'
      BY <2>1 DEF Draining
    <3> QED BY <2>1, <3>2, <3>3, <3>4, <3>5, <1>1
  <2>2. CASE /\ got' = got \cup ({r} \cap W!Resource) /\ stack' = stack \o W!Registers(r)
             /\ step \in {6, 9, 11, 12, 13}
    <3>1. stack' = stack
      <4>1. W!Registers(r) = <<>> /\ stack \in Seq(T)
        BY <2>2, <1>4 DEF LifeInv, StackOK
      <4> QED BY <4>1, <2>2
    <3>2. W!Resource' = W!Resource
      BY DEF W!Resource, W!Startup, W!Range
    <3>3. r \in got' => r \in got \/ r \in {"execution", "export"}
      BY <2>2, <1>4, <1>1
    <3>4. StackOK'
      BY <3>1, <3>2, <1>6 DEF LifeInv, StackOK
    <3>5. \A x : OnStack(x) <=> OnStack(x)'
      BY <3>1 DEF OnStack
    <3>6. Draining <=> Draining'
      BY <3>1 DEF Draining
    <3>7. step + 1 > 10 => step > 10
      BY <2>2, <1>1, <3>5, <3>6 
    <3> QED BY <3>3, <3>4, <3>5, <3>6, <3>7, <1>1
  <2>3. CASE got' = got \cup ({r} \cap W!Resource) /\ stack' = stack \o W!Registers(r) /\ step = 10
    <3> DEFINE w == <<"business_analysis", "history_drain">>
    <3>1. stack' = stack \o w /\ r = "business_analysis" /\ r \in got'
      BY <2>3, <1>4
    <3>2. Len(w) = 2 /\ w[1] = "business_analysis" /\ w[2] = "history_drain" /\ w \in Seq(T)
      BY ResourceIs
    <3> HIDE DEF w
    <3>3. \A i \in 1 .. Len(w) : IF w[i] = "history_drain" THEN i = Len(w) ELSE w[i] \in got'
      BY <3>1, <3>2
    <3>4. ~OnStack("history_drain")
      BY <2>3, <1>1
    <3>5. /\ StackOK' /\ \A x : OnStack(x) => OnStack(x)'
          /\ \A i \in 1 .. Len(w) : OnStack(w[i])'
          /\ \A i \in 1 .. Len(w) : w[i] = "history_drain" => Draining'
      BY <3>1, <3>2, <3>3, <3>4, <1>6, Pushed DEF LifeInv
    <3>6. Draining' /\ OnStack(r)'
      BY <3>1, <3>2, <3>5
    <3> QED BY <3>5, <3>6, <2>3
  <2>4. CASE /\ got' = got \cup ({r} \cap W!Resource) /\ stack' = stack \o W!Registers(r)
             /\ step \notin {6, 9, 10, 11, 12, 13}
    <3> DEFINE w == <<r>>
    <3>1. stack' = stack \o w /\ r \in W!Resource /\ r \in got' /\ ~(step + 1 > 10) /\ ~(step > 10)
      BY <2>4, <1>4, <1>1
    <3>2. Len(w) = 1 /\ w[1] = r /\ w \in Seq(T) /\ r # "history_drain"
      BY <3>1, ResourceIs
    <3> HIDE DEF w
    <3>3. \A i \in 1 .. Len(w) : w[i] = r
      BY <3>2
    <3>4. ~OnStack("history_drain")
      BY <3>1, <1>1
    <3>5. /\ StackOK' /\ \A x : OnStack(x) => OnStack(x)'
          /\ \A i \in 1 .. Len(w) : OnStack(w[i])'
          /\ OnStack("history_drain")' => \E i \in 1 .. Len(w) : w[i] = "history_drain"
      BY <3>1, <3>2, <3>3, <3>4, <1>6, Pushed DEF LifeInv
    <3>6. OnStack(r)' /\ ~OnStack("history_drain")'
      BY <3>2, <3>3, <3>5
    <3> QED BY <3>1, <3>5, <3>6, <1>1
  <2> HIDE DEF T
  <2>5. step = 5 => step # 10
    OBVIOUS
  <2> QED BY <1>3, <2>1, <2>2, <2>3, <2>4, <2>5
<1>8. \A i \in 1 .. 13 : W!Startup[i] \in open' => i < step + 1
  <2>1. \A i \in 1 .. 13 : W!Startup[i] = r => i = step
    BY <1>0, <1>1, StartupOnce
  <2> QED BY <2>1, <1>1, <1>6
<1>9. step + 1 \in 1 .. 14 /\ (step # 13 => step + 1 \in 1 .. 13) /\ (step = 12 => step + 1 > 12) /\ (step = 13 => step + 1 > 10)
  BY <1>1
<1>10. W!TypeOK'
  <2>1. /\ open \subseteq got /\ got \subseteq W!Resource /\ failed \subseteq got
        /\ accepting \subseteq {"owner", "run", "history"}
        /\ \A k \in Thread : thread[k].pc \in {"idle", "asked", "work", "leaving", "over"}
    BY DEF LifeInv, W!TypeOK
  <2>2. W!Resource' = W!Resource /\ Len(W!Startup) + 1 = 14
    BY StartupIs DEF W!Resource, W!Startup, W!Range
  <2> QED BY <2>1, <2>2, <1>2, <1>5, <1>6, <1>9, StartupIs DEF W!TypeOK
<1>11. \A k \in Thread : ThreadOK(k)'
  BY <1>2 DEF LifeInv, ThreadOK, ThreadFits
<1>12. Quiet'
  BY <1>1, <1>2 DEF Quiet
<1>13. StartOK'
  <2>1. phase' = "starting" =>
          /\ step' \in 1 .. 13 /\ Quiet'
          /\ \A i \in 1 .. 13 : W!Startup[i] \in open' => i < step'
          /\ bound' => step' > 12
          /\ IF step' > 10 THEN Draining' ELSE ~OnStack("history_drain")'
    <3> SUFFICES ASSUME phase' = "starting" PROVE
          /\ step' \in 1 .. 13
          /\ \A i \in 1 .. 13 : W!Startup[i] \in open' => i < step'
          /\ bound' => step' > 12
          /\ IF step' > 10 THEN Draining' ELSE ~OnStack("history_drain")'
      BY <1>12
    <3>1. step # 13 /\ step' = step + 1
      BY <1>2
    <3>2. ~bound
      BY <3>1, <1>1
    <3>3. bound' => step' > 12
      BY <3>1, <3>2, <1>2, <1>4, <1>9
    <3> QED BY <3>1, <3>3, <1>7, <1>8, <1>9
  <2>2. phase' = "serving" => Draining'
    BY <1>2, <1>7, <1>9
  <2>3. phase' \in {"starting", "serving"}
    BY <1>2
  <2>4. W!Startup' = W!Startup
    BY DEF W!Startup
  <2> QED BY <2>1, <2>2, <2>3, <2>4, <1>12 DEF StartOK
<1>14. OpenOK' /\ InsideOK'
  BY <1>2, <1>6 DEF OpenOK, InsideOK
<1>15. ToClose'
  <2> SUFFICES ASSUME NEW x \in open' \ failed' PROVE OnStack(x)' \/ x \in {"export", "execution"}
    BY <1>2 DEF ToClose
  <2>1. CASE x \in open
    BY <2>1, <1>2, <1>7 DEF LifeInv, ToClose
  <2>2. CASE x \notin open
    BY <2>2, <1>1, <1>6, <1>7
  <2> QED BY <2>1, <2>2
<1>16. thread' \in [Thread -> ThreadT]
  BY <1>2 DEF LifeInv
<1> QED BY <1>2, <1>7, <1>10, <1>11, <1>13, <1>14, <1>15, <1>16 DEF LifeInv, W!LifespanAssumption

\* A startup step that fails and unwinds.
LEMMA StartsNot == ASSUME LifeInv, W!StartFails PROVE LifeInv'
<1>1. /\ phase = "starting" /\ step \in 1 .. 13 /\ Quiet /\ got = open
      /\ IF step > 10 THEN Draining ELSE ~OnStack("history_drain")
      /\ \A i \in 1 .. 13 : W!Startup[i] \in open => i < step
      /\ bound => step > 12
  BY DEF LifeInv, W!StartFails, StartOK, OpenOK
<1>2. /\ step' = step + 1 /\ UNCHANGED <<got, open, stack, failed, accepting, bound, thread>>
      /\ phase' = IF step = 13 THEN "serving" ELSE IF step \in {10, 11, 12} THEN "export" ELSE "unwinding"
  <2>1. phase' = CASE W!Startup[step] = "export" -> "serving"
                   [] W!Startup[step] \in {"business_analysis", "execution", "bindings"} -> "export"
                   [] OTHER -> "unwinding"
    BY DEF W!StartFails
  <2>2. (W!Startup[step] = "export" <=> step = 13) /\ (W!Startup[step] \in {"business_analysis", "execution", "bindings"} <=> step \in {10, 11, 12})
    BY <1>1, StartupOnce, StartupIs
  <2> QED BY <2>1, <2>2 DEF W!StartFails
<1>3. /\ W!TypeOK' /\ StackOK' /\ (\A k \in Thread : ThreadOK(k)') /\ thread' \in [Thread -> ThreadT] /\ Quiet'
      /\ (\A x : OnStack(x) <=> OnStack(x)') /\ (Draining <=> Draining')
  <2>1. W!Resource' = W!Resource /\ Len(W!Startup) + 1 = 14 /\ step + 1 \in 1 .. 14
    BY <1>1, StartupIs DEF W!Resource, W!Startup, W!Range
  <2>2. W!TypeOK'
    BY <2>1, <1>2 DEF LifeInv, W!TypeOK
  <2>3. StackOK'
    BY <2>1, <1>2 DEF LifeInv, StackOK
  <2>4. \A k \in Thread : ThreadOK(k)'
    BY <1>2 DEF LifeInv, ThreadOK, ThreadFits
  <2>5. Quiet' /\ thread' \in [Thread -> ThreadT]
    BY <1>1, <1>2 DEF LifeInv, Quiet
  <2> QED BY <2>2, <2>3, <2>4, <2>5, <1>2 DEF OnStack, Draining
<1>4. /\ phase' \in {"serving", "export", "unwinding"} /\ (phase' = "serving" => step > 10)
      /\ (phase' = "unwinding" => step <= 10)
  BY <1>1, <1>2
<1>5. StartOK'
  BY <1>1, <1>3, <1>4 DEF StartOK
<1>6. OpenOK'
  BY <1>1, <1>2, <1>3, <1>4 DEF OpenOK
<1>7. \A k \in Thread : thread'[k].pc = "idle" /\ \A l : ~Holds(k, l)'
  <2> SUFFICES ASSUME NEW k \in Thread PROVE thread'[k].pc = "idle" /\ \A l : ~Holds(k, l)'
    OBVIOUS
  <2>1. thread'[k].pc = "idle" /\ thread'[k].held = <<>>
    BY <1>3 DEF Quiet, ThreadOK, ThreadFits
  <2>2. Len(<<>>) = 0 /\ 1 .. 0 = {}
    OBVIOUS
  <2> QED BY <2>1, <2>2 DEF Holds
<1>8. InsideOK'
  <2>1. phase' = "unwinding" => ~bound'
    BY <1>1, <1>2, <1>4
  <2> QED BY <2>1, <1>3, <1>4, <1>7 DEF InsideOK
<1>9. ToClose'
  <2> SUFFICES ASSUME NEW x \in open \ failed, ~OnStack(x)
      PROVE (x = "export" \/ x = "execution") /\ phase' \in {"serving", "export"}
    BY <1>2, <1>3, <1>4 DEF ToClose
  <2>1. x = "export" \/ x = "execution"
    BY DEF LifeInv, ToClose
  <2>2. step > 11
    BY <2>1, <1>1, StartupIs
  <2> QED BY <2>1, <2>2, <1>1, <1>4
<1> QED BY <1>3, <1>4, <1>5, <1>6, <1>8, <1>9 DEF LifeInv, W!LifespanAssumption

(* Requests come and go. *)
LEMMA ThreadsKeep ==
  ASSUME LifeInv, NEW k \in Thread, W!Ask(k) \/ W!TakeLease(k) \/ W!LoseLeases(k) \/ W!Finish(k) \/ W!Leave(k)
  PROVE  LifeInv'
<1> DEFINE L == Lease  s == thread[k]  wanted == W!Leases[s.kind]
<1>1. /\ thread \in [Thread -> ThreadT] /\ s \in ThreadT /\ s.kind \in DOMAIN W!Leases /\ s.held \in Seq(L)
      /\ wanted \in Seq(L) /\ Len(wanted) \in Nat /\ Len(s.held) \in Nat /\ Len(s.held) <= Len(wanted)
      /\ \A i \in 1 .. Len(s.held) : s.held[i] = wanted[i]
      /\ s.pc = "asked" => Len(s.held) < Len(wanted)
      /\ s.pc = "work" /\ s.kind # "execution" => Len(s.held) = Len(wanted)
      /\ s.pc \in {"idle", "over"} => s.held = <<>>
  <2>1. thread \in [Thread -> ThreadT] /\ ThreadFits(s)
    BY DEF LifeInv, ThreadOK
  <2>2. s \in ThreadT
    BY <2>1
  <2>3. s.kind \in DOMAIN W!Leases /\ s.held \in Seq(L) /\ Len(s.held) \in Nat
    BY <2>2 DEF ThreadT
  <2>4. wanted \in Seq(L) /\ Len(wanted) \in Nat
    BY <2>3, LeasesAre
  <2> HIDE DEF s
  <2> QED BY <2>1, <2>2, <2>3, <2>4 DEF ThreadFits
<1>2. W!Idle \in ThreadT /\ Len(<<>>) = 0 /\ 1 .. 0 = {} /\ W!Idle.held = <<>> /\ <<>> \in Seq(L)
  <2>1. <<>> \in Seq(L) /\ Len(<<>>) = 0 /\ 1 .. 0 = {}
    OBVIOUS
  <2>2. "query" \in DOMAIN W!Leases
    BY LeasesAre
  <2> HIDE DEF L
  <2> QED BY <2>1, <2>2 DEF W!Idle, ThreadT, L
<1>3. UNCHANGED <<phase, open, W!life>>
  <2> HIDE DEF s, wanted
  <2>1. W!Ask(k) => UNCHANGED <<phase, open, W!life>>
    BY Zenon DEF W!Ask
  <2>2. W!TakeLease(k) => UNCHANGED <<phase, open, W!life>>
    BY DEF W!TakeLease
  <2>3. W!LoseLeases(k) \/ W!Finish(k) => UNCHANGED <<phase, open, W!life>>
    BY DEF W!LoseLeases, W!Finish
  <2>4. W!Leave(k) => UNCHANGED <<phase, open, W!life>>
    BY DEF W!Leave
  <2> QED BY <2>1, <2>2, <2>3, <2>4
<1>4. CASE W!Ask(k)
  <2>1. PICK c \in DOMAIN W!Leases : thread' = [thread EXCEPT ![k] = [W!Idle EXCEPT !.pc = "asked", !.kind = c]]
    <3> HIDE <1>1, <1>2, <1>3
    <3> HIDE DEF s, wanted, L
    <3> QED BY <1>4, Zenon DEF W!Ask
  <2>2. PICK t : t = [W!Idle EXCEPT !.pc = "asked", !.kind = c]
    OBVIOUS
  <2>3. t \in ThreadT /\ t.pc = "asked" /\ t.kind = c /\ t.held = <<>>
    BY <2>2, <1>2 DEF W!Idle, ThreadT
  <2>4. thread' = [thread EXCEPT ![k] = t] /\ thread'[k] = t
    BY <2>1, <2>2, <1>1
  <2>5. Len(t.held) = 0
    BY <2>3, <1>2
  <2>6. 0 < Len(W!Leases[c]) /\ Len(W!Leases[c]) \in Nat
    BY LeasesAre
  <2>a. 0 <= Len(W!Leases[c])
    BY <2>6
  <2>7. ThreadOK(k)'
    <3>1. ThreadFits(t)
      BY <2>3, <2>5, <2>6, <2>a, <1>2 DEF ThreadFits
    <3> QED BY <3>1, <2>4 DEF ThreadOK
  <2>8. \A l : ~Holds(k, l)'
    BY <2>4, <2>5, <1>2 DEF Holds
  <2>9. phase = "serving"
    BY <1>4, Zenon DEF W!Ask
  <2> HIDE DEF s, wanted, L
  <2> QED BY <2>3, <2>4, <2>7, <2>8, <2>9, <1>3, ThreadStep
<1> PICK held, n : held = s.held /\ n = Len(s.held)
  OBVIOUS
<1>5. CASE W!TakeLease(k)
  <2> DEFINE l == wanted[n + 1]
  <2>1. s.pc = "asked" /\ n < Len(wanted) /\ ~Quiet
    BY <1>1, <1>5 DEF W!TakeLease, Quiet
  <2>2. ASSUME thread' = [thread EXCEPT ![k].pc = "leaving"] PROVE LifeInv'
    <3>1. PICK t : t = [s EXCEPT !.pc = "leaving"]
      OBVIOUS
    <3>2. t \in ThreadT /\ t.pc = "leaving" /\ t.kind = s.kind /\ t.held = s.held
      BY <3>1, <1>1 DEF ThreadT
    <3>3. thread' = [thread EXCEPT ![k] = t] /\ thread'[k] = t
      BY <2>2, <3>1, <1>1
    <3>4. ThreadOK(k)'
      <4>1. ThreadFits(t)
        BY <3>2, <1>1 DEF ThreadFits
      <4> QED BY <4>1, <3>3 DEF ThreadOK
    <3>5. \A x : Holds(k, x)' <=> Holds(k, x)
      BY <3>2, <3>3 DEF Holds
    <3> QED BY <3>2, <3>3, <3>4, <3>5, <2>1, <1>3, ThreadStep
  <2>3. ASSUME W!Gives(l),
               thread' = [thread EXCEPT ![k].held = Append(held, l),
                                        ![k].pc = IF n + 1 = Len(wanted) THEN "work" ELSE "asked"]
        PROVE  LifeInv'
    <3>0. n + 1 \in 1 .. Len(wanted) /\ n \in Nat /\ Len(wanted) \in Nat
      BY <2>1, <1>1
    <3>1. PICK x, t : x = l /\ t = [s EXCEPT !.held = Append(held, l), !.pc = IF n + 1 = Len(wanted) THEN "work" ELSE "asked"]
      OBVIOUS
    <3>2. x \in Lease
      BY <3>0, <3>1, <1>1
    <3>3. /\ Append(held, x) \in Seq(Lease) /\ Len(Append(held, x)) = n + 1
          /\ \A i \in 1 .. n : Append(held, x)[i] = held[i]
          /\ Append(held, x)[n + 1] = x
      BY <3>2, <1>1, AppendProperties
    <3>4. /\ t.kind = s.kind /\ t.held = Append(held, x) /\ t.pc = (IF n + 1 = Len(wanted) THEN "work" ELSE "asked")
          /\ t \in ThreadT
      BY <3>1, <3>3, <1>1 DEF ThreadT
    <3>5. thread' = [thread EXCEPT ![k] = t] /\ thread'[k] = t
      BY <2>3, <3>1, <1>1
    <3>6. \A i \in 1 .. n + 1 : i \in 1 .. n \/ i = n + 1
      BY <3>0
    <3>7. \A i \in 1 .. n + 1 : Append(held, x)[i] = wanted[i]
      BY <3>6, <3>3, <3>1, <1>1
    <3>8. ThreadOK(k)'
      <4>1. n + 1 <= Len(wanted) /\ Len(t.held) = n + 1
        BY <3>0, <3>3, <3>4
      <4>2. n + 1 <= Len(wanted) /\ (n + 1 # Len(wanted) => n + 1 < Len(wanted))
        BY <3>0
      <4>3. t.kind \in DOMAIN W!Leases /\ W!Leases[t.kind] = wanted
        BY <3>4, <1>1
      <4> HIDE DEF s, wanted, l
      <4>4. t.pc \in {"asked", "work"} /\ (t.pc = "work" => n + 1 = Len(wanted)) /\ (t.pc = "asked" => n + 1 # Len(wanted))
        BY <3>4
      <4>5. ThreadFits(t)
        BY <4>1, <4>2, <4>3, <4>4, <3>3, <3>4, <3>7 DEF ThreadFits
      <4> QED BY <4>5, <3>5 DEF ThreadOK
    <3>9. \A y : Holds(k, y)' => Holds(k, y) \/ (y \in accepting /\ ~Quiet)
      BY <3>1, <3>3, <3>4, <3>5, <3>6, <2>1, <2>3 DEF Holds, W!Gives
    <3>10. t.pc = "work" => Holds(k, "owner")'
      <4> SUFFICES ASSUME t.pc = "work" PROVE Holds(k, "owner")'
        OBVIOUS
      <4>1. n + 1 = Len(wanted)
        BY <3>4
      <4>2. \E i \in 1 .. Len(wanted) : wanted[i] = "owner"
        BY <1>1, LeasesAre
      <4> QED BY <4>1, <4>2, <3>3, <3>4, <3>5, <3>7 DEF Holds
    <3> HIDE DEF s, wanted, l
    <3> QED BY <3>4, <3>5, <3>8, <3>9, <3>10, <2>1, <1>3, ThreadStep
  <2> QED BY <1>5, <2>2, <2>3 DEF W!TakeLease
<1>6. CASE W!LoseLeases(k)
  <2>1. s.pc = "work" /\ s.kind = "execution" /\ ~Quiet
    BY <1>6 DEF W!LoseLeases, Quiet
  <2>2. PICK t : t = [s EXCEPT !.held = <<>>]
    OBVIOUS
  <2>3. t \in ThreadT /\ t.pc = s.pc /\ t.kind = s.kind /\ t.held = <<>> /\ Len(t.held) = 0
    BY <2>2, <1>1, <1>2 DEF ThreadT
  <2>4. thread' = [thread EXCEPT ![k] = t] /\ thread'[k] = t
    BY <1>6, <2>2, <1>1 DEF W!LoseLeases
  <2>5. ThreadOK(k)'
    <3>1. ThreadFits(t)
      BY <2>1, <2>3, <1>1, <1>2 DEF ThreadFits
    <3> QED BY <3>1, <2>4 DEF ThreadOK
  <2>6. \A l : ~Holds(k, l)'
    BY <2>3, <2>4, <1>2 DEF Holds
  <2> QED BY <2>1, <2>3, <2>4, <2>5, <2>6, <1>3, ThreadStep
<1>7. CASE W!Finish(k)
  <2>1. s.pc = "work" /\ ~Quiet
    BY <1>7 DEF W!Finish, Quiet
  <2>2. PICK t : t = [s EXCEPT !.pc = "leaving"]
    OBVIOUS
  <2>3. t \in ThreadT /\ t.pc = "leaving" /\ t.kind = s.kind /\ t.held = s.held
    BY <2>2, <1>1 DEF ThreadT
  <2>4. thread' = [thread EXCEPT ![k] = t] /\ thread'[k] = t
    BY <1>7, <2>2, <1>1 DEF W!Finish
  <2>5. ThreadOK(k)'
    <3>1. ThreadFits(t)
      BY <2>3, <1>1 DEF ThreadFits
    <3> QED BY <3>1, <2>4 DEF ThreadOK
  <2>6. \A x : Holds(k, x)' <=> Holds(k, x)
    BY <2>3, <2>4 DEF Holds
  <2> QED BY <2>1, <2>3, <2>4, <2>5, <2>6, <1>3, ThreadStep
<1>8. CASE W!Leave(k)
  <2>1. s.pc = "leaving" /\ ~Quiet
    BY <1>8 DEF W!Leave, Quiet
  <2>2. CASE held = <<>>
    <3>1. PICK t : t = [W!Idle EXCEPT !.pc = "over"]
      OBVIOUS
    <3>2. t \in ThreadT /\ t.pc = "over" /\ t.kind = "query" /\ t.held = <<>> /\ Len(t.held) = 0
      BY <3>1, <1>2 DEF ThreadT, W!Idle
    <3>3. thread' = [thread EXCEPT ![k] = t] /\ thread'[k] = t
      BY <1>8, <2>2, <3>1, <1>1 DEF W!Leave
    <3>4. ThreadOK(k)'
      <4>1. "query" \in DOMAIN W!Leases /\ Len(W!Leases["query"]) \in Nat
        BY LeasesAre
      <4>2. 0 <= Len(W!Leases["query"])
        BY <4>1
      <4>3. ThreadFits(t)
        BY <4>1, <4>2, <3>2, <1>2 DEF ThreadFits
      <4> QED BY <4>3, <3>3 DEF ThreadOK
    <3>5. \A l : ~Holds(k, l)'
      BY <3>2, <3>3, <1>2 DEF Holds
    <3> QED BY <2>1, <3>2, <3>3, <3>4, <3>5, <1>3, ThreadStep
  <2>3. CASE held # <<>>
    <3>1. PICK f, t : f = SubSeq(held, 1, n - 1) /\ t = [s EXCEPT !.held = f]
      OBVIOUS
    <3>2. f \in Seq(Lease) /\ Len(f) = n - 1 /\ \A i \in 1 .. n - 1 : f[i] = held[i]
      BY <3>1, <2>3, <1>1, FrontIs
    <3>3. n > 0 /\ n \in Nat /\ \A i \in 1 .. n - 1 : i \in 1 .. n
      BY <2>3, <1>1
    <3>4. t \in ThreadT /\ t.pc = "leaving" /\ t.kind = s.kind /\ t.held = f
      BY <3>1, <3>2, <2>1, <1>1 DEF ThreadT
    <3>5. thread' = [thread EXCEPT ![k] = t] /\ thread'[k] = t
      BY <1>8, <2>3, <3>1, <1>1 DEF W!Leave, W!Front
    <3>6. ThreadOK(k)'
      <4>1. ThreadFits(t)
        <5>1. Len(f) <= Len(wanted) /\ \A i \in 1 .. Len(f) : f[i] = wanted[i]
          BY <3>2, <3>3, <1>1
        <5> HIDE DEF wanted
        <5> QED BY <5>1, <3>2, <3>4, <1>1 DEF ThreadFits, wanted
      <4> QED BY <4>1, <3>5 DEF ThreadOK
    <3>7. \A l : Holds(k, l)' => Holds(k, l)
      BY <3>2, <3>3, <3>4, <3>5 DEF Holds
    <3> HIDE DEF s, wanted
    <3> QED BY <2>1, <3>4, <3>5, <3>6, <3>7, <1>3, ThreadStep
  <2> QED BY <2>2, <2>3
<1> QED BY <1>4, <1>5, <1>6, <1>7, <1>8

\* A drained gate has no holder.
LEMMA Emptied == ASSUME NEW l, W!Drained(l), NEW k \in Thread PROVE ~Holds(k, l)
  BY DEF W!Drained, W!Contains, Holds

(* Nobody does anything of its own while the lifespan takes down. *)
LEMMA ThreadsStay ==
  ASSUME LifeInv, UNCHANGED <<thread, step, got>>, open' \subseteq open, failed' \subseteq got, accepting' \subseteq accepting
  PROVE  /\ W!TypeOK' /\ thread' \in [Thread -> ThreadT] /\ \A k \in Thread : ThreadOK(k)'
         /\ Quiet <=> Quiet'
         /\ \A k \in Thread : \A l : Holds(k, l) <=> Holds(k, l)'
         /\ W!LifespanAssumption'
<1>1. W!Resource' = W!Resource /\ W!Startup' = W!Startup
  BY DEF W!Resource, W!Startup, W!Range
<1>2. W!TypeOK'
  BY <1>1 DEF LifeInv, W!TypeOK
<1>3. \A k \in Thread : ThreadOK(k)'
  BY DEF LifeInv, ThreadOK
<1> QED BY <1>2, <1>3 DEF LifeInv, Quiet, Holds, W!LifespanAssumption

(* While the stack stays. *)
LEMMA StackStays ==
  ASSUME LifeInv, UNCHANGED <<stack, got>>
  PROVE  StackOK' /\ (\A r : OnStack(r) <=> OnStack(r)') /\ (Draining <=> Draining')
<1>1. W!Resource' = W!Resource
  BY DEF W!Resource, W!Startup, W!Range
<1>2. StackOK'
  BY <1>1 DEF LifeInv, StackOK
<1> QED BY <1>2 DEF OnStack, Draining

\* The shutdown closes a resource.
LEMMA Closes ==
  ASSUME LifeInv, W!Shutdown \/ W!CloseExport \/ W!CloseExecution \/ W!DrainGuard
  PROVE  LifeInv'
<1>1. CASE W!Shutdown
  <2>1. phase = "serving" /\ phase' = "export" /\ UNCHANGED <<open, thread, step, got, stack, failed, accepting, bound, mishaps>>
    BY <1>1 DEF W!Shutdown, W!life
  <2>2. failed \subseteq got
    BY DEF LifeInv, W!TypeOK
  <2>3. StartOK'
    BY <2>1, <2>2, ThreadsStay, StackStays DEF LifeInv, StartOK
  <2>4. OpenOK' /\ InsideOK'
    BY <2>1 DEF LifeInv, OpenOK, InsideOK
  <2>5. ToClose'
    BY <2>1, <2>2, StackStays DEF LifeInv, ToClose
  <2> QED BY <2>1, <2>2, <2>3, <2>4, <2>5, ThreadsStay, StackStays DEF LifeInv
<1>2. CASE W!CloseExport
  <2>1. /\ phase = "export" /\ phase' = "execution" /\ UNCHANGED <<thread, step, got, stack, accepting, bound>>
        /\ \/ open' = open \ {"export"} /\ failed' = failed
           \/ open' = open /\ failed' = failed \cup {"export"} /\ "export" \in open
           \/ open' = open /\ failed' = failed /\ "export" \notin open
    BY <1>2 DEF W!CloseExport, W!CloseFails
  <2>2. failed' \subseteq got /\ open = got
    BY <2>1 DEF LifeInv, W!TypeOK, OpenOK
  <2>3. StartOK'
    BY <2>1, <2>2, ThreadsStay, StackStays DEF LifeInv, StartOK
  <2>4. OpenOK' /\ InsideOK'
    BY <2>1, <2>2 DEF OpenOK, InsideOK
  <2>5. ToClose'
    BY <2>1, <2>2, StackStays DEF LifeInv, ToClose
  <2> QED BY <2>1, <2>2, <2>3, <2>4, <2>5, ThreadsStay, StackStays DEF LifeInv
<1>3. CASE W!CloseExecution
  <2>1. phase = "execution" /\ UNCHANGED <<thread, step, got, stack, failed, bound, mishaps>>
    BY <1>3 DEF W!CloseExecution
  <2>2. failed \subseteq got /\ got \ {"export"} \subseteq open
    BY <2>1 DEF LifeInv, W!TypeOK, OpenOK
  <2>3. CASE accepting' = accepting \ {"owner"} /\ UNCHANGED <<phase, open>>
    <3>1. StartOK'
      BY <2>1, <2>2, <2>3, ThreadsStay, StackStays DEF LifeInv, StartOK
    <3>2. OpenOK' /\ InsideOK'
      BY <2>1, <2>2, <2>3 DEF OpenOK, InsideOK
    <3>3. ToClose'
      BY <2>1, <2>3, StackStays DEF LifeInv, ToClose
    <3> QED BY <2>1, <2>2, <2>3, <3>1, <3>2, <3>3, ThreadsStay, StackStays DEF LifeInv
  <2>4. CASE /\ "owner" \notin accepting /\ W!Drained("owner") /\ W!WorkersEnded
             /\ open' = open \ {"execution"} /\ phase' = "guard" /\ UNCHANGED accepting
    <3>1. StartOK'
      BY <2>1, <2>2, <2>4, ThreadsStay, StackStays DEF LifeInv, StartOK
    <3>2. OpenOK'
      BY <2>1, <2>2, <2>4 DEF OpenOK
    <3>3. ASSUME NEW k \in Thread PROVE thread[k].pc # "work" /\ ~Holds(k, "owner")
      <4>1. ~Holds(k, "owner")
        BY <2>4, Emptied
      <4>2. ASSUME thread[k].pc = "work" PROVE FALSE
        <5>1. thread[k].kind # "execution"
          BY <4>2, <2>4 DEF W!WorkersEnded
        <5>2. ThreadFits(thread[k])
          BY DEF LifeInv, ThreadOK
        <5>3. Len(thread[k].held) = Len(W!Leases[thread[k].kind]) /\ thread[k].kind \in DOMAIN W!Leases
              /\ \A i \in 1 .. Len(thread[k].held) : thread[k].held[i] = W!Leases[thread[k].kind][i]
          BY <4>2, <5>1, <5>2 DEF ThreadFits
        <5>4. PICK i \in 1 .. Len(W!Leases[thread[k].kind]) : W!Leases[thread[k].kind][i] = "owner"
          BY <5>3, LeasesAre
        <5> QED BY <4>1, <5>3, <5>4 DEF Holds
      <4> QED BY <4>1, <4>2
    <3>4. InsideOK'
      BY <2>1, <2>4, <3>3 DEF InsideOK, Holds
    <3>5. ToClose'
      BY <2>1, <2>4, StackStays DEF LifeInv, ToClose
    <3> QED BY <2>1, <2>2, <2>4, <3>1, <3>2, <3>4, <3>5, ThreadsStay, StackStays DEF LifeInv
  <2> QED BY <1>3, <2>3, <2>4 DEF W!CloseExecution
<1>4. CASE W!DrainGuard
  <2>1. phase = "guard" /\ UNCHANGED <<thread, step, got, open, stack, failed, mishaps>>
    BY <1>4 DEF W!DrainGuard
  <2>2. /\ failed \subseteq got /\ got \ {"export", "execution"} \subseteq open
        /\ Quiet \/ "owner" \notin accepting
        /\ \A k \in Thread : thread[k].pc # "work" /\ ~Holds(k, "owner")
        /\ Quiet \/ Draining
    BY <2>1 DEF LifeInv, W!TypeOK, OpenOK, InsideOK, StartOK
  <2>3. CASE accepting' = accepting \ {"run"} /\ UNCHANGED <<phase, bound>>
    <3>0. accepting' \subseteq accepting
      BY <2>3
    <3>1. StartOK'
      BY <2>1, <2>2, <2>3, <3>0, ThreadsStay, StackStays DEF StartOK
    <3>2. OpenOK' /\ InsideOK'
      BY <2>1, <2>2, <2>3, <3>0, ThreadsStay DEF OpenOK, InsideOK
    <3>3. ToClose'
      BY <2>1, <2>3, StackStays DEF LifeInv, ToClose
    <3> QED BY <2>1, <2>2, <2>3, <3>1, <3>2, <3>3, ThreadsStay, StackStays DEF LifeInv
  <2>4. CASE "run" \notin accepting /\ W!Drained("run") /\ phase' = "unwinding" /\ ~bound' /\ UNCHANGED accepting
    <3>1. \A k \in Thread : ~Holds(k, "run")
      BY <2>4, Emptied
    <3>2. OnStack("history_drain") \/ Quiet
      <4> SUFFICES ASSUME Draining PROVE OnStack("history_drain")
        BY <2>2
      <4>1. stack \in Seq(W!Resource \cup {"history_drain"}) /\ Len(stack) \in Nat /\ stack # <<>>
        BY DEF Draining, LifeInv, StackOK
      <4>2. Len(stack) \in 1 .. Len(stack)
        <5> DEFINE T == W!Resource \cup {"history_drain"}
        <5> HIDE DEF T
        <5> QED BY <4>1 DEF T
      <4> QED BY <4>2 DEF Draining, OnStack
    <3>3. Quiet => \A k \in Thread : ~Holds(k, "history")
      <4> SUFFICES ASSUME Quiet, NEW k \in Thread PROVE ~Holds(k, "history")
        OBVIOUS
      <4>1. thread[k].held = <<>>
        BY DEF LifeInv, Quiet, ThreadOK, ThreadFits
      <4> QED BY <4>1 DEF Holds
    <3>4. StartOK' /\ OpenOK'
      BY <2>1, <2>2, <2>4 DEF StartOK, OpenOK
    <3>5. InsideOK'
      <4>1. phase' = "unwinding" /\ UNCHANGED <<thread, accepting, stack>>
        BY <2>1, <2>4
      <4>2. \A k \in Thread : thread'[k].pc = thread[k].pc
        BY <4>1
      <4> QED BY <4>1, <4>2, <2>1, <2>2, <2>4, <3>1, <3>2, <3>3, ThreadsStay, StackStays DEF InsideOK
    <3>6. ToClose'
      BY <2>1, <2>4, StackStays DEF LifeInv, ToClose
    <3> QED BY <2>1, <2>2, <2>4, <3>4, <3>5, <3>6, ThreadsStay, StackStays DEF LifeInv
  <2> QED BY <1>4, <2>3, <2>4 DEF W!DrainGuard
<1> QED BY <1>1, <1>2, <1>3, <1>4

(* One cleanup off the stack: it succeeds, or it raises and is known to have failed. *)
LEMMA Unwinds ==
  ASSUME LifeInv, phase = "unwinding", stack # <<>>, stack' = W!Front(stack),
         UNCHANGED <<phase, step, got, accepting, bound, thread>>, W!Last(stack) # "history_drain",
         W!CloseFails(W!Last(stack))
  PROVE  LifeInv'
<1>1. PICK r : r = W!Last(stack)
  OBVIOUS
<1>2. \/ open' = open \ {r} /\ failed' = failed
      \/ open' = open /\ failed' = failed \cup {r}
  BY <1>1 DEF W!CloseFails
<1>3. /\ r = stack[Len(stack)] /\ r \in got /\ ~OnStack("history_drain") /\ ~OnStack("history_drain")'
      /\ stack' \in Seq(W!Resource \cup {"history_drain"})
      /\ \A i \in 1 .. Len(stack') : stack'[i] = stack[i] /\ stack[i] \in got
      /\ \A x : OnStack(x) => OnStack(x)' \/ x = r
  BY <1>1, Popped DEF LifeInv
<1>4. open' \subseteq open /\ failed' \subseteq got /\ failed \subseteq got
  BY <1>2, <1>3 DEF LifeInv, W!TypeOK
<1>5. StackOK'
  <2>1. W!Resource' = W!Resource
    BY DEF W!Resource, W!Startup, W!Range
  <2>2. \A i \in 1 .. Len(stack') : stack'[i] # "history_drain"
    BY <1>3 DEF OnStack
  <2> QED BY <2>1, <2>2, <1>3 DEF StackOK
<1>6. StartOK' /\ OpenOK'
  BY <1>3 DEF StartOK, OpenOK
<1>7. InsideOK'
  BY <1>3, <1>4, ThreadsStay DEF LifeInv, InsideOK
<1>8. ToClose'
  <2> SUFFICES ASSUME NEW x \in open' \ failed' PROVE OnStack(x)'
    BY DEF ToClose
  <2>1. x \in open \ failed /\ x # r
    BY <1>2, <1>3
  <2> QED BY <2>1, <1>3 DEF LifeInv, ToClose
<1> QED BY <1>4, <1>5, <1>6, <1>7, <1>8, ThreadsStay DEF LifeInv

\* Every step of the lifespan, and a step that changes nothing.
LEMMA LifeNext == LifeInv /\ [W!Next]_(W!vars) => LifeInv'
<1> SUFFICES ASSUME LifeInv, [W!Next]_(W!vars) PROVE LifeInv'
  OBVIOUS
<1>1. CASE W!DrainHistory
  <2>1. phase = "unwinding" /\ stack # <<>> /\ UNCHANGED <<phase, step, got, bound, thread>>
    BY <1>1 DEF W!DrainHistory
  <2>2. CASE accepting' = accepting \ {"history"} /\ UNCHANGED <<open, stack, failed, mishaps>>
    <3>1. failed \subseteq got /\ accepting' \subseteq accepting
      BY <2>2 DEF LifeInv, W!TypeOK
    <3>2. StartOK' /\ OpenOK'
      BY <2>1, <2>2, StackStays DEF LifeInv, StartOK, OpenOK
    <3>3. InsideOK'
      BY <2>1, <2>2, <3>1, ThreadsStay, StackStays DEF LifeInv, InsideOK
    <3>4. ToClose'
      BY <2>1, <2>2, StackStays DEF LifeInv, ToClose
    <3> QED BY <2>1, <2>2, <3>1, <3>2, <3>3, <3>4, ThreadsStay, StackStays DEF LifeInv
  <2>3. CASE stack' = W!Front(stack) /\ W!Last(stack) = "history" /\ W!CloseFails("history") /\ UNCHANGED accepting
    BY <2>1, <2>3, Unwinds
  <2>4. CASE /\ "history" \notin accepting /\ W!Drained("history") /\ stack' = W!Front(stack)
             /\ W!Last(stack) = "history_drain" /\ UNCHANGED <<accepting, open, failed, mishaps>>
    <3>1. /\ ~OnStack("history_drain")'
          /\ stack' \in Seq(W!Resource \cup {"history_drain"})
          /\ \A i \in 1 .. Len(stack') : stack'[i] = stack[i] /\ stack[i] \in got
          /\ \A x : OnStack(x) => OnStack(x)' \/ x = "history_drain"
      BY <2>1, <2>4, Popped DEF LifeInv
    <3>2. failed \subseteq got /\ open \subseteq W!Resource /\ "history_drain" \notin open
      BY ResourceIs DEF LifeInv, W!TypeOK
    <3>3. StackOK'
      <4>1. W!Resource' = W!Resource
        BY DEF W!Resource, W!Startup, W!Range
      <4>2. \A i \in 1 .. Len(stack') : stack'[i] # "history_drain"
        BY <3>1 DEF OnStack
      <4> QED BY <4>1, <4>2, <3>1, <2>1 DEF StackOK
    <3>4. StartOK' /\ OpenOK'
      BY <2>1, <3>1 DEF StartOK, OpenOK
    <3>5. \A k \in Thread : ~Holds(k, "history")
      BY <2>4, Emptied
    <3>6. InsideOK'
      BY <2>1, <2>4, <3>1, <3>2, <3>5, ThreadsStay DEF LifeInv, InsideOK
    <3>7. ToClose'
      BY <2>1, <2>4, <3>1, <3>2 DEF LifeInv, ToClose
    <3> QED BY <2>1, <2>4, <3>2, <3>3, <3>4, <3>6, <3>7, ThreadsStay DEF LifeInv
  <2>5. W!Last(stack) \in {"history_drain", "history"}
    BY <1>1 DEF W!DrainHistory
  <2> QED BY <1>1, <2>2, <2>3, <2>4, <2>5 DEF W!DrainHistory
<1>2. CASE W!Unwind
  BY <1>2, Unwinds DEF W!Unwind
<1>3. CASE W!Exit
  <2>1. /\ phase = "unwinding" /\ stack = <<>> /\ phase' = "down"
        /\ UNCHANGED <<open, thread, step, got, stack, failed, accepting, bound, mishaps>>
    BY <1>3 DEF W!Exit, W!life
  <2>2. failed \subseteq got /\ ~OnStack("history_drain")
    BY <2>1 DEF LifeInv, W!TypeOK, OnStack
  <2>3. StartOK' /\ OpenOK'
    BY <2>1 DEF StartOK, OpenOK
  <2>4. InsideOK'
    BY <2>1, <2>2, ThreadsStay, StackStays DEF LifeInv, InsideOK
  <2>5. ToClose'
    BY <2>1, StackStays DEF LifeInv, ToClose
  <2> QED BY <2>1, <2>2, <2>3, <2>4, <2>5, ThreadsStay, StackStays DEF LifeInv
<1>4. CASE UNCHANGED W!vars
  <2>1. UNCHANGED <<phase, step, got, open, stack, failed, accepting, bound, thread, mishaps>>
    BY <1>4 DEF W!vars
  <2>2. failed \subseteq got
    BY DEF LifeInv, W!TypeOK
  <2>3. StartOK' /\ OpenOK'
    BY <2>1, <2>2, ThreadsStay, StackStays DEF LifeInv, StartOK, OpenOK
  <2>4. InsideOK'
    BY <2>1, <2>2, ThreadsStay, StackStays DEF LifeInv, InsideOK
  <2>5. ToClose'
    BY <2>1, StackStays DEF LifeInv, ToClose
  <2> QED BY <2>1, <2>2, <2>3, <2>4, <2>5, ThreadsStay, StackStays DEF LifeInv
<1> QED BY <1>1, <1>2, <1>3, <1>4, Starts, StartsNot, ThreadsKeep, Closes DEF W!Next

(* However many requests come while the process starts, serves and goes, and whatever fails:
   what a request works with is open, and in the end everything acquired was given back or
   asked to go. (create_runtime, lifespan, register_cleanup) *)
THEOREM LifespanIsOrderly == W!LifespanAssumption /\ W!Spec => []W!LifespanHolds
<1>1. LifeInv /\ [W!Next]_(W!vars) => LifeInv'
  BY LifeNext
<1>2. W!LifespanAssumption /\ W!Spec => []LifeInv
  BY LifeInit, <1>1, PTL DEF W!Spec
<1> QED BY <1>2, LifeSays, PTL

-----------------------------------------------------------------------------
(***************************************************************************)
(* RagPublish.  A builder owns what it has created: no other builder takes *)
(* a name that is there, and each removes only what is its own.            *)
(***************************************************************************)
RunFields == {"pc", "id", "facts", "kind", "created", "staged", "moved"}
Alive == R!Busy \cup {"undo", "published"}
Filled(b, k) == collection[build[b].id][k] = R!BuildDocuments(Facts[build[b].facts])[k]
Manifest(b) == [facts |-> build[b].facts]

Accepted == {i \in DOMAIN Facts : R!LoadFacts(Facts[i]) /\ R!BuildRelationshipGraph(Facts[i])}

BuildTypes ==
  /\ build = [b \in Builder |-> build[b]]
  /\ \A b \in Builder :
       /\ build[b] = [f \in RunFields |-> build[b][f]]
       /\ build[b].pc \in R!Busy \cup {"idle", "undo", "published", "failed", "dead"}
       /\ build[b].kind \in 1..Kinds /\ build[b].created \subseteq 1..Kinds
       /\ build[b].staged \in BOOLEAN /\ build[b].moved \in BOOLEAN

StoreTypes ==
  /\ source \in DOMAIN Facts
  /\ collection \in [BuildId -> [1..Kinds -> Nat \cup {None}]]
  /\ staging = [i \in BuildId |-> staging[i]]
  /\ final \in [BuildId -> {None} \cup [facts : DOMAIN Facts]]

ReaderTypes ==
  /\ current \in BuildId \cup {None} /\ cache \subseteq BuildId
  /\ reader \in [Reader -> [pc : {"idle", "read", "serving", "unavailable"}, id : BuildId \cup {None}]]
  /\ \A q \in Reader : reader[q].pc = "read" => reader[q].id # None

\* What a builder holds has been made by it and is there; which collections are filled.
BuildStage(b) ==
  LET r == build[b] IN
  /\ r.id \in BuildId /\ r.facts \in Accepted
  /\ r.pc \in {"look", "claim"} => r.created = {} /\ r.kind = 1 /\ ~r.staged /\ ~r.moved
  /\ r.pc \in {"create", "upsert", "validate", "manifest", "move"} => r.staged /\ ~r.moved
  /\ r.pc \in {"point", "published"} => r.moved
  /\ r.pc = "create" => r.created = 1..(r.kind - 1)
  /\ r.pc \in {"upsert", "validate"} => r.created = 1..r.kind
  /\ r.pc \in {"manifest", "move", "point", "published"} => r.created = 1..Kinds

BuildHolds(b) ==
  LET r == build[b] IN
  /\ \A k \in r.created : collection[r.id][k] # None
  /\ r.staged => staging[r.id] # None
  /\ r.moved => final[r.id] # None
  /\ r.pc \in {"create", "upsert", "validate"} => \A k \in 1..(r.kind - 1) : Filled(b, k)
  /\ r.pc \in {"manifest", "move", "point", "published"} => \A k \in 1..Kinds : Filled(b, k)
  /\ r.pc = "move" => staging[r.id] = Manifest(b)
  /\ r.pc \in {"point", "published"} => final[r.id] = Manifest(b)

BuildsApart(b, d) ==
  build[b].id = build[d].id =>
    /\ build[b].created \cap build[d].created = {}
    /\ ~(build[b].staged /\ build[d].staged) /\ ~(build[b].moved /\ build[d].moved)

Handed == ({current} \cup cache \cup {reader[q].id : q \in Reader}) \ {None}
Published(i) == \E b \in Builder : build[b].pc = "published" /\ build[b].id = i

RagInv ==
  /\ R!RagAssumption /\ BuildTypes /\ StoreTypes /\ ReaderTypes
  /\ \A b \in Builder : build[b].pc = "idle" =>
       build[b].created = {} /\ build[b].kind = 1 /\ ~build[b].staged /\ ~build[b].moved
  /\ \A b \in Builder : build[b].pc \in Alive => BuildStage(b) /\ BuildHolds(b)
  /\ \A b, d \in Builder : b # d /\ build[b].pc \in Alive /\ build[d].pc \in Alive => BuildsApart(b, d)
  /\ \A i \in Handed : Published(i)

Same(d) ==
  LET r == build[d] IN
  /\ \A k \in r.created : collection'[r.id][k] = collection[r.id][k]
  /\ r.staged => staging'[r.id] = staging[r.id]
  /\ r.moved => final'[r.id] = final[r.id]

\* A column that a metric's time path names is one column of one table.
LEMMA OneColumn ==
  ASSUME NEW f, R!NormalizeColumns(f), NEW ref, R!ResolveColumnReference(f, ref)
  PROVE  \E c \in R!Members(f.columns) : {d \in R!Members(f.columns) : R!Names(ref, d) /\ d.column = ref.column} = {c}
<1> DEFINE C == {c \in R!Members(f.columns) : R!Names(ref, c) /\ c.column = ref.column}
<1>1. PICK t \in R!Members(f.tables) :
        /\ {u \in R!Members(f.tables) : R!Names(ref, u)} = {t}
        /\ R!KnownColumn(f, t, ref.column)
  BY DEF R!ResolveColumnReference
<1>2. R!Names(ref, t)
  BY <1>1
<1>3. PICK c \in R!Members(f.columns) : c.schema = t.schema /\ c.table = t.table /\ c.column = ref.column
  BY <1>1 DEF R!KnownColumn
<1>4. c \in C
  BY <1>2, <1>3 DEF R!Names
<1>5. ASSUME NEW d \in C PROVE d = c
  <2>1. PICK u \in R!Members(f.tables) : d.schema = u.schema /\ d.table = u.table
    BY DEF R!NormalizeColumns
  <2>2. R!Names(ref, u)
    BY <2>1 DEF R!Names
  <2>3. u = t
    BY <2>2, <1>1
  <2>4. d.schema = c.schema /\ d.table = c.table /\ d.column = c.column
    BY <2>1, <2>3, <1>3
  <2>5. PICK i \in DOMAIN f.columns : d = f.columns[i]
    BY DEF R!Members
  <2>6. PICK j \in DOMAIN f.columns : c = f.columns[j]
    BY <1>3 DEF R!Members
  <2>7. i = j
    BY <2>4, <2>5, <2>6 DEF R!NormalizeColumns, R!Distinct
  <2> QED BY <2>5, <2>6, <2>7
<1>6. C = {c}
  BY <1>4, <1>5
<1> QED BY <1>6, <1>3

\* Facts that are accepted are usable.
LEMMA AcceptedIsUsable ==
  ASSUME NEW f, R!LoadFacts(f), R!BuildRelationshipGraph(f)
  PROVE  R!FactsUsable(f)
<1>1. ASSUME NEW r \in R!Members(f.relationships), r.kind = "foreign_key"
      PROVE  \E k \in R!Members(f.relationships) :
               k.kind \in {"primary_key", "unique_constraint"} /\ k.of = r.to /\ k.columns = r.toColumns
  <2>1. r.toColumns \in R!CollectKeyConstraints(f, r.to)
    BY <1>1 DEF R!BuildRelationshipGraph
  <2> QED BY <2>1 DEF R!CollectKeyConstraints
<1>2. ASSUME NEW m \in R!Members(f.metrics), NEW i \in DOMAIN m.time
      PROVE  \E c \in R!Members(f.columns) :
               {d \in R!Members(f.columns) : R!Names(m.time[i], d) /\ d.column = m.time[i].column} = {c}
  <2>1. R!ResolveColumnReference(f, m.time[i]) /\ R!NormalizeColumns(f)
    BY DEF R!LoadFacts, R!NormalizeMetrics
  <2> QED BY <2>1, OneColumn
<1> QED BY <1>1, <1>2 DEF R!FactsUsable

\* Which facts are accepted is no matter of state.
LEMMA AcceptedStays == Accepted' = Accepted
  BY DEF Accepted, R!LoadFacts, R!NormalizeTables, R!NormalizeColumns, R!NormalizeMetrics,
         R!Distinct, R!Members, R!Names, R!KnownColumn, R!ResolveColumnReference,
         R!BuildRelationshipGraph, R!CollectKeyConstraints, R!ColumnsExist

\* Nothing is built yet.
LEMMA RagInit == R!RagAssumption /\ R!Init => RagInv
<1> SUFFICES ASSUME R!RagAssumption, R!Init PROVE RagInv
  OBVIOUS
<1>1. BuildTypes
  <2>1. build = [b \in Builder |-> R!NoBuild] /\ Kinds \in 1..3
    BY DEF R!Init, R!RagAssumption
  <2>2. R!NoBuild = [f \in RunFields |-> R!NoBuild[f]]
    BY DEF R!NoBuild, RunFields
  <2>3. /\ R!NoBuild.pc = "idle" /\ R!NoBuild.kind = 1 /\ R!NoBuild.created = {}
        /\ R!NoBuild.staged = FALSE /\ R!NoBuild.moved = FALSE
    BY DEF R!NoBuild
  <2>4. PICK z : z = R!NoBuild
    OBVIOUS
  <2>5. build = [b \in Builder |-> z] /\ z = [f \in RunFields |-> z[f]]
    BY <2>1, <2>2, <2>4
  <2>6. build = [b \in Builder |-> build[b]] /\ \A b \in Builder : build[b] = z
    BY <2>5
  <2>7. /\ z.pc \in R!Busy \cup {"idle", "undo", "published", "failed", "dead"}
        /\ z.kind \in 1..Kinds /\ z.created \subseteq 1..Kinds /\ z.staged \in BOOLEAN /\ z.moved \in BOOLEAN
    <3>1. z.pc = "idle" /\ z.kind = 1 /\ z.created = {} /\ z.staged = FALSE /\ z.moved = FALSE
      BY <2>3, <2>4
    <3>2. 1 \in 1..Kinds
      BY <2>1
    <3> QED BY <3>1, <3>2
  <2>8. ASSUME NEW b \in Builder
        PROVE  /\ build[b] = [f \in RunFields |-> build[b][f]]
               /\ build[b].pc \in R!Busy \cup {"idle", "undo", "published", "failed", "dead"}
               /\ build[b].kind \in 1..Kinds /\ build[b].created \subseteq 1..Kinds
               /\ build[b].staged \in BOOLEAN /\ build[b].moved \in BOOLEAN
    <3>1. build[b] = z
      BY <2>6
    <3> QED BY <3>1, <2>5, <2>7
  <2> QED BY <2>6, <2>8 DEF BuildTypes
<1>2. StoreTypes /\ ReaderTypes
  BY DEF StoreTypes, ReaderTypes, R!Init, R!RagAssumption
<1>3. \A b \in Builder : build[b].pc = "idle" /\ build[b].created = {} /\ build[b].kind = 1
                         /\ ~build[b].staged /\ ~build[b].moved
  BY DEF R!Init, R!NoBuild
<1>4. Handed = {}
  BY DEF Handed, R!Init
<1> QED BY <1>1, <1>2, <1>3, <1>4 DEF RagInv, Alive, R!Busy

\* What the invariant says of what is handed out.
LEMMA RagSays == RagInv => R!TypeOK /\ R!PublishedIsWhole
<1> SUFFICES ASSUME RagInv PROVE R!TypeOK /\ R!PublishedIsWhole
  OBVIOUS
<1>1. R!TypeOK
  BY DEF RagInv, BuildTypes, StoreTypes, ReaderTypes, R!TypeOK
<1>2. ASSUME NEW i \in Handed
      PROVE  /\ final[i] # None /\ R!FactsUsable(Facts[final[i].facts])
             /\ \A k \in 1..Kinds : collection[i][k] = R!BuildDocuments(Facts[final[i].facts])[k]
  <2>1. PICK b \in Builder : build[b].pc = "published" /\ build[b].id = i
    BY DEF RagInv, Published
  <2>2. BuildStage(b) /\ BuildHolds(b)
    BY <2>1 DEF RagInv, Alive
  <2>3. final[i] = [facts |-> build[b].facts] /\ build[b].facts \in DOMAIN Facts
    BY <2>1, <2>2 DEF BuildStage, BuildHolds, Manifest, Accepted
  <2>4. final[i] # None /\ final[i].facts = build[b].facts
    BY <2>3 DEF RagInv, R!RagAssumption
  <2>5. R!FactsUsable(Facts[build[b].facts])
    BY <2>2, AcceptedIsUsable DEF BuildStage, Accepted
  <2>6. \A k \in 1..Kinds : collection[i][k] = R!BuildDocuments(Facts[build[b].facts])[k]
    BY <2>1, <2>2 DEF BuildHolds, Filled
  <2> QED BY <2>4, <2>5, <2>6
<1> QED BY <1>1, <1>2 DEF R!PublishedIsWhole, Handed

\* Some fields of a build are set.
LEMMA SetIs ==
  ASSUME BuildTypes, NEW b \in Builder, NEW ch, R!Set(b, ch)
  PROVE  /\ build'[b] = [f \in RunFields |-> IF f \in DOMAIN ch THEN ch[f] ELSE build[b][f]]
         /\ \A d \in Builder \ {b} : build'[d] = build[d]
         /\ build' = [d \in Builder |-> build'[d]]
<1>1. DOMAIN build[b] = RunFields /\ build = [d \in Builder |-> build[d]]
  BY DEF BuildTypes
<1>2. build' = [build EXCEPT ![b] = [f \in DOMAIN build[b] |-> IF f \in DOMAIN ch THEN ch[f] ELSE build[b][f]]]
  BY DEF R!Set
<1> QED BY <1>1, <1>2

\* A step of one builder, seen by the rest.
LEMMA RagStep ==
  ASSUME RagInv, NEW b \in Builder, build[b].pc # "published",
         UNCHANGED <<cache, reader>>, BuildTypes', StoreTypes', build'[b].pc # "idle",
         \A d \in Builder \ {b} : build'[d] = build[d] /\ (build[d].pc \in Alive => Same(d)),
         build'[b].pc \in Alive =>
           /\ BuildStage(b)' /\ BuildHolds(b)'
           /\ \A d \in Builder \ {b} : build[d].pc \in Alive => BuildsApart(b, d)',
         \/ UNCHANGED current
         \/ build'[b].pc = "published" /\ build'[b].id = current' /\ current' \in BuildId
  PROVE  RagInv'
<1>1. R!RagAssumption' /\ ReaderTypes'
  BY DEF RagInv, ReaderTypes, R!RagAssumption
<1>2. ASSUME NEW d \in Builder \ {b}, build[d].pc \in Alive PROVE BuildStage(d)' /\ BuildHolds(d)'
  <2>1. build'[d] = build[d] /\ Same(d) /\ BuildStage(d) /\ BuildHolds(d)
    BY <1>2 DEF RagInv
  <2>2. BuildStage(d)'
    BY <2>1, AcceptedStays DEF BuildStage
  <2>3. build[d].kind \in 1..Kinds /\ Kinds \in 1..3
    BY DEF RagInv, BuildTypes, R!RagAssumption
  <2>4. build[d].pc \in {"create", "upsert", "validate"} => 1..(build[d].kind - 1) \subseteq build[d].created
    BY <2>1, <2>3 DEF BuildStage
  <2>5. \A k : Filled(d, k) /\ collection'[build[d].id][k] = collection[build[d].id][k] => Filled(d, k)'
    BY <2>1 DEF Filled, R!BuildDocuments
  <2>6. /\ \A k \in build[d].created : collection'[build[d].id][k] # None
        /\ build[d].staged => staging'[build[d].id] # None
        /\ build[d].moved => final'[build[d].id] # None
    BY <2>1 DEF BuildHolds, Same
  <2>7. /\ build[d].pc \in {"create", "upsert", "validate"} => \A k \in 1..(build[d].kind - 1) : Filled(d, k)'
        /\ build[d].pc \in {"manifest", "move", "point", "published"} => \A k \in 1..Kinds : Filled(d, k)'
    BY <2>1, <2>4, <2>5 DEF BuildHolds, Same, BuildStage
  <2>8. /\ build[d].pc = "move" => staging'[build[d].id] = Manifest(d)'
        /\ build[d].pc \in {"point", "published"} => final'[build[d].id] = Manifest(d)'
    BY <2>1 DEF BuildHolds, Same, BuildStage, Manifest
  <2>9. BuildHolds(d)'
    BY <2>1, <2>6, <2>7, <2>8 DEF BuildHolds
  <2> QED BY <2>2, <2>9
<1>3. ASSUME NEW d \in Builder, NEW e \in Builder, d # e, build'[d].pc \in Alive, build'[e].pc \in Alive
      PROVE  BuildsApart(d, e)'
  <2>1. CASE d # b /\ e # b
    BY <2>1, <1>3 DEF RagInv, BuildsApart
  <2>2. CASE d = b
    BY <2>2, <1>3
  <2>3. CASE e = b
    BY <2>3, <1>3 DEF BuildsApart
  <2> QED BY <2>1, <2>2, <2>3
<1>4. ASSUME NEW i \in Handed' PROVE Published(i)'
  <2>1. i \in Handed \/ (i = current' /\ ~UNCHANGED current)
    BY DEF Handed
  <2>2. ASSUME i \in Handed PROVE Published(i)'
    BY <2>2 DEF RagInv, Published
  <2>3. ASSUME i = current', ~UNCHANGED current PROVE Published(i)'
    BY <2>3 DEF Published
  <2> QED BY <2>1, <2>2, <2>3
<1>5. \A d \in Builder : build'[d].pc \in Alive => BuildStage(d)' /\ BuildHolds(d)'
  BY <1>2
<1>6. \A d \in Builder : build'[d].pc = "idle" => build'[d].created = {} /\ build'[d].kind = 1
                                                  /\ ~build'[d].staged /\ ~build'[d].moved
  BY DEF RagInv
<1> QED BY <1>1, <1>3, <1>4, <1>5, <1>6 DEF RagInv, Alive, R!Busy

BuildPcs == R!Busy \cup {"idle", "undo", "published", "failed", "dead"}

\* What is set fits, and the rest is as it was.
LEMMA SetFits ==
  ASSUME BuildTypes, NEW b \in Builder, NEW ch, R!Set(b, ch),
         build'[b].pc \in BuildPcs, build'[b].kind \in 1..Kinds, build'[b].created \subseteq 1..Kinds,
         build'[b].staged \in BOOLEAN, build'[b].moved \in BOOLEAN
  PROVE  BuildTypes'
<1>1. /\ build'[b] = [f \in RunFields |-> IF f \in DOMAIN ch THEN ch[f] ELSE build[b][f]]
      /\ \A d \in Builder \ {b} : build'[d] = build[d]
      /\ build' = [d \in Builder |-> build'[d]]
  BY SetIs
<1>2. build'[b] = [f \in RunFields |-> build'[b][f]]
  BY <1>1
<1>3. \A d \in Builder \ {b} : build'[d] = [f \in RunFields |-> build'[d][f]]
  BY <1>1 DEF BuildTypes
<1>4. ASSUME NEW d \in Builder \ {b}
      PROVE  /\ build'[d].pc \in BuildPcs /\ build'[d].kind \in 1..Kinds /\ build'[d].created \subseteq 1..Kinds
             /\ build'[d].staged \in BOOLEAN /\ build'[d].moved \in BOOLEAN
  <2>1. build'[d] = build[d]
    BY <1>1
  <2> QED BY <2>1 DEF BuildTypes, BuildPcs
<1>5. build' = [d \in Builder |-> build'[d]]
  BY <1>1
<1> HIDE DEF RunFields
<1>6. BuildPcs' = BuildPcs /\ RunFields' = RunFields
  BY DEF BuildPcs, R!Busy, RunFields
<1>7. BuildTypes' <=>
        /\ build' = [d \in Builder |-> build'[d]]
        /\ \A d \in Builder :
             /\ build'[d] = [f \in RunFields |-> build'[d][f]]
             /\ build'[d].pc \in BuildPcs
             /\ build'[d].kind \in 1..Kinds /\ build'[d].created \subseteq 1..Kinds
             /\ build'[d].staged \in BOOLEAN /\ build'[d].moved \in BOOLEAN
  BY DEF BuildTypes, BuildPcs, R!Busy, RunFields
<1> QED BY <1>2, <1>3, <1>4, <1>5, <1>7

\* The fields of a build that goes on to another stage.
LEMMA GotoIs ==
  ASSUME BuildTypes, NEW b \in Builder, NEW pc \in BuildPcs, R!Goto(b, pc)
  PROVE  /\ BuildTypes' /\ \A d \in Builder \ {b} : build'[d] = build[d]
         /\ build'[b].pc = pc /\ build'[b].id = build[b].id /\ build'[b].facts = build[b].facts
         /\ build'[b].kind = build[b].kind /\ build'[b].created = build[b].created
         /\ build'[b].staged = build[b].staged /\ build'[b].moved = build[b].moved
<1>1. R!Set(b, [pc |-> pc])
  BY DEF R!Goto
<1>2. /\ build'[b] = [f \in RunFields |-> IF f \in DOMAIN [pc |-> pc] THEN [pc |-> pc][f] ELSE build[b][f]]
      /\ \A d \in Builder \ {b} : build'[d] = build[d]
  BY <1>1, SetIs
<1>3. /\ build'[b].pc = pc /\ build'[b].id = build[b].id /\ build'[b].facts = build[b].facts
      /\ build'[b].kind = build[b].kind /\ build'[b].created = build[b].created
      /\ build'[b].staged = build[b].staged /\ build'[b].moved = build[b].moved
  BY <1>2 DEF RunFields
<1>4. /\ build[b].kind \in 1..Kinds /\ build[b].created \subseteq 1..Kinds
      /\ build[b].staged \in BOOLEAN /\ build[b].moved \in BOOLEAN
  BY DEF BuildTypes
<1>5. BuildTypes'
  <2>1. /\ build'[b].kind \in 1..Kinds /\ build'[b].created \subseteq 1..Kinds
        /\ build'[b].staged \in BOOLEAN /\ build'[b].moved \in BOOLEAN /\ build'[b].pc \in BuildPcs
    BY <1>3, <1>4
  <2> QED BY <1>1, <2>1, SetFits
<1> QED BY <1>2, <1>3, <1>5

\* A collection is as full as before where neither it nor its builder has changed.
LEMMA FilledStays ==
  ASSUME NEW b \in Builder, build'[b].id = build[b].id, build'[b].facts = build[b].facts,
         NEW k, collection'[build[b].id][k] = collection[build[b].id][k]
  PROVE  Filled(b, k) <=> Filled(b, k)'
BY DEF Filled, R!BuildDocuments

Stores == <<source, collection, staging, final, current, cache, reader>>

\* A builder that changes nothing but its own stage.
LEMMA GoesOn ==
  ASSUME RagInv, NEW b \in Builder, NEW pc \in {"claim", "manifest", "undo", "dead"},
         R!Goto(b, pc), UNCHANGED Stores, build[b].pc \in R!Busy \cup {"undo"},
         pc = "claim" => build[b].pc = "look",
         pc = "manifest" => build[b].pc = "validate" /\ build[b].kind = Kinds /\ Filled(b, Kinds)
  PROVE  RagInv'
<1>0. pc \in BuildPcs /\ build[b].pc \in Alive /\ build[b].pc # "published"
  BY DEF BuildPcs, Alive, R!Busy
<1>1. /\ BuildTypes' /\ \A d \in Builder \ {b} : build'[d] = build[d]
      /\ build'[b].pc = pc /\ build'[b].id = build[b].id /\ build'[b].facts = build[b].facts
      /\ build'[b].kind = build[b].kind /\ build'[b].created = build[b].created
      /\ build'[b].staged = build[b].staged /\ build'[b].moved = build[b].moved
  BY <1>0, GotoIs DEF RagInv
<1>2. StoreTypes' /\ UNCHANGED <<cache, reader, current>>
  BY DEF RagInv, StoreTypes, Stores
<1>3. \A d \in Builder : Same(d)
  BY DEF Same, Stores
<1>4. BuildStage(b) /\ BuildHolds(b)
  BY <1>0 DEF RagInv
<1>5. Kinds \in 1..3 /\ build[b].kind \in 1..Kinds
  BY DEF RagInv, BuildTypes, R!RagAssumption
<1>6. BuildStage(b)'
  BY <1>1, <1>4, <1>5, AcceptedStays DEF BuildStage
<1>7. BuildHolds(b)'
  <2>1. \A k : Filled(b, k) <=> Filled(b, k)'
    BY <1>1, FilledStays DEF Stores
  <2>2. /\ \A k \in build[b].created : collection[build[b].id][k] # None
        /\ build[b].staged => staging[build[b].id] # None
        /\ build[b].moved => final[build[b].id] # None
    BY <1>4 DEF BuildHolds
  <2>3. ASSUME pc = "manifest", NEW k \in 1..Kinds PROVE Filled(b, k)'
    <3>1. build[b].pc = "validate" /\ build[b].kind = Kinds /\ Filled(b, Kinds)
      BY <2>3
    <3>2. k \in 1..(build[b].kind - 1) \/ k = Kinds
      BY <3>1, <1>5
    <3>3. Filled(b, k)
      BY <3>1, <3>2, <1>4 DEF BuildHolds
    <3> QED BY <3>3, <2>1
  <2> QED BY <1>1, <2>2, <2>3 DEF BuildHolds, Stores
<1>8. \A d \in Builder \ {b} : build[d].pc \in Alive => BuildsApart(b, d)'
  BY <1>0, <1>1 DEF RagInv, BuildsApart
<1> QED BY <1>0, <1>1, <1>2, <1>3, <1>6, <1>7, <1>8, RagStep

\* The facts are read and accepted, or refused.
LEMMA Loads == ASSUME RagInv, NEW b \in Builder, R!Load(b) PROVE RagInv'
<1>1. PICK i \in BuildId :
        R!Set(b, [id |-> i, facts |-> source,
                  pc |-> IF R!LoadFacts(Facts[source]) /\ R!BuildRelationshipGraph(Facts[source])
                           THEN "look" ELSE "failed"])
  BY DEF R!Load
<1>2. build[b].pc = "idle" /\ UNCHANGED <<collection, staging, final, current, source, cache, reader, faults>>
  BY DEF R!Load, R!Files, R!World
<1>3. PICK pc : pc = IF R!LoadFacts(Facts[source]) /\ R!BuildRelationshipGraph(Facts[source]) THEN "look" ELSE "failed"
  OBVIOUS
<1>4. /\ build'[b] = [f \in RunFields |-> IF f \in DOMAIN [id |-> i, facts |-> source, pc |-> pc]
                                            THEN [id |-> i, facts |-> source, pc |-> pc][f] ELSE build[b][f]]
      /\ \A d \in Builder \ {b} : build'[d] = build[d]
  BY <1>1, <1>3, SetIs DEF RagInv
<1>5. /\ build'[b].pc = pc /\ build'[b].id = i /\ build'[b].facts = source
      /\ build'[b].kind = build[b].kind /\ build'[b].created = build[b].created
      /\ build'[b].staged = build[b].staged /\ build'[b].moved = build[b].moved
  BY <1>4 DEF RunFields
<1>6. build[b].created = {} /\ build[b].kind = 1 /\ ~build[b].staged /\ ~build[b].moved
  BY <1>2 DEF RagInv
<1>7. /\ build[b].kind \in 1..Kinds /\ build[b].created \subseteq 1..Kinds
      /\ build[b].staged \in BOOLEAN /\ build[b].moved \in BOOLEAN
  BY DEF RagInv, BuildTypes
<1>8. BuildTypes'
  <2>1. pc \in BuildPcs
    BY <1>3 DEF BuildPcs, R!Busy
  <2>2. R!Set(b, [id |-> i, facts |-> source, pc |-> pc])
    BY <1>1, <1>3
  <2>3. /\ build'[b].kind \in 1..Kinds /\ build'[b].created \subseteq 1..Kinds
        /\ build'[b].staged \in BOOLEAN /\ build'[b].moved \in BOOLEAN /\ build'[b].pc \in BuildPcs
    BY <2>1, <1>5, <1>7
  <2> QED BY <2>2, <2>3, SetFits DEF RagInv
<1>9. StoreTypes'
  BY <1>2 DEF RagInv, StoreTypes
<1>10. \A d \in Builder : Same(d)
  BY <1>2 DEF Same
<1>11. ASSUME build'[b].pc \in Alive
       PROVE  /\ BuildStage(b)' /\ BuildHolds(b)'
              /\ \A d \in Builder \ {b} : build[d].pc \in Alive => BuildsApart(b, d)'
  <2>1. pc = "look" /\ source \in Accepted
    <3>1. pc = "look" \/ pc = "failed"
      BY <1>3
    <3>2. pc # "failed"
      BY <1>5, <1>11 DEF Alive, R!Busy
    <3>3. source \in DOMAIN Facts
      BY DEF RagInv, StoreTypes
    <3> QED BY <3>1, <3>2, <3>3, <1>3 DEF Accepted
  <2>2. BuildStage(b)'
    BY <2>1, <1>5, <1>6, AcceptedStays DEF BuildStage
  <2>3. BuildHolds(b)'
    BY <2>1, <1>5, <1>6 DEF BuildHolds
  <2>4. \A d \in Builder \ {b} : BuildsApart(b, d)'
    BY <1>5, <1>6 DEF BuildsApart
  <2> QED BY <2>2, <2>3, <2>4
<1>12. pc # "idle"
  BY <1>3
<1> QED BY <1>2, <1>4, <1>5, <1>8, <1>9, <1>10, <1>11, <1>12, RagStep

\* The staging directory is made where there is none.
LEMMA MakesStaging == ASSUME RagInv, NEW b \in Builder, R!MakeStaging(b) PROVE RagInv'
<1>1. build[b].pc = "claim" /\ UNCHANGED <<collection, final, current, source, cache, reader, faults>>
  BY DEF R!MakeStaging, R!World
<1>2. CASE R!Goto(b, "undo") /\ UNCHANGED staging
  BY <1>1, <1>2, GoesOn DEF Stores, R!Busy
<1>3. CASE /\ staging[build[b].id] = None /\ staging' = [staging EXCEPT ![build[b].id] = "empty"]
           /\ R!Set(b, [pc |-> "create", staged |-> TRUE])
  <2>1. /\ build'[b] = [f \in RunFields |-> IF f \in DOMAIN [pc |-> "create", staged |-> TRUE]
                                              THEN [pc |-> "create", staged |-> TRUE][f] ELSE build[b][f]]
        /\ \A d \in Builder \ {b} : build'[d] = build[d]
    BY <1>3, SetIs DEF RagInv
  <2>2. /\ build'[b].pc = "create" /\ build'[b].id = build[b].id /\ build'[b].facts = build[b].facts
        /\ build'[b].kind = build[b].kind /\ build'[b].created = build[b].created
        /\ build'[b].staged = TRUE /\ build'[b].moved = build[b].moved
    BY <2>1 DEF RunFields
  <2>3. BuildStage(b) /\ BuildHolds(b) /\ build[b].pc \in Alive
    BY <1>1 DEF RagInv, Alive, R!Busy
  <2>4. build[b].created = {} /\ build[b].kind = 1 /\ ~build[b].staged /\ ~build[b].moved /\ build[b].id \in BuildId
    BY <2>3, <1>1 DEF BuildStage
  <2>5. BuildTypes'
    <3>1. /\ build[b].kind \in 1..Kinds /\ build[b].created \subseteq 1..Kinds /\ build[b].moved \in BOOLEAN
      BY DEF RagInv, BuildTypes
    <3>2. /\ build'[b].kind \in 1..Kinds /\ build'[b].created \subseteq 1..Kinds
          /\ build'[b].staged \in BOOLEAN /\ build'[b].moved \in BOOLEAN /\ build'[b].pc \in BuildPcs
      BY <3>1, <2>2 DEF BuildPcs, R!Busy
    <3> QED BY <1>3, <3>2, SetFits DEF RagInv
  <2>6. StoreTypes' /\ staging'[build[b].id] = "empty"
    BY <1>1, <1>3, <2>4 DEF RagInv, StoreTypes
  <2>7. ASSUME NEW d \in Builder \ {b}, build[d].pc \in Alive PROVE Same(d)
    <3>1. build[d].staged => staging[build[d].id] # None
      BY <2>7 DEF RagInv, BuildHolds
    <3> QED BY <3>1, <1>1, <1>3 DEF Same, RagInv, StoreTypes
  <2>8. BuildStage(b)'
    BY <2>2, <2>3, <2>4, AcceptedStays DEF BuildStage
  <2>9. BuildHolds(b)'
    BY <2>2, <2>4, <2>6 DEF BuildHolds, RagInv, R!RagAssumption
  <2>10. ASSUME NEW d \in Builder \ {b}, build[d].pc \in Alive PROVE BuildsApart(b, d)'
    <3>1. build[d].staged => staging[build[d].id] # None
      BY <2>10 DEF RagInv, BuildHolds
    <3> QED BY <3>1, <2>1, <2>2, <2>4, <1>3 DEF BuildsApart
  <2> QED BY <1>1, <2>1, <2>2, <2>5, <2>6, <2>7, <2>8, <2>9, <2>10, RagStep
<1> QED BY <1>2, <1>3 DEF R!MakeStaging, R!Id

\* A collection is created where there is none.
LEMMA Creates == ASSUME RagInv, NEW b \in Builder, R!CreateCollection(b) PROVE RagInv'
<1> DEFINE i == build[b].id
           n == build[b].kind
<1>1. build[b].pc = "create" /\ UNCHANGED <<staging, final, current, source, cache, reader, faults>>
  BY DEF R!CreateCollection, R!World, R!Files
<1>2. CASE R!Goto(b, "undo") /\ UNCHANGED collection
  BY <1>1, <1>2, GoesOn DEF Stores, R!Busy
<1>3. CASE /\ collection[i][n] = None /\ collection' = [collection EXCEPT ![i][n] = 0]
           /\ R!Set(b, [pc |-> "upsert", created |-> build[b].created \cup {n}])
  <2> DEFINE ch == [pc |-> "upsert", created |-> build[b].created \cup {n}]
  <2>1. /\ build'[b] = [f \in RunFields |-> IF f \in DOMAIN ch THEN ch[f] ELSE build[b][f]]
        /\ \A d \in Builder \ {b} : build'[d] = build[d]
    BY <1>3, SetIs DEF RagInv
  <2>2. /\ build'[b].pc = "upsert" /\ build'[b].id = i /\ build'[b].facts = build[b].facts
        /\ build'[b].kind = n /\ build'[b].created = build[b].created \cup {n}
        /\ build'[b].staged = build[b].staged /\ build'[b].moved = build[b].moved
    BY <2>1 DEF RunFields
  <2>3. BuildStage(b) /\ BuildHolds(b) /\ build[b].pc \in Alive
    BY <1>1 DEF RagInv, Alive, R!Busy
  <2>4. build[b].created = 1..(n - 1) /\ build[b].staged /\ ~build[b].moved /\ i \in BuildId /\ n \in 1..Kinds /\ Kinds \in 1..3
    BY <2>3, <1>1 DEF BuildStage, RagInv, BuildTypes, R!RagAssumption
  <2>5. BuildTypes'
    <3>1. /\ build[b].kind \in 1..Kinds /\ build[b].created \subseteq 1..Kinds
          /\ build[b].moved \in BOOLEAN /\ build[b].staged \in BOOLEAN
      BY DEF RagInv, BuildTypes
    <3>2. /\ build'[b].kind \in 1..Kinds /\ build'[b].created \subseteq 1..Kinds
          /\ build'[b].staged \in BOOLEAN /\ build'[b].moved \in BOOLEAN /\ build'[b].pc \in BuildPcs
      BY <3>1, <2>2 DEF BuildPcs, R!Busy
    <3> QED BY <1>3, <3>2, SetFits DEF RagInv
  <2>6. /\ StoreTypes' /\ collection'[i][n] = 0
        /\ \A j \in BuildId, k \in 1..Kinds : j # i \/ k # n => collection'[j][k] = collection[j][k]
    BY <1>1, <1>3, <2>4 DEF RagInv, StoreTypes
  <2>7. ASSUME NEW d \in Builder \ {b}, build[d].pc \in Alive
        PROVE  Same(d) /\ (build[d].id = i => n \notin build[d].created)
    <3>1. /\ \A k \in build[d].created : collection[build[d].id][k] # None
          /\ build[d].id \in BuildId /\ build[d].created \subseteq 1..Kinds
      BY <2>7 DEF RagInv, BuildHolds, BuildStage, BuildTypes
    <3>2. build[d].id = i => n \notin build[d].created
      BY <3>1, <1>3
    <3> QED BY <3>1, <3>2, <2>6, <1>1 DEF Same
  <2>8. BuildStage(b)'
    <3>1. build'[b].created = 1..n
      BY <2>2, <2>4
    <3> QED BY <3>1, <2>2, <2>3, <2>4, AcceptedStays DEF BuildStage
  <2>9. BuildHolds(b)'
    <3>1. \A k \in 1..(n - 1) : k \in 1..Kinds /\ k # n /\ collection'[i][k] = collection[i][k]
      BY <2>4, <2>6
    <3>2. \A k \in 1..(n - 1) : Filled(b, k)'
      BY <3>1, <2>2, <2>3, <1>1, FilledStays DEF BuildHolds
    <3>3. \A k \in build'[b].created : collection'[i][k] # None
      BY <2>2, <2>3, <2>4, <2>6, <3>1 DEF BuildHolds, RagInv, R!RagAssumption
    <3> QED BY <3>2, <3>3, <1>1, <2>2, <2>3 DEF BuildHolds
  <2>10. ASSUME NEW d \in Builder \ {b}, build[d].pc \in Alive PROVE BuildsApart(b, d)'
    <3>1. BuildsApart(b, d)
      BY <2>10, <2>3 DEF RagInv
    <3> QED BY <3>1, <2>1, <2>2, <2>7, <2>10 DEF BuildsApart
  <2> QED BY <1>1, <2>1, <2>2, <2>5, <2>6, <2>7, <2>8, <2>9, <2>10, RagStep
<1> QED BY <1>2, <1>3 DEF R!CreateCollection, R!Id

\* A builder fills the collection it has created, and no other.
LEMMA Upserts == ASSUME RagInv, NEW b \in Builder, R!UpsertDocuments(b) PROVE RagInv'
<1> DEFINE i == build[b].id
           n == build[b].kind
<1>1. build[b].pc = "upsert" /\ UNCHANGED <<staging, final, current, source, cache, reader, faults>>
  BY DEF R!UpsertDocuments, R!World, R!Files
<1>2. CASE R!Goto(b, "undo") /\ UNCHANGED collection
  BY <1>1, <1>2, GoesOn DEF Stores, R!Busy
<1>3. CASE collection' = [collection EXCEPT ![i][n] = R!Count(b)] /\ R!Goto(b, "validate")
  <2>1. /\ BuildTypes' /\ \A d \in Builder \ {b} : build'[d] = build[d]
        /\ build'[b].pc = "validate" /\ build'[b].id = i /\ build'[b].facts = build[b].facts
        /\ build'[b].kind = n /\ build'[b].created = build[b].created
        /\ build'[b].staged = build[b].staged /\ build'[b].moved = build[b].moved
    BY <1>3, GotoIs DEF RagInv, BuildPcs, R!Busy
  <2>2. BuildStage(b) /\ BuildHolds(b) /\ build[b].pc \in Alive
    BY <1>1 DEF RagInv, Alive, R!Busy
  <2>3. build[b].created = 1..n /\ build[b].staged /\ ~build[b].moved /\ i \in BuildId /\ n \in 1..Kinds /\ Kinds \in 1..3
    BY <2>2, <1>1 DEF BuildStage, RagInv, BuildTypes, R!RagAssumption
  <2>4. R!Count(b) \in Nat
    <3>1. build[b].facts \in DOMAIN Facts
      BY <2>2 DEF BuildStage, Accepted
    <3>2. PICK f : f = Facts[build[b].facts]
      OBVIOUS
    <3>3. Len(f.tables) \in Nat /\ Len(f.columns) \in Nat /\ Len(f.metrics) \in Nat
      BY <3>1, <3>2 DEF RagInv, R!RagAssumption
    <3>4. R!Count(b) = <<Len(f.tables), Len(f.columns), Len(f.metrics)>>[n]
      BY <3>2 DEF R!Count, R!BuildDocuments
    <3>5. n = 1 \/ n = 2 \/ n = 3
      BY <2>3
    <3> QED BY <3>3, <3>4, <3>5
  <2>5. /\ StoreTypes' /\ collection'[i][n] = R!Count(b)
        /\ \A j \in BuildId, k \in 1..Kinds : j # i \/ k # n => collection'[j][k] = collection[j][k]
    BY <1>1, <1>3, <2>3, <2>4 DEF RagInv, StoreTypes
  <2>6. ASSUME NEW d \in Builder \ {b}, build[d].pc \in Alive PROVE Same(d) /\ BuildsApart(b, d)
    <3>1. BuildsApart(b, d) /\ build[d].id \in BuildId /\ build[d].created \subseteq 1..Kinds
      BY <2>6, <2>2 DEF RagInv, BuildStage, BuildTypes
    <3>2. build[d].id = i => n \notin build[d].created
      BY <3>1, <2>3 DEF BuildsApart
    <3> QED BY <3>1, <3>2, <2>5, <1>1 DEF Same
  <2>7. BuildStage(b)'
    BY <2>1, <2>2, <2>3, <1>1, AcceptedStays DEF BuildStage
  <2>8. BuildHolds(b)'
    <3>1. \A k \in 1..(n - 1) : k \in 1..Kinds /\ k # n /\ collection'[i][k] = collection[i][k]
      BY <2>3, <2>5
    <3>2. \A k \in 1..(n - 1) : Filled(b, k)'
      BY <3>1, <2>1, <2>2, <1>1, FilledStays DEF BuildHolds
    <3>3. \A k \in build'[b].created : collection'[i][k] # None
      BY <2>1, <2>2, <2>3, <2>4, <2>5, <3>1 DEF BuildHolds, RagInv, R!RagAssumption
    <3> QED BY <3>2, <3>3, <1>1, <2>1, <2>2 DEF BuildHolds
  <2>9. \A d \in Builder \ {b} : build[d].pc \in Alive => BuildsApart(b, d)'
    BY <2>1, <2>6 DEF BuildsApart
  <2> QED BY <1>1, <2>1, <2>5, <2>6, <2>7, <2>8, <2>9, RagStep
<1> QED BY <1>2, <1>3 DEF R!UpsertDocuments, R!Id

\* A collection counts when it holds what was put into it; the next one, or the manifest.
LEMMA Validates == ASSUME RagInv, NEW b \in Builder, R!ValidateCollection(b) PROVE RagInv'
<1> DEFINE i == build[b].id
           n == build[b].kind
<1>1. build[b].pc = "validate" /\ UNCHANGED Stores
  BY DEF R!ValidateCollection, R!World, R!Files, Stores
<1>2. n \in 1..Kinds /\ Kinds \in 1..3
  BY DEF RagInv, BuildTypes, R!RagAssumption
<1>3. CASE R!Goto(b, "undo")
  BY <1>1, <1>3, GoesOn DEF R!Busy
<1>4. CASE collection[i][n] = R!Count(b) /\ ~(n < Kinds) /\ R!Goto(b, "manifest")
  <2>1. n = Kinds /\ Filled(b, n)
    BY <1>2, <1>4 DEF Filled, R!Count
  <2> QED BY <2>1, <1>1, <1>4, GoesOn DEF R!Busy
<1>5. CASE collection[i][n] = R!Count(b) /\ n < Kinds /\ R!Set(b, [pc |-> "create", kind |-> n + 1])
  <2> DEFINE ch == [pc |-> "create", kind |-> n + 1]
  <2>1. /\ build'[b] = [f \in RunFields |-> IF f \in DOMAIN ch THEN ch[f] ELSE build[b][f]]
        /\ \A d \in Builder \ {b} : build'[d] = build[d]
    BY <1>5, SetIs DEF RagInv
  <2>2. /\ build'[b].pc = "create" /\ build'[b].id = i /\ build'[b].facts = build[b].facts
        /\ build'[b].kind = n + 1 /\ build'[b].created = build[b].created
        /\ build'[b].staged = build[b].staged /\ build'[b].moved = build[b].moved
    BY <2>1 DEF RunFields
  <2>3. BuildStage(b) /\ BuildHolds(b) /\ build[b].pc \in Alive
    BY <1>1 DEF RagInv, Alive, R!Busy
  <2>4. BuildTypes'
    <3>1. /\ build[b].created \subseteq 1..Kinds /\ build[b].moved \in BOOLEAN /\ build[b].staged \in BOOLEAN
      BY DEF RagInv, BuildTypes
    <3>2. /\ build'[b].kind \in 1..Kinds /\ build'[b].created \subseteq 1..Kinds
          /\ build'[b].staged \in BOOLEAN /\ build'[b].moved \in BOOLEAN /\ build'[b].pc \in BuildPcs
      BY <3>1, <2>2, <1>2, <1>5 DEF BuildPcs, R!Busy
    <3> QED BY <1>5, <3>2, SetFits DEF RagInv
  <2>5. StoreTypes' /\ UNCHANGED <<cache, reader, current>> /\ \A d \in Builder : Same(d)
    BY <1>1 DEF RagInv, StoreTypes, Stores, Same
  <2>6. BuildStage(b)'
    BY <2>2, <2>3, <1>1, <1>2, AcceptedStays DEF BuildStage
  <2>7. BuildHolds(b)'
    <3>1. \A k \in 1..n : Filled(b, k)
      <4>1. Filled(b, n)
        BY <1>5 DEF Filled, R!Count
      <4>2. \A k \in 1..n : k \in 1..(n - 1) \/ k = n
        BY <1>2
      <4> QED BY <4>1, <4>2, <1>1, <2>3 DEF BuildHolds
    <3>2. build'[b].kind - 1 = n
      BY <1>2, <2>2
    <3>3. \A k \in 1..n : Filled(b, k)'
      BY <3>1, <1>1, <2>2, FilledStays DEF Stores
    <3>4. \A k \in 1..(build'[b].kind - 1) : Filled(b, k)'
      BY <3>2, <3>3
    <3>5. /\ \A k \in build'[b].created : collection'[build'[b].id][k] # None
          /\ build'[b].staged => staging'[build'[b].id] # None
          /\ build'[b].moved => final'[build'[b].id] # None
      BY <2>2, <2>3, <1>1 DEF BuildHolds, Stores
    <3> QED BY <3>4, <3>5, <2>2 DEF BuildHolds
  <2>8. \A d \in Builder \ {b} : build[d].pc \in Alive => BuildsApart(b, d)'
    BY <2>1, <2>2, <2>3 DEF RagInv, BuildsApart
  <2> QED BY <1>1, <2>1, <2>2, <2>4, <2>5, <2>6, <2>7, <2>8, RagStep
<1> QED BY <1>3, <1>4, <1>5 DEF R!ValidateCollection, R!Id

\* The manifest names the facts of the build.
LEMMA WritesManifest == ASSUME RagInv, NEW b \in Builder, R!WriteManifest(b) PROVE RagInv'
<1> DEFINE i == build[b].id
<1>1. /\ build[b].pc = "manifest" /\ UNCHANGED <<collection, final, current, source, cache, reader, faults>>
      /\ R!Goto(b, "move") /\ staging' = [staging EXCEPT ![i] = [facts |-> build[b].facts]]
  BY DEF R!WriteManifest, R!World, R!Id
<1>2. /\ BuildTypes' /\ \A d \in Builder \ {b} : build'[d] = build[d]
      /\ build'[b].pc = "move" /\ build'[b].id = i /\ build'[b].facts = build[b].facts
      /\ build'[b].kind = build[b].kind /\ build'[b].created = build[b].created
      /\ build'[b].staged = build[b].staged /\ build'[b].moved = build[b].moved
  BY <1>1, GotoIs DEF RagInv, BuildPcs, R!Busy
<1>3. BuildStage(b) /\ BuildHolds(b) /\ build[b].pc \in Alive
  BY <1>1 DEF RagInv, Alive, R!Busy
<1>4. build[b].staged /\ ~build[b].moved /\ build[b].created = 1..Kinds /\ i \in BuildId /\ build[b].facts \in DOMAIN Facts
  BY <1>1, <1>3 DEF BuildStage, Accepted
<1>5. /\ StoreTypes' /\ staging'[i] = [facts |-> build[b].facts]
      /\ \A j \in BuildId : j # i => staging'[j] = staging[j]
  BY <1>1, <1>4 DEF RagInv, StoreTypes
<1>6. ASSUME NEW d \in Builder \ {b}, build[d].pc \in Alive PROVE Same(d) /\ BuildsApart(b, d)
  <2>1. BuildsApart(b, d) /\ build[d].id \in BuildId
    BY <1>6, <1>3 DEF RagInv, BuildStage
  <2>2. build[d].staged => build[d].id # i
    BY <2>1, <1>4 DEF BuildsApart
  <2> QED BY <2>1, <2>2, <1>5, <1>1 DEF Same
<1>7. BuildStage(b)'
  BY <1>2, <1>3, <1>4, AcceptedStays DEF BuildStage
<1>8. BuildHolds(b)'
  <2>1. \A k \in 1..Kinds : Filled(b, k)'
    BY <1>1, <1>2, <1>3, FilledStays DEF BuildHolds
  <2>2. staging'[i] # None /\ staging'[i] = Manifest(b)'
    BY <1>2, <1>4, <1>5 DEF Manifest, RagInv, R!RagAssumption
  <2>3. \A k \in build'[b].created : collection'[i][k] # None
    BY <1>1, <1>2, <1>3 DEF BuildHolds
  <2> QED BY <2>1, <2>2, <2>3, <1>2, <1>4 DEF BuildHolds
<1>9. \A d \in Builder \ {b} : build[d].pc \in Alive => BuildsApart(b, d)'
  BY <1>2, <1>6 DEF BuildsApart
<1> QED BY <1>1, <1>2, <1>5, <1>6, <1>7, <1>8, <1>9, RagStep

\* The staging directory becomes the build.
LEMMA MovesToFinal == ASSUME RagInv, NEW b \in Builder, R!MoveToFinal(b) PROVE RagInv'
<1> DEFINE i == build[b].id
<1>1. build[b].pc = "move" /\ UNCHANGED <<collection, current, source, cache, reader, faults>>
  BY DEF R!MoveToFinal, R!World
<1>2. CASE R!Goto(b, "undo") /\ UNCHANGED <<final, staging>>
  BY <1>1, <1>2, GoesOn DEF Stores, R!Busy
<1>3. CASE /\ final[i] = None /\ final' = [final EXCEPT ![i] = staging[i]] /\ staging' = [staging EXCEPT ![i] = None]
           /\ R!Set(b, [pc |-> "point", staged |-> FALSE, moved |-> TRUE])
  <2> DEFINE ch == [pc |-> "point", staged |-> FALSE, moved |-> TRUE]
  <2>1. /\ build'[b] = [f \in RunFields |-> IF f \in DOMAIN ch THEN ch[f] ELSE build[b][f]]
        /\ \A d \in Builder \ {b} : build'[d] = build[d]
    BY <1>3, SetIs DEF RagInv
  <2>2. /\ build'[b].pc = "point" /\ build'[b].id = i /\ build'[b].facts = build[b].facts
        /\ build'[b].kind = build[b].kind /\ build'[b].created = build[b].created
        /\ build'[b].staged = FALSE /\ build'[b].moved = TRUE
    BY <2>1 DEF RunFields
  <2>3. BuildStage(b) /\ BuildHolds(b) /\ build[b].pc \in Alive
    BY <1>1 DEF RagInv, Alive, R!Busy
  <2>4. /\ build[b].staged /\ ~build[b].moved /\ build[b].created = 1..Kinds /\ i \in BuildId
        /\ build[b].facts \in DOMAIN Facts /\ staging[i] = [facts |-> build[b].facts]
    BY <1>1, <2>3 DEF BuildStage, BuildHolds, Manifest, Accepted
  <2>5. BuildTypes'
    <3>1. /\ build[b].kind \in 1..Kinds /\ build[b].created \subseteq 1..Kinds
      BY DEF RagInv, BuildTypes
    <3>2. /\ build'[b].kind \in 1..Kinds /\ build'[b].created \subseteq 1..Kinds
          /\ build'[b].staged \in BOOLEAN /\ build'[b].moved \in BOOLEAN /\ build'[b].pc \in BuildPcs
      BY <3>1, <2>2 DEF BuildPcs, R!Busy
    <3> QED BY <1>3, <3>2, SetFits DEF RagInv
  <2>6. /\ StoreTypes' /\ final'[i] = [facts |-> build[b].facts]
        /\ \A j \in BuildId : j # i => staging'[j] = staging[j] /\ final'[j] = final[j]
    BY <1>1, <1>3, <2>4 DEF RagInv, StoreTypes
  <2>7. ASSUME NEW d \in Builder \ {b}, build[d].pc \in Alive
        PROVE  Same(d) /\ BuildsApart(b, d) /\ (build[d].id = i => ~build[d].moved)
    <3>1. BuildsApart(b, d) /\ BuildHolds(d) /\ build[d].id \in BuildId
      BY <2>7, <2>3 DEF RagInv, BuildStage
    <3>2. build[d].id = i => ~build[d].staged /\ ~build[d].moved
      BY <3>1, <2>4, <1>3 DEF BuildsApart, BuildHolds
    <3> QED BY <3>1, <3>2, <2>6, <1>1 DEF Same
  <2>8. BuildStage(b)'
    BY <2>2, <2>3, <2>4, AcceptedStays DEF BuildStage
  <2>9. BuildHolds(b)'
    <3>1. \A k \in 1..Kinds : Filled(b, k)'
      BY <1>1, <2>2, <2>3, FilledStays DEF BuildHolds
    <3>2. final'[i] # None /\ final'[i] = Manifest(b)'
      BY <2>2, <2>4, <2>6 DEF Manifest, RagInv, R!RagAssumption
    <3>3. \A k \in build'[b].created : collection'[i][k] # None
      BY <1>1, <2>2, <2>3 DEF BuildHolds
    <3> QED BY <3>1, <3>2, <3>3, <2>2 DEF BuildHolds
  <2>10. \A d \in Builder \ {b} : build[d].pc \in Alive => BuildsApart(b, d)'
    BY <2>1, <2>2, <2>7 DEF BuildsApart
  <2> QED BY <1>1, <2>1, <2>2, <2>5, <2>6, <2>7, <2>8, <2>9, <2>10, RagStep
<1> QED BY <1>2, <1>3 DEF R!MoveToFinal, R!Id

\* The pointer names a build that is whole.
LEMMA WritesPointer == ASSUME RagInv, NEW b \in Builder, R!WritePointer(b) PROVE RagInv'
<1>1. /\ build[b].pc = "point" /\ UNCHANGED <<collection, staging, final, source, cache, reader, faults>>
      /\ R!Goto(b, "published") /\ current' = build[b].id
  BY DEF R!WritePointer, R!World, R!Id
<1>2. /\ BuildTypes' /\ \A d \in Builder \ {b} : build'[d] = build[d]
      /\ build'[b].pc = "published" /\ build'[b].id = build[b].id /\ build'[b].facts = build[b].facts
      /\ build'[b].kind = build[b].kind /\ build'[b].created = build[b].created
      /\ build'[b].staged = build[b].staged /\ build'[b].moved = build[b].moved
  BY <1>1, GotoIs DEF RagInv, BuildPcs
<1>3. BuildStage(b) /\ BuildHolds(b) /\ build[b].pc \in Alive
  BY <1>1 DEF RagInv, Alive, R!Busy
<1>4. StoreTypes' /\ \A d \in Builder : Same(d)
  BY <1>1 DEF RagInv, StoreTypes, Same
<1>5. BuildStage(b)' /\ build[b].id \in BuildId
  BY <1>1, <1>2, <1>3, AcceptedStays DEF BuildStage
<1>6. BuildHolds(b)'
  <2>1. \A k \in 1..Kinds : Filled(b, k)'
    BY <1>1, <1>2, <1>3, FilledStays DEF BuildHolds
  <2>2. final'[build[b].id] = Manifest(b)'
    BY <1>1, <1>2, <1>3 DEF BuildHolds, Manifest
  <2>3. /\ \A k \in build'[b].created : collection'[build[b].id][k] # None
        /\ build'[b].staged => staging'[build[b].id] # None
        /\ build'[b].moved => final'[build[b].id] # None
    BY <1>1, <1>2, <1>3 DEF BuildHolds
  <2> QED BY <2>1, <2>2, <2>3, <1>2 DEF BuildHolds
<1>7. \A d \in Builder \ {b} : build[d].pc \in Alive => BuildsApart(b, d)'
  BY <1>2, <1>3 DEF RagInv, BuildsApart
<1> QED BY <1>1, <1>2, <1>4, <1>5, <1>6, <1>7, RagStep

\* A builder that gives up deletes the collections it has created.
LEMMA Deletes == ASSUME RagInv, NEW b \in Builder, R!DeleteCreated(b) PROVE RagInv'
<1> DEFINE i == build[b].id
           C == build[b].created
<1>1. /\ build[b].pc = "undo" /\ C # {} /\ UNCHANGED <<staging, final, current, source, cache, reader>>
  BY DEF R!DeleteCreated, R!CreatedCollections, R!World, R!Files
<1>2. PICK n : n = R!Max(C)
  OBVIOUS
<1>3. /\ R!Set(b, [created |-> C \ {n}])
      /\ collection' = [collection EXCEPT ![i][n] = None] \/ UNCHANGED collection
  BY <1>2 DEF R!DeleteCreated, R!CreatedCollections, R!Id
<1>4. /\ build[b].kind \in 1..Kinds /\ C \subseteq 1..Kinds /\ Kinds \in 1..3
      /\ build[b].staged \in BOOLEAN /\ build[b].moved \in BOOLEAN
  BY DEF RagInv, BuildTypes, R!RagAssumption
<1>5. n \in C
  <2>1. \E x \in C : \A y \in C : x >= y
    <3>1. C \subseteq {1, 2, 3}
      BY <1>4
    <3>2. CASE 3 \in C
      BY <3>1, <3>2
    <3>3. CASE 3 \notin C /\ 2 \in C
      BY <3>1, <3>3
    <3>4. CASE 3 \notin C /\ 2 \notin C
      BY <3>1, <3>4, <1>1
    <3> QED BY <3>2, <3>3, <3>4
  <2> QED BY <2>1, <1>2 DEF R!Max
<1> DEFINE ch == [created |-> C \ {n}]
<1>6. /\ build'[b] = [f \in RunFields |-> IF f \in DOMAIN ch THEN ch[f] ELSE build[b][f]]
      /\ \A d \in Builder \ {b} : build'[d] = build[d]
  BY <1>3, SetIs DEF RagInv
<1>7. /\ build'[b].pc = "undo" /\ build'[b].id = i /\ build'[b].facts = build[b].facts
      /\ build'[b].kind = build[b].kind /\ build'[b].created = C \ {n}
      /\ build'[b].staged = build[b].staged /\ build'[b].moved = build[b].moved
  BY <1>1, <1>6 DEF RunFields
<1>8. BuildTypes'
  <2>1. /\ build'[b].kind \in 1..Kinds /\ build'[b].created \subseteq 1..Kinds
        /\ build'[b].staged \in BOOLEAN /\ build'[b].moved \in BOOLEAN /\ build'[b].pc \in BuildPcs
    BY <1>4, <1>7 DEF BuildPcs
  <2> QED BY <1>3, <2>1, SetFits DEF RagInv
<1>9. BuildStage(b) /\ BuildHolds(b) /\ build[b].pc \in Alive
  BY <1>1 DEF RagInv, Alive
<1>10. i \in BuildId
  BY <1>9 DEF BuildStage
<1>11. /\ StoreTypes'
       /\ \A j \in BuildId, k \in 1..Kinds : j # i \/ k # n => collection'[j][k] = collection[j][k]
  <2>1. collection \in [BuildId -> [1..Kinds -> Nat \cup {None}]] /\ n \in 1..Kinds
    BY <1>4, <1>5 DEF RagInv, StoreTypes
  <2>2. CASE collection' = [collection EXCEPT ![i][n] = None]
    <3>1. /\ collection' \in [BuildId -> [1..Kinds -> Nat \cup {None}]]
          /\ \A j \in BuildId, k \in 1..Kinds : j # i \/ k # n => collection'[j][k] = collection[j][k]
      BY <2>1, <2>2, <1>10
    <3> QED BY <3>1, <1>1 DEF RagInv, StoreTypes
  <2>3. CASE UNCHANGED collection
    BY <2>3, <1>1 DEF RagInv, StoreTypes
  <2> QED BY <2>2, <2>3, <1>3
<1>12. ASSUME NEW d \in Builder \ {b}, build[d].pc \in Alive PROVE Same(d) /\ BuildsApart(b, d)
  <2>1. BuildsApart(b, d) /\ build[d].id \in BuildId /\ build[d].created \subseteq 1..Kinds
    BY <1>12, <1>9 DEF RagInv, BuildStage, BuildTypes
  <2>2. build[d].id = i => n \notin build[d].created
    BY <2>1, <1>5 DEF BuildsApart
  <2> QED BY <2>1, <2>2, <1>11, <1>1 DEF Same
<1>13. BuildStage(b)'
  BY <1>7, <1>9, <1>10, AcceptedStays DEF BuildStage
<1>14. BuildHolds(b)'
  <2>1. \A k \in build'[b].created : collection'[i][k] = collection[i][k]
    BY <1>4, <1>7, <1>10, <1>11
  <2> QED BY <2>1, <1>1, <1>7, <1>9 DEF BuildHolds
<1>15. \A d \in Builder \ {b} : build[d].pc \in Alive => BuildsApart(b, d)'
  BY <1>6, <1>7, <1>12 DEF BuildsApart
<1> QED BY <1>1, <1>6, <1>7, <1>8, <1>11, <1>12, <1>13, <1>14, <1>15, RagStep

\* Then the directories it has made.
LEMMA RemovesDirectories == ASSUME RagInv, NEW b \in Builder, R!RemoveDirectories(b) PROVE RagInv'
<1> DEFINE i == build[b].id
<1>1. /\ build[b].pc = "undo" /\ UNCHANGED <<collection, current, source, cache, reader, faults>>
      /\ R!Goto(b, "failed")
      /\ staging' = IF build[b].staged THEN [staging EXCEPT ![i] = None] ELSE staging
      /\ final' = IF build[b].moved THEN [final EXCEPT ![i] = None] ELSE final
  BY DEF R!RemoveDirectories, R!World, R!Id
<1>2. /\ BuildTypes' /\ \A d \in Builder \ {b} : build'[d] = build[d]
      /\ build'[b].pc = "failed"
  BY <1>1, GotoIs DEF RagInv, BuildPcs
<1>3. BuildStage(b) /\ BuildHolds(b) /\ build[b].pc \in Alive
  BY <1>1 DEF RagInv, Alive
<1>4. /\ StoreTypes'
      /\ \A j \in BuildId : /\ j # i \/ ~build[b].staged => staging'[j] = staging[j]
                            /\ j # i \/ ~build[b].moved => final'[j] = final[j]
  <2>1. i \in BuildId
    BY <1>3 DEF BuildStage
  <2>2. /\ staging' = [j \in BuildId |-> staging'[j]]
        /\ \A j \in BuildId : j # i \/ ~build[b].staged => staging'[j] = staging[j]
    BY <1>1, <2>1 DEF RagInv, StoreTypes
  <2>3. /\ final' \in [BuildId -> {None} \cup [facts : DOMAIN Facts]]
        /\ \A j \in BuildId : j # i \/ ~build[b].moved => final'[j] = final[j]
    BY <1>1, <2>1 DEF RagInv, StoreTypes
  <2> QED BY <2>2, <2>3, <1>1 DEF RagInv, StoreTypes
<1>5. ASSUME NEW d \in Builder \ {b}, build[d].pc \in Alive PROVE Same(d)
  <2>1. BuildsApart(b, d) /\ build[d].id \in BuildId
    BY <1>5, <1>3 DEF RagInv, BuildStage
  <2> QED BY <2>1, <1>1, <1>4 DEF Same, BuildsApart
<1>6. build'[b].pc \notin Alive
  BY <1>2 DEF Alive, R!Busy
<1> QED BY <1>1, <1>2, <1>4, <1>5, <1>6, RagStep

\* A call of a builder fails, or the builder dies.
LEMMA Breaks == ASSUME RagInv, NEW b \in Builder, R!StepFails(b) \/ R!Die(b) PROVE RagInv'
<1>1. CASE R!StepFails(b)
  BY <1>1, GoesOn DEF R!StepFails, R!Files, R!World, Stores
<1>2. CASE R!Die(b)
  BY <1>2, GoesOn DEF R!Die, R!Files, R!World, Stores
<1> QED BY <1>1, <1>2

\* The builders and their stores are left alone.
LEMMA BuildersStay ==
  ASSUME RagInv, UNCHANGED <<collection, staging, final, build>>, source' \in DOMAIN Facts, ReaderTypes',
         \A i \in Handed' : i \in Handed
  PROVE  RagInv'
<1>1. R!RagAssumption'
  BY DEF RagInv, R!RagAssumption
<1>2. BuildTypes' /\ StoreTypes'
  BY DEF RagInv, BuildTypes, StoreTypes, R!Busy
<1>3. \A b \in Builder : build[b].pc = "idle" =>
         build[b].created = {} /\ build[b].kind = 1 /\ ~build[b].staged /\ ~build[b].moved
  BY DEF RagInv
<1>4. ASSUME NEW b \in Builder, build[b].pc \in Alive PROVE BuildStage(b)' /\ BuildHolds(b)'
  <2>1. BuildStage(b) /\ BuildHolds(b)
    BY <1>4 DEF RagInv
  <2>2. \A k : Filled(b, k) <=> Filled(b, k)'
    BY FilledStays
  <2> QED BY <2>1, <2>2, AcceptedStays DEF BuildStage, BuildHolds, Manifest
<1>5. \A b, d \in Builder : b # d /\ build[b].pc \in Alive /\ build[d].pc \in Alive => BuildsApart(b, d)'
  BY DEF RagInv, BuildsApart
<1>6. \A i \in Handed' : Published(i)'
  BY DEF RagInv, Published
<1> QED BY <1>1, <1>2, <1>3, <1>4, <1>5, <1>6 DEF RagInv, Alive, R!Busy

\* A reader takes what is current, or has what is kept.
LEMMA Reads ==
  ASSUME RagInv, NEW q \in Reader, R!ReadPublished(q) \/ R!GetSnapshot(q) \/ R!Answer(q)
  PROVE  RagInv'
<1>1. UNCHANGED <<source, collection, staging, final, current, build>> /\ source \in DOMAIN Facts
  BY DEF R!ReadPublished, R!GetSnapshot, R!Answer, R!Files, RagInv, StoreTypes
<1>2. /\ reader \in [Reader -> [pc : {"idle", "read", "serving", "unavailable"}, id : BuildId \cup {None}]]
      /\ current \in BuildId \cup {None} /\ cache \subseteq BuildId
      /\ \A r \in Reader : reader[r].pc = "read" => reader[r].id # None
  BY DEF RagInv, ReaderTypes
<1>3. PICK pc \in {"idle", "read", "serving", "unavailable"}, i \in {None, current, reader[q].id} :
        /\ reader' = [reader EXCEPT ![q] = [pc |-> pc, id |-> i]]
        /\ pc = "read" => i # None
        /\ cache' \in {cache, {}, cache \cup ({reader[q].id} \ {None})}
  <2>1. CASE R!ReadPublished(q)
    BY <2>1 DEF R!ReadPublished, R!SetReader
  <2>2. CASE R!GetSnapshot(q)
    BY <2>2, <1>2 DEF R!GetSnapshot, R!SetReader
  <2>3. CASE R!Answer(q)
    BY <2>3 DEF R!Answer, R!SetReader
  <2> QED BY <2>1, <2>2, <2>3
<1>4. /\ reader'[q] = [pc |-> pc, id |-> i]
      /\ \A r \in Reader \ {q} : reader'[r] = reader[r]
  BY <1>2, <1>3
<1>5. reader[q].id \in BuildId \cup {None}
  BY <1>2
<1>6. reader' \in [Reader -> [pc : {"idle", "read", "serving", "unavailable"}, id : BuildId \cup {None}]]
  BY <1>2, <1>3, <1>5
<1>7. ReaderTypes'
  BY <1>1, <1>2, <1>3, <1>4, <1>5, <1>6 DEF ReaderTypes
<1>8. ASSUME NEW j \in Handed' PROVE j \in Handed
  <2>1. j # None /\ (j = current \/ j \in cache' \/ \E r \in Reader : j = reader'[r].id)
    BY <1>1 DEF Handed
  <2>2. j = current \/ j \in cache \/ \E r \in Reader : j = reader[r].id
    BY <2>1, <1>3, <1>4
  <2> QED BY <2>1, <2>2 DEF Handed
<1> QED BY <1>1, <1>7, <1>8, BuildersStay

\* Every step, and a step that changes nothing.
LEMMA RagNext == RagInv /\ [R!Next]_(R!vars) => RagInv'
<1> SUFFICES ASSUME RagInv, [R!Next]_(R!vars) PROVE RagInv'
  OBVIOUS
<1>1. CASE R!ExportFacts
  <2>1. UNCHANGED <<collection, staging, final, build, current, cache, reader>> /\ source < Len(Facts) /\ source' = source + 1
    BY <1>1 DEF R!ExportFacts
  <2>2. source' \in DOMAIN Facts
    BY <2>1 DEF RagInv, StoreTypes, R!RagAssumption
  <2> QED BY <2>1, <2>2, BuildersStay DEF RagInv, ReaderTypes, Handed
<1>2. CASE UNCHANGED R!vars
  BY <1>2, BuildersStay DEF R!vars, RagInv, StoreTypes, ReaderTypes, Handed
<1>3. CASE \E b \in Builder :
             \/ R!Load(b) \/ R!LookForDirectory(b) \/ R!MakeStaging(b) \/ R!CreateCollection(b)
             \/ R!UpsertDocuments(b) \/ R!ValidateCollection(b) \/ R!WriteManifest(b) \/ R!MoveToFinal(b)
             \/ R!WritePointer(b) \/ R!StepFails(b) \/ R!DeleteCreated(b) \/ R!RemoveDirectories(b) \/ R!Die(b)
  <2>1. ASSUME NEW b \in Builder, R!LookForDirectory(b) PROVE RagInv'
    <3>1. /\ build[b].pc = "look" /\ UNCHANGED Stores
          /\ R!Goto(b, "claim") \/ R!Goto(b, "undo")
      BY <2>1 DEF R!LookForDirectory, R!Files, R!World, Stores
    <3> QED BY <3>1, GoesOn DEF R!Busy
  <2> QED BY <1>3, <2>1, Loads, MakesStaging, Creates, Upserts, Validates, WritesManifest, MovesToFinal,
             WritesPointer, Deletes, RemovesDirectories, Breaks
<1>4. CASE \E q \in Reader : R!ReadPublished(q) \/ R!GetSnapshot(q) \/ R!Answer(q)
  BY <1>4, Reads
<1> QED BY <1>1, <1>2, <1>3, <1>4 DEF R!Next

(* Whatever number of builds run beside each other, under the same build id too, and whatever
   fails: what the pointer names, and what the API keeps or hands out, is a whole build of
   usable facts, and stays it. (build_rag_assets, load_published_asset, RagRuntime.get_snapshot) *)
THEOREM PublishedStaysWhole == R!RagAssumption /\ R!Spec => []R!PublishedIsWhole
<1>1. RagInv /\ [R!Next]_(R!vars) => RagInv'
  BY RagNext
<1>2. R!RagAssumption /\ R!Spec => []RagInv
  BY RagInit, <1>1, PTL DEF R!Spec
<1> QED BY <1>2, RagSays, PTL
-----------------------------------------------------------------------------
(***************************************************************************)
(* ExportRuntime.  A request that holds a slot has an account of its own.  *)
(***************************************************************************)
JobFields == {"pc", "owner", "format", "life", "cancelled", "late", "exit"}
Holding == X!Working \cup {"pinned"}
JobPcs == Holding \cup {"idle", "prepared", "over"}
OnDisk == {"register", "wait", "collect", "clean", "artifact", "verify", "sending", "finish", "pinned"}
RtType == [initialized : BOOLEAN, closing : BOOLEAN, lock : BOOLEAN, config : BOOLEAN,
           slots : SUBSET Owner, active : SUBSET Request, doomed : SUBSET Request]

SlotTypes ==
  /\ stage \in {"down", "serving", "closing", "stopped"} /\ lives \in 0..MaxLives
  /\ rt \in RtType /\ disk \subseteq Request /\ workers \subseteq Request

JobTypes ==
  /\ job = [r \in Request |-> job[r]]
  /\ \A r \in Request :
       /\ job[r] = [f \in JobFields |-> job[r][f]] /\ job[r].pc \in JobPcs
       /\ job[r].pc \in Holding \cup {"prepared"} => job[r].owner \in Owner

Down == rt = X!NewRuntime /\ workers = {} /\ \A r \in Request : job[r].pc \in {"idle", "over"}

\* What stands under the slots while the service runs.
SlotsFit ==
  /\ rt.initialized /\ ~rt.closing /\ IsFiniteSet(rt.slots) /\ Cardinality(rt.slots) <= MaxTotal
  /\ \A r \in Request : job[r].pc \in Holding \cup {"prepared"} => job[r].life = lives
  /\ \A r \in Request : job[r].pc \in Holding => job[r].owner \in rt.slots
  /\ \A r, s \in Request :
       job[r].pc \in Holding /\ job[s].pc \in Holding /\ job[r].owner = job[s].owner => r = s
  /\ \A r \in workers : job[r].pc \in {"register", "wait"}
  /\ \A r \in disk : job[r].pc \in OnDisk
  /\ "probe" \notin Faults => \A o \in rt.slots : \E r \in Request : job[r].pc \in Holding /\ job[r].owner = o

ExportInv ==
  /\ X!ExportAssumption /\ SlotTypes /\ JobTypes
  /\ stage = "down" => Down
  /\ stage = "serving" => SlotsFit

\* The cardinality of the instance is the one of the library.
LEMMA SameCard == \A S : X!Cardinality(S) = Cardinality(S)
  BY DEF X!Cardinality, Cardinality

\* Nothing runs yet.
LEMMA ExportInit == X!ExportAssumption /\ X!Init => ExportInv
<1> SUFFICES ASSUME X!ExportAssumption, X!Init PROVE ExportInv
  OBVIOUS
<1>1. SlotTypes
  BY DEF SlotTypes, X!Init, X!NewRuntime, X!ExportAssumption, RtType
<1>2. PICK z : z = X!Idle
  OBVIOUS
<1>3. z.pc = "idle" /\ z = [f \in JobFields |-> z[f]]
  BY <1>2 DEF X!Idle, JobFields
<1>4. job = [r \in Request |-> z]
  BY <1>2 DEF X!Init
<1>5. job = [r \in Request |-> job[r]] /\ \A r \in Request : job[r] = z
  BY <1>4
<1>6. JobTypes
  BY <1>3, <1>5 DEF JobTypes, JobPcs, Holding, X!Working
<1>7. stage = "down" /\ Down
  BY <1>3, <1>5 DEF Down, X!Init
<1> QED BY <1>1, <1>6, <1>7 DEF ExportInv

\* The slots bound the requests that hold them.
LEMMA HoldersBounded ==
  ASSUME ExportInv, stage = "serving"
  PROVE  Cardinality({r \in Request : job[r].pc \in X!Working}) <= MaxTotal
<1> DEFINE H == {r \in Request : job[r].pc \in X!Working}
           g == [r \in H |-> job[r].owner]
<1>1. SlotsFit /\ MaxTotal \in Nat
  BY DEF ExportInv, X!ExportAssumption
<1>2. g \in Injection(H, rt.slots)
  BY <1>1 DEF SlotsFit, Holding, Injection, IsInjective
<1>3. IsFiniteSet(rt.slots) /\ Cardinality(rt.slots) <= MaxTotal
  BY <1>1 DEF SlotsFit
<1> HIDE DEF H, g
<1>4. IsFiniteSet(H) /\ Cardinality(H) <= Cardinality(rt.slots)
  BY <1>2, <1>3, FS_Injection
<1>5. Cardinality(H) \in Nat /\ Cardinality(rt.slots) \in Nat
  BY <1>3, <1>4, FS_CardinalityType
<1>6. Cardinality(H) <= MaxTotal
  BY <1>1, <1>3, <1>4, <1>5
<1> QED BY <1>6 DEF H

\* What the invariant says of the slots.
LEMMA ExportSays ==
  ExportInv => X!TypeOK /\ X!SlotCoversWork /\ ("probe" \notin Faults => X!FailureFreesSlot)
<1> SUFFICES ASSUME ExportInv PROVE X!TypeOK /\ X!SlotCoversWork /\ ("probe" \notin Faults => X!FailureFreesSlot)
  OBVIOUS
<1>1. X!TypeOK
  BY DEF ExportInv, SlotTypes, RtType, JobTypes, JobPcs, Holding, X!TypeOK
<1>2. X!SlotCoversWork
  <2> SUFFICES ASSUME stage = "serving"
               PROVE  /\ \A r \in workers \cup disk : job[r].life = lives /\ job[r].owner \in rt.slots
                      /\ \A r, s \in Request :
                           (job[r].pc \in X!Working /\ job[s].pc \in X!Working /\ job[r].owner = job[s].owner) => r = s
                      /\ X!Cardinality({r \in Request : job[r].pc \in X!Working}) <= MaxTotal
    BY DEF X!SlotCoversWork
  <2>1. SlotsFit /\ disk \subseteq Request /\ workers \subseteq Request
    BY DEF ExportInv, SlotTypes
  <2>2. \A r \in workers \cup disk : r \in Request /\ job[r].pc \in Holding
    BY <2>1 DEF SlotsFit, Holding, OnDisk, X!Working
  <2>3. \A r \in workers \cup disk : job[r].life = lives /\ job[r].owner \in rt.slots
    BY <2>1, <2>2 DEF SlotsFit
  <2>4. \A r, s \in Request :
          (job[r].pc \in X!Working /\ job[s].pc \in X!Working /\ job[r].owner = job[s].owner) => r = s
    BY <2>1 DEF SlotsFit, Holding
  <2> QED BY <2>3, <2>4, HoldersBounded, SameCard
<1>3. ASSUME "probe" \notin Faults PROVE X!FailureFreesSlot
  BY <1>3 DEF ExportInv, SlotsFit, X!FailureFreesSlot, X!Pinned, Holding
<1> QED BY <1>1, <1>2, <1>3

\* Some fields of a request are set.
LEMMA JobSet ==
  ASSUME JobTypes, NEW r \in Request, NEW ch, X!Set(r, ch)
  PROVE  /\ job'[r] = [f \in JobFields |-> IF f \in DOMAIN ch THEN ch[f] ELSE job[r][f]]
         /\ \A s \in Request \ {r} : job'[s] = job[s]
         /\ job' = [s \in Request |-> job'[s]]
<1>1. DOMAIN job[r] = JobFields /\ job = [s \in Request |-> job[s]]
  BY DEF JobTypes
<1>2. job' = [job EXCEPT ![r] = [f \in DOMAIN job[r] |-> IF f \in DOMAIN ch THEN ch[f] ELSE job[r][f]]]
  BY DEF X!Set
<1> QED BY <1>1, <1>2

\* A request is over, or on its way to the cleanup.
LEMMA JobEnd ==
  ASSUME JobTypes, NEW r \in Request, NEW pc, X!ToEnd(r, pc) \/ (X!Over(r) /\ pc = "over")
  PROVE  /\ job'[r] = [f \in JobFields |-> job'[r][f]] /\ job'[r].pc = pc
         /\ X!ToEnd(r, pc) => job'[r].owner = job[r].owner /\ job'[r].life = job[r].life
         /\ \A s \in Request \ {r} : job'[s] = job[s]
         /\ job' = [s \in Request |-> job'[s]]
<1>1. PICK o, l : X!ToEnd(r, pc) => o = job[r].owner /\ l = job[r].life
  OBVIOUS
<1>2. job = [s \in Request |-> job[s]]
  BY DEF JobTypes
<1>3. CASE X!ToEnd(r, pc)
  <2>1. job' = [job EXCEPT ![r] = [X!Idle EXCEPT !.pc = pc, !.owner = job[r].owner, !.life = job[r].life]]
    BY <1>3 DEF X!ToEnd
  <2>2. job'[r] = [X!Idle EXCEPT !.pc = pc, !.owner = job[r].owner, !.life = job[r].life]
    BY <2>1, <1>2
  <2>3. /\ \A s \in Request \ {r} : job'[s] = job[s]
        /\ job' = [s \in Request |-> job'[s]]
    BY <2>1, <1>2
  <2>4. /\ job'[r] = [f \in JobFields |-> job'[r][f]] /\ job'[r].pc = pc
        /\ job'[r].owner = job[r].owner /\ job'[r].life = job[r].life
    BY <2>2 DEF X!Idle, JobFields
  <2> QED BY <2>3, <2>4
<1>4. CASE X!Over(r) /\ pc = "over" /\ ~X!ToEnd(r, pc)
  <2>1. job' = [job EXCEPT ![r] = [X!Idle EXCEPT !.pc = "over"]]
    BY <1>4 DEF X!Over
  <2>2. job'[r] = [X!Idle EXCEPT !.pc = "over"]
    BY <2>1, <1>2
  <2>3. /\ \A s \in Request \ {r} : job'[s] = job[s]
        /\ job' = [s \in Request |-> job'[s]]
    BY <2>1, <1>2
  <2>4. job'[r] = [f \in JobFields |-> job'[r][f]] /\ job'[r].pc = "over"
    BY <2>2 DEF X!Idle, JobFields
  <2> QED BY <2>3, <2>4, <1>4
<1> QED BY <1>3, <1>4

\* One request moves; what it holds and leaves behind decides about the slots.
LEMMA JobStep ==
  ASSUME ExportInv, NEW r \in Request, UNCHANGED <<stage, lives>>, stage # "down", rt' \in RtType,
         disk' \subseteq Request, workers' \subseteq Request,
         job' = [s \in Request |-> job'[s]], \A s \in Request \ {r} : job'[s] = job[s],
         job'[r] = [f \in JobFields |-> job'[r][f]], job'[r].pc \in JobPcs,
         job'[r].pc \in Holding \cup {"prepared"} => job'[r].owner \in Owner,
         stage = "serving" =>
           /\ rt'.initialized = rt.initialized /\ rt'.closing = rt.closing
           /\ disk' \subseteq disk \cup {r} /\ workers' \subseteq workers \cup {r}
           /\ r \in disk' => job'[r].pc \in OnDisk
           /\ r \in workers' => job'[r].pc \in {"register", "wait"}
           /\ job'[r].pc \in Holding \cup {"prepared"} => job'[r].life = lives
           /\ \/ /\ job[r].pc \in Holding /\ job'[r].pc \in Holding
                 /\ job'[r].owner = job[r].owner /\ rt'.slots = rt.slots
              \/ /\ job[r].pc \notin Holding /\ job'[r].pc \in Holding /\ job'[r].owner \notin rt.slots
                 /\ rt'.slots = rt.slots \cup {job'[r].owner} /\ Cardinality(rt.slots) < MaxTotal
              \/ /\ job[r].pc \in Holding /\ job'[r].pc \notin Holding
                 /\ rt'.slots = rt.slots \ {job[r].owner}
              \/ job[r].pc \notin Holding /\ job'[r].pc \notin Holding /\ rt'.slots = rt.slots
              \/ job'[r].pc \notin Holding /\ rt'.slots = rt.slots /\ "probe" \in Faults
  PROVE  ExportInv'
<1>1. SlotTypes' /\ X!ExportAssumption'
  BY DEF ExportInv, SlotTypes, RtType, X!ExportAssumption, X!Fault
<1>2. \A s \in Request :
        /\ job'[s] = [f \in JobFields |-> job'[s][f]] /\ job'[s].pc \in JobPcs
        /\ job'[s].pc \in Holding \cup {"prepared"} => job'[s].owner \in Owner
  <2> HIDE DEF JobFields, JobPcs, Holding
  <2>1. ASSUME NEW s \in Request \ {r}
        PROVE  /\ job'[s] = [f \in JobFields |-> job'[s][f]] /\ job'[s].pc \in JobPcs
               /\ job'[s].pc \in Holding \cup {"prepared"} => job'[s].owner \in Owner
    BY DEF ExportInv, JobTypes
  <2> QED BY <2>1
<1>3. JobTypes'
  BY <1>2 DEF JobTypes, JobFields, JobPcs, Holding, X!Working
<1>4. ASSUME stage = "serving" PROVE SlotsFit'
  <2>1. /\ rt.initialized /\ ~rt.closing /\ IsFiniteSet(rt.slots) /\ Cardinality(rt.slots) <= MaxTotal
        /\ \A s \in Request : job[s].pc \in Holding \cup {"prepared"} => job[s].life = lives
        /\ \A s \in Request : job[s].pc \in Holding => job[s].owner \in rt.slots
        /\ \A s, q \in Request :
             job[s].pc \in Holding /\ job[q].pc \in Holding /\ job[s].owner = job[q].owner => s = q
        /\ \A s \in workers : job[s].pc \in {"register", "wait"}
        /\ \A s \in disk : job[s].pc \in OnDisk
    BY <1>4 DEF ExportInv, SlotsFit
  <2>2. rt'.initialized /\ ~rt'.closing
    BY <1>4, <2>1
  <2>3. IsFiniteSet(rt'.slots) /\ Cardinality(rt'.slots) <= MaxTotal
    <3>1. PICK S, T, o, p : S = rt.slots /\ T = rt'.slots /\ o = job[r].owner /\ p = job'[r].owner
      OBVIOUS
    <3>2. /\ T = S \/ T = S \ {o} \/ (T = S \cup {p} /\ p \notin S /\ Cardinality(S) < MaxTotal)
          /\ IsFiniteSet(S) /\ Cardinality(S) <= MaxTotal /\ MaxTotal \in Nat
      BY <3>1, <1>4, <2>1 DEF ExportInv, X!ExportAssumption
    <3>3. /\ Cardinality(S) \in Nat
          /\ IsFiniteSet(S \ {o}) /\ (Cardinality(S \ {o}) = IF o \in S THEN Cardinality(S) - 1 ELSE Cardinality(S))
          /\ IsFiniteSet(S \cup {p}) /\ (Cardinality(S \cup {p}) = IF p \in S THEN Cardinality(S) ELSE Cardinality(S) + 1)
      BY <3>2, FS_CardinalityType, FS_AddElement, FS_RemoveElement
    <3>4. IsFiniteSet(T) /\ Cardinality(T) <= MaxTotal
      <4>1. CASE T = S
        BY <4>1, <3>2
      <4>2. CASE T = S \ {o}
        <5>1. Cardinality(S \ {o}) <= MaxTotal
          BY <3>2, <3>3
        <5> QED BY <4>2, <5>1, <3>3
      <4>3. CASE T = S \cup {p} /\ p \notin S /\ Cardinality(S) < MaxTotal
        <5>1. Cardinality(S \cup {p}) <= MaxTotal
          BY <3>2, <3>3, <4>3
        <5> QED BY <4>3, <5>1, <3>3
      <4> QED BY <3>2, <4>1, <4>2, <4>3
    <3> QED BY <3>1, <3>4
  <2>4. \A s \in Request : job'[s].pc \in Holding \cup {"prepared"} => job'[s].life = lives'
    BY <1>4, <2>1
  <2>5. \A s \in Request : job'[s].pc \in Holding => job'[s].owner \in rt'.slots
    BY <1>4, <2>1
  <2>6. \A s, q \in Request :
          job'[s].pc \in Holding /\ job'[q].pc \in Holding /\ job'[s].owner = job'[q].owner => s = q
    BY <1>4, <2>1
  <2>7. \A s \in workers' : job'[s].pc \in {"register", "wait"}
    BY <1>4, <2>1 DEF ExportInv, SlotTypes
  <2>8. \A s \in disk' : job'[s].pc \in OnDisk
    BY <1>4, <2>1 DEF ExportInv, SlotTypes
  <2>9. ASSUME "probe" \notin Faults, NEW o \in rt'.slots
        PROVE  \E s \in Request : job'[s].pc \in Holding /\ job'[s].owner = o
    <3>1. CASE o \notin rt.slots
      BY <3>1, <2>9, <1>4
    <3>2. CASE o \in rt.slots
      <4>1. PICK s \in Request : job[s].pc \in Holding /\ job[s].owner = o
        BY <3>2, <2>9, <1>4 DEF ExportInv, SlotsFit
      <4>2. CASE s # r
        BY <4>1, <4>2
      <4>3. CASE s = r
        BY <4>1, <4>3, <2>9, <1>4
      <4> QED BY <4>2, <4>3
    <3> QED BY <3>1, <3>2
  <2> HIDE DEF Holding, OnDisk
  <2>10. Holding' = Holding /\ OnDisk' = OnDisk
    BY DEF Holding, OnDisk, X!Working
  <2> QED BY <2>2, <2>3, <2>4, <2>5, <2>6, <2>7, <2>8, <2>9 DEF SlotsFit
<1>5. stage' # "down" /\ (stage' = "serving" => stage = "serving")
  OBVIOUS
<1> QED BY <1>1, <1>3, <1>4, <1>5 DEF ExportInv

Moved(r, pc) ==
  /\ job' = [s \in Request |-> job'[s]] /\ \A s \in Request \ {r} : job'[s] = job[s]
  /\ job'[r] = [f \in JobFields |-> job'[r][f]] /\ job'[r].pc = pc
  /\ job'[r].owner = job[r].owner /\ job'[r].life = job[r].life

\* A request moves on and stays who it is.
LEMMA SetMoves ==
  ASSUME JobTypes, NEW r \in Request, NEW ch, X!Set(r, ch), "owner" \notin DOMAIN ch, "life" \notin DOMAIN ch
  PROVE  Moved(r, IF "pc" \in DOMAIN ch THEN ch.pc ELSE job[r].pc)
<1>1. /\ job'[r] = [f \in JobFields |-> IF f \in DOMAIN ch THEN ch[f] ELSE job[r][f]]
      /\ \A s \in Request \ {r} : job'[s] = job[s]
      /\ job' = [s \in Request |-> job'[s]]
  BY JobSet
<1>2. job'[r] = [f \in JobFields |-> job'[r][f]]
  BY <1>1
<1>3. /\ job'[r].pc = IF "pc" \in DOMAIN ch THEN ch.pc ELSE job[r].pc
      /\ job'[r].owner = job[r].owner /\ job'[r].life = job[r].life
  BY <1>1 DEF JobFields
<1> QED BY <1>1, <1>2, <1>3 DEF Moved

\* The same where only the stage is set.
LEMMA PcMoves ==
  ASSUME JobTypes, NEW r \in Request, NEW pc, X!Set(r, [pc |-> pc])
  PROVE  Moved(r, pc)
<1>1. DOMAIN [pc |-> pc] = {"pc"} /\ [pc |-> pc].pc = pc
  OBVIOUS
<1>2. Moved(r, IF "pc" \in DOMAIN [pc |-> pc] THEN [pc |-> pc].pc ELSE job[r].pc)
  BY <1>1, SetMoves
<1> QED BY <1>1, <1>2

\* What is known of a request under way.
LEMMA Mine ==
  ASSUME ExportInv, NEW r \in Request, job[r].pc \in Holding \cup {"prepared"}
  PROVE  /\ stage # "down" /\ job[r].owner \in Owner /\ rt \in RtType /\ JobTypes
         /\ disk \subseteq Request /\ workers \subseteq Request
         /\ stage = "serving" =>
              /\ rt.initialized /\ ~rt.closing /\ job[r].life = lives
              /\ job[r].pc \in Holding => job[r].owner \in rt.slots
              /\ r \in disk => job[r].pc \in OnDisk
              /\ r \in workers => job[r].pc \in {"register", "wait"}
BY DEF ExportInv, SlotTypes, JobTypes, Down, SlotsFit, Holding, X!Working

\* A request that keeps its slot.
LEMMA Keeps ==
  ASSUME ExportInv, NEW r \in Request, job[r].pc \in Holding, UNCHANGED <<stage, lives>>,
         rt' \in RtType, rt'.slots = rt.slots, rt'.initialized = rt.initialized, rt'.closing = rt.closing,
         disk' \subseteq disk \cup {r}, workers' \subseteq workers \cup {r},
         NEW pc \in Holding, Moved(r, pc),
         stage = "serving" /\ r \in disk' => pc \in OnDisk,
         stage = "serving" /\ r \in workers' => pc \in {"register", "wait"}
  PROVE  ExportInv'
<1>1. /\ stage # "down" /\ job[r].owner \in Owner /\ disk \subseteq Request /\ workers \subseteq Request
      /\ stage = "serving" => job[r].life = lives
  BY Mine
<1>2. /\ job' = [s \in Request |-> job'[s]] /\ \A s \in Request \ {r} : job'[s] = job[s]
      /\ job'[r] = [f \in JobFields |-> job'[r][f]] /\ job'[r].pc \in JobPcs
      /\ job'[r].owner \in Owner /\ job'[r].pc \in Holding
      /\ job'[r].owner = job[r].owner /\ job'[r].life = job[r].life /\ job'[r].pc = pc
  BY <1>1 DEF Moved, JobPcs
<1>3. disk' \subseteq Request /\ workers' \subseteq Request
  BY <1>1
<1> HIDE DEF Holding, JobPcs, OnDisk, RtType
<1>4. stage = "serving" =>
           /\ r \in disk' => job'[r].pc \in OnDisk
           /\ r \in workers' => job'[r].pc \in {"register", "wait"}
           /\ job'[r].life = lives
  BY <1>1, <1>2
<1> QED BY <1>1, <1>2, <1>3, <1>4, JobStep

\* A request that gives its slot back, or never had one.
LEMMA Leaves ==
  ASSUME ExportInv, NEW r \in Request, job[r].pc \in Holding \cup {"prepared"}, X!Over(r),
         UNCHANGED <<stage, lives>>, rt' \in RtType, disk' \subseteq Request, workers' = workers,
         stage = "serving" =>
           /\ rt'.initialized = rt.initialized /\ rt'.closing = rt.closing
           /\ disk' \subseteq disk /\ r \notin disk' /\ r \notin workers
           /\ \/ job[r].pc \in Holding /\ rt'.slots = rt.slots \ {job[r].owner}
              \/ job[r].pc \notin Holding /\ rt'.slots = rt.slots
              \/ rt'.slots = rt.slots /\ "probe" \in Faults
  PROVE  ExportInv'
<1>1. stage # "down" /\ JobTypes /\ workers \subseteq Request
  BY Mine
<1>2. /\ job' = [s \in Request |-> job'[s]] /\ \A s \in Request \ {r} : job'[s] = job[s]
      /\ job'[r] = [f \in JobFields |-> job'[r][f]] /\ job'[r].pc = "over"
  BY <1>1, JobEnd
<1>3. job'[r].pc \in JobPcs /\ job'[r].pc \notin Holding \cup {"prepared"}
  BY <1>2 DEF JobPcs, Holding, X!Working
<1> HIDE DEF Holding, JobPcs, OnDisk, RtType
<1>4. workers' \subseteq Request
  BY <1>1
<1> QED BY <1>1, <1>2, <1>3, <1>4, JobStep

\* What a startup may leave behind.
LEMMA Started ==
  ASSUME ExportInv, NEW s \in X!Startups
  PROVE  /\ s.rt \in RtType /\ s.rt.slots = rt.slots /\ s.rt.closing = rt.closing /\ s.disk \in {disk, {}}
         /\ rt.initialized => s.rt = rt /\ s.disk = disk /\ s.raised = "no"
         /\ rt = X!NewRuntime =>
              s.disk = {} /\ s.raised \in {"no", "probe"} /\ (s.raised = "no" => s.rt.initialized)
<1>1. rt \in RtType
  BY DEF ExportInv, SlotTypes
<1>2. CASE rt.initialized
  <2>1. s = [rt |-> rt, disk |-> disk, raised |-> "no"]
    BY <1>2 DEF X!Startups
  <2>2. rt # X!NewRuntime
    BY <1>2 DEF X!NewRuntime
  <2> QED BY <1>1, <2>1, <2>2
<1>3. CASE ~rt.initialized /\ ~X!Unlocked
  <2>1. s = [rt |-> rt, disk |-> disk, raised |-> "unavailable"]
    BY <1>3 DEF X!Startups
  <2>2. rt # X!NewRuntime
    BY <1>3 DEF X!NewRuntime, X!Unlocked
  <2> QED BY <1>1, <1>3, <2>1, <2>2
<1>4. CASE ~rt.initialized /\ X!Unlocked
  <2>1. CASE \E has \in BOOLEAN : s = [rt |-> [rt EXCEPT !.lock = TRUE, !.initialized = TRUE, !.config = has],
                                       disk |-> {}, raised |-> "no"]
    <3>1. PICK has \in BOOLEAN : s = [rt |-> [rt EXCEPT !.lock = TRUE, !.initialized = TRUE, !.config = has],
                                      disk |-> {}, raised |-> "no"]
      BY <2>1
    <3>2. s.rt = [rt EXCEPT !.lock = TRUE, !.initialized = TRUE, !.config = has] /\ s.disk = {} /\ s.raised = "no"
      BY <3>1
    <3> QED BY <1>1, <1>4, <3>2 DEF RtType
  <2>2. CASE s = [rt |-> [rt EXCEPT !.lock = TRUE], disk |-> {}, raised |-> "probe"]
    <3>1. s.rt = [rt EXCEPT !.lock = TRUE] /\ s.disk = {} /\ s.raised = "probe"
      BY <2>2
    <3> QED BY <1>1, <1>4, <3>1 DEF RtType
  <2> QED BY <1>4, <2>1, <2>2 DEF X!Startups
<1> QED BY <1>2, <1>3, <1>4

\* A request comes and asks for its slot.
LEMMA Prepares == ASSUME ExportInv, NEW r \in Request, X!Prepare(r) PROVE ExportInv'
<1>1. /\ stage = "serving" /\ job[r].pc = "idle" /\ UNCHANGED <<stage, lives, rt, disk, workers>>
      /\ JobTypes /\ SlotTypes /\ SlotsFit
  BY DEF X!Prepare, ExportInv
<1>2. PICK o \in Sender[r], f \in {"xlsx", "png"} :
        X!Set(r, [pc |-> "prepared", owner |-> o, format |-> f, life |-> lives])
  BY DEF X!Prepare
<1>3. o \in Owner
  BY DEF ExportInv, X!ExportAssumption
<1>4. PICK ch : ch = [pc |-> "prepared", owner |-> o, format |-> f, life |-> lives]
  OBVIOUS
<1>5. /\ job'[r] = [g \in JobFields |-> IF g \in DOMAIN ch THEN ch[g] ELSE job[r][g]]
      /\ \A s \in Request \ {r} : job'[s] = job[s]
      /\ job' = [s \in Request |-> job'[s]]
  BY <1>1, <1>2, <1>4, JobSet
<1>6. job'[r].pc = "prepared" /\ job'[r].owner = o /\ job'[r].life = lives
  BY <1>4, <1>5 DEF JobFields
<1>7. job'[r] = [g \in JobFields |-> job'[r][g]]
  BY <1>5
<1>8. job'[r].pc \in JobPcs /\ job'[r].pc \notin Holding /\ job[r].pc \notin Holding
  BY <1>1, <1>6 DEF JobPcs, Holding, X!Working
<1>9. r \notin disk /\ r \notin workers /\ disk \subseteq Request /\ workers \subseteq Request /\ rt \in RtType
  BY <1>1 DEF SlotsFit, SlotTypes, OnDisk
<1>10. rt' \in RtType
  BY <1>1, <1>9 DEF RtType
<1> HIDE DEF Holding, JobPcs, OnDisk, RtType
<1> QED BY <1>1, <1>3, <1>5, <1>6, <1>7, <1>8, <1>9, <1>10, JobStep

\* A place is taken where there is one and the account has none.
LEMMA Acquires == ASSUME ExportInv, NEW r \in Request, X!Acquire(r) PROVE ExportInv'
<1>1. job[r].pc = "prepared" /\ UNCHANGED <<stage, lives, workers>>
  BY DEF X!Acquire
<1>2. /\ stage # "down" /\ job[r].owner \in Owner /\ rt \in RtType /\ JobTypes
      /\ disk \subseteq Request /\ workers \subseteq Request
      /\ stage = "serving" =>
           rt.initialized /\ ~rt.closing /\ job[r].life = lives /\ r \notin disk /\ r \notin workers
  BY <1>1, Mine DEF OnDisk
<1>3. job[r].pc \notin Holding
  BY <1>1 DEF Holding, X!Working
<1>4. PICK s \in X!Startups :
        /\ disk' = s.disk
        /\ \/ X!Over(r) /\ rt' = s.rt
           \/ /\ X!MayAcquire(job[r].owner, s.rt)
              /\ rt' = [s.rt EXCEPT !.slots = @ \cup {job[r].owner}]
              /\ X!Set(r, [pc |-> IF job[r].format = "xlsx" THEN "spawn" ELSE "assets"])
  BY DEF X!Acquire
<1>5. /\ s.rt \in RtType /\ s.rt.slots = rt.slots /\ s.rt.closing = rt.closing /\ s.disk \in {disk, {}}
      /\ rt.initialized => s.rt = rt /\ s.disk = disk
  BY Started
<1>6. disk' \subseteq Request /\ workers' \subseteq Request
  BY <1>1, <1>2, <1>4, <1>5
<1>7. CASE X!Over(r) /\ rt' = s.rt
  <2>1. rt' \in RtType
    BY <1>5, <1>7 DEF RtType
  <2>2. stage = "serving" => rt'.initialized = rt.initialized /\ rt'.closing = rt.closing
                             /\ disk' = disk /\ rt'.slots = rt.slots
    BY <1>2, <1>4, <1>5, <1>7
  <2> HIDE DEF Holding, RtType
  <2> QED BY <1>1, <1>2, <1>3, <1>6, <1>7, <2>1, <2>2, Leaves
<1>8. CASE /\ X!MayAcquire(job[r].owner, s.rt)
           /\ rt' = [s.rt EXCEPT !.slots = @ \cup {job[r].owner}]
           /\ X!Set(r, [pc |-> IF job[r].format = "xlsx" THEN "spawn" ELSE "assets"])
  <2>1. PICK pc \in {"spawn", "assets"} : Moved(r, pc)
    BY <1>2, <1>8, PcMoves
  <2>2. /\ job' = [q \in Request |-> job'[q]] /\ \A q \in Request \ {r} : job'[q] = job[q]
        /\ job'[r] = [f \in JobFields |-> job'[r][f]] /\ job'[r].pc \in JobPcs /\ job'[r].pc \in Holding
        /\ job'[r].owner = job[r].owner /\ job'[r].life = job[r].life
    BY <2>1 DEF Moved, JobPcs, Holding, X!Working
  <2>3. job[r].owner \notin rt.slots /\ Cardinality(rt.slots) < MaxTotal
    BY <1>5, <1>8, SameCard DEF X!MayAcquire
  <2>4. rt' = [s.rt EXCEPT !.slots = rt.slots \cup {job[r].owner}]
    BY <1>5, <1>8
  <2>5. rt' \in RtType /\ rt'.slots = rt.slots \cup {job[r].owner}
    BY <1>2, <1>5, <2>4 DEF RtType
  <2>6. stage = "serving" => rt'.initialized = rt.initialized /\ rt'.closing = rt.closing /\ disk' = disk
    BY <1>2, <1>4, <1>5, <2>4 DEF RtType
  <2> HIDE DEF Holding, RtType, JobPcs
  <2> QED BY <1>1, <1>2, <1>3, <1>6, <2>2, <2>3, <2>5, <2>6, JobStep
<1> QED BY <1>4, <1>7, <1>8

\* The fonts are there, are not, or cannot be asked about.
LEMMA ChecksAssets == ASSUME ExportInv, NEW r \in Request, X!CheckAssets(r) PROVE ExportInv'
<1>1. job[r].pc = "assets" /\ UNCHANGED <<stage, lives, disk, workers>>
  BY DEF X!CheckAssets
<1>2. job[r].pc \in Holding
  BY <1>1 DEF Holding, X!Working
<1>3. /\ rt \in RtType /\ JobTypes /\ disk \subseteq Request
      /\ stage = "serving" => r \notin disk /\ r \notin workers
  BY <1>1, <1>2, Mine DEF OnDisk
<1>4. CASE rt' = [rt EXCEPT !.config = TRUE] /\ X!Set(r, [pc |-> "spawn"])
  <2>1. /\ rt' \in RtType /\ rt'.slots = rt.slots /\ rt'.initialized = rt.initialized
        /\ rt'.closing = rt.closing
    BY <1>3, <1>4 DEF RtType
  <2>2. Moved(r, "spawn") /\ "spawn" \in Holding
    BY <1>3, <1>4, PcMoves DEF Holding, X!Working
  <2> HIDE DEF Holding, RtType
  <2> QED BY <1>1, <1>2, <1>3, <2>1, <2>2, Keeps
<1>5. CASE rt' = [X!Release(job[r].owner) EXCEPT !.config = FALSE] /\ X!Over(r)
  <2>1. rt' = [rt EXCEPT !.slots = rt.slots \ {job[r].owner}, !.config = FALSE]
    BY <1>3, <1>5 DEF X!Release, RtType
  <2>2. /\ rt' \in RtType /\ rt'.slots = rt.slots \ {job[r].owner} /\ rt'.initialized = rt.initialized
        /\ rt'.closing = rt.closing
    BY <1>3, <2>1 DEF RtType
  <2> HIDE DEF Holding, RtType
  <2> QED BY <1>1, <1>2, <1>3, <1>5, <2>2, Leaves
<1>6. CASE rt' = rt /\ X!Over(r) /\ "probe" \in Faults
  <2>1. rt' \in RtType
    BY <1>3, <1>6 DEF RtType
  <2> HIDE DEF Holding, RtType
  <2> QED BY <1>1, <1>2, <1>3, <1>6, <2>1, Leaves
<1> QED BY <1>4, <1>5, <1>6 DEF X!CheckAssets

\* The directory, then the renderer.
LEMMA Spawns == ASSUME ExportInv, NEW r \in Request, X!Spawn(r) PROVE ExportInv'
<1>1. job[r].pc = "spawn" /\ UNCHANGED <<stage, lives, rt>>
  BY DEF X!Spawn
<1>2. job[r].pc \in Holding
  BY <1>1 DEF Holding, X!Working
<1>3. /\ rt \in RtType /\ JobTypes
      /\ stage = "serving" => r \notin disk /\ r \notin workers
  BY <1>1, <1>2, Mine DEF OnDisk
<1>4. rt' \in RtType
  BY <1>1, <1>3 DEF RtType
<1>5. CASE X!ToEnd(r, "clean") /\ disk' \in {disk, disk \cup {r}} /\ workers' = workers
  <2>1. Moved(r, "clean") /\ "clean" \in Holding /\ "clean" \in OnDisk
    BY <1>3, <1>5, JobEnd DEF Moved, Holding, X!Working, OnDisk
  <2> HIDE DEF Holding, RtType, OnDisk
  <2> QED BY <1>1, <1>2, <1>3, <1>4, <1>5, <2>1, Keeps
<1>6. CASE disk' = disk \cup {r} /\ workers' = workers \cup {r} /\ X!Set(r, [pc |-> "register", format |-> "xlsx"])
  <2>1. PICK ch : ch = [pc |-> "register", format |-> "xlsx"]
    OBVIOUS
  <2>2. DOMAIN ch = {"pc", "format"} /\ ch.pc = "register"
    BY <2>1
  <2>3. Moved(r, "register")
    BY <1>3, <1>6, <2>1, <2>2, SetMoves
  <2>4. "register" \in Holding /\ "register" \in OnDisk
    BY DEF Holding, X!Working, OnDisk
  <2> HIDE DEF Holding, RtType, OnDisk
  <2> QED BY <1>1, <1>2, <1>3, <1>4, <1>6, <2>3, <2>4, Keeps
<1> QED BY <1>5, <1>6 DEF X!Spawn

\* A renderer is known to the shutdown, or stopped.
LEMMA Registers == ASSUME ExportInv, NEW r \in Request, X!Register(r) PROVE ExportInv'
<1>1. job[r].pc = "register" /\ UNCHANGED <<stage, lives, disk>>
  BY DEF X!Register
<1>2. job[r].pc \in Holding
  BY <1>1 DEF Holding, X!Working
<1>3. rt \in RtType /\ JobTypes /\ (stage = "serving" => ~rt.closing)
  BY <1>2, Mine
<1>4. CASE rt.closing /\ workers' = workers \ {r} /\ X!ToEnd(r, "clean") /\ UNCHANGED rt
  <2>1. Moved(r, "clean") /\ "clean" \in Holding
    BY <1>3, <1>4, JobEnd DEF Moved, Holding, X!Working
  <2>2. rt' \in RtType
    BY <1>3, <1>4 DEF RtType
  <2> HIDE DEF Holding, RtType, OnDisk
  <2> QED BY <1>1, <1>2, <1>3, <1>4, <2>1, <2>2, Keeps
<1>5. CASE rt' = [rt EXCEPT !.active = rt.active \cup {r}] /\ X!Set(r, [pc |-> "wait"]) /\ UNCHANGED workers
  <2>1. Moved(r, "wait") /\ "wait" \in Holding /\ "wait" \in OnDisk
    BY <1>3, <1>5, PcMoves DEF Holding, X!Working, OnDisk
  <2>2. /\ rt' \in RtType /\ rt'.slots = rt.slots /\ rt'.initialized = rt.initialized
        /\ rt'.closing = rt.closing
    BY <1>3, <1>5 DEF RtType
  <2> HIDE DEF Holding, RtType, OnDisk
  <2> QED BY <1>1, <1>2, <1>3, <1>5, <2>1, <2>2, Keeps
<1> QED BY <1>4, <1>5 DEF X!Register

\* The renderer ends, the clock or the client runs out.
LEMMA Happens ==
  ASSUME ExportInv, NEW r \in Request, X!WorkerExit(r) \/ X!Deadline(r) \/ X!Disconnect(r) PROVE ExportInv'
<1>1. UNCHANGED <<stage, lives, rt, disk>> /\ workers' \subseteq workers /\ JobTypes /\ rt \in RtType
  BY DEF X!WorkerExit, X!Deadline, X!Disconnect, ExportInv, SlotTypes
<1>2. PICK ch : X!Set(r, ch) /\ "pc" \notin DOMAIN ch /\ "owner" \notin DOMAIN ch /\ "life" \notin DOMAIN ch
  <2>1. CASE X!WorkerExit(r)
    <3>1. PICK how : X!Set(r, [exit |-> how])
      BY <2>1 DEF X!WorkerExit
    <3>2. DOMAIN [exit |-> how] = {"exit"}
      OBVIOUS
    <3> QED BY <3>1, <3>2
  <2>2. CASE X!Deadline(r)
    <3>1. X!Set(r, [late |-> TRUE]) /\ DOMAIN [late |-> TRUE] = {"late"}
      BY <2>2 DEF X!Deadline
    <3> QED BY <3>1
  <2>3. CASE X!Disconnect(r)
    <3>1. X!Set(r, [cancelled |-> TRUE]) /\ DOMAIN [cancelled |-> TRUE] = {"cancelled"}
      BY <2>3 DEF X!Disconnect
    <3> QED BY <3>1
  <2> QED BY <2>1, <2>2, <2>3
<1>3. Moved(r, job[r].pc)
  BY <1>1, <1>2, SetMoves
<1>4. rt' \in RtType
  BY <1>1 DEF RtType
<1>5. CASE job[r].pc \in Holding
  <2>1. stage = "serving" => /\ r \in disk => job[r].pc \in OnDisk
                             /\ r \in workers => job[r].pc \in {"register", "wait"}
    BY <1>5, Mine
  <2> HIDE DEF Holding, RtType, OnDisk
  <2> QED BY <1>1, <1>3, <1>4, <1>5, <2>1, Keeps
<1>6. CASE job[r].pc \notin Holding
  <2>1. /\ job' = [s \in Request |-> job'[s]] /\ \A s \in Request \ {r} : job'[s] = job[s]
        /\ job'[r] = [f \in JobFields |-> job'[r][f]] /\ job'[r].pc = job[r].pc
        /\ job'[r].owner = job[r].owner /\ job'[r].life = job[r].life
    BY <1>3 DEF Moved
  <2>2. stage # "down"
    BY DEF X!WorkerExit, X!Deadline, X!Disconnect, ExportInv, Down
  <2>3. /\ job[r].pc \in JobPcs /\ disk \subseteq Request /\ workers \subseteq Request
        /\ job[r].pc \in Holding \cup {"prepared"} => job[r].owner \in Owner
    BY DEF ExportInv, JobTypes, SlotTypes
  <2>4. stage = "serving" =>
          /\ job[r].pc \in Holding \cup {"prepared"} => job[r].life = lives
          /\ r \notin disk /\ r \notin workers
    <3>1. "register" \in Holding /\ "wait" \in Holding /\ OnDisk \subseteq Holding
      BY DEF Holding, X!Working, OnDisk
    <3> HIDE DEF Holding, OnDisk
    <3> QED BY <1>6, <3>1 DEF ExportInv, SlotsFit
  <2> HIDE DEF Holding, RtType, JobPcs, OnDisk
  <2> QED BY <1>1, <1>4, <1>6, <2>1, <2>2, <2>3, <2>4, JobStep
<1> QED BY <1>5, <1>6

\* The renderer is over, or is stopped.
LEMMA Polls == ASSUME ExportInv, NEW r \in Request, X!Poll(r) PROVE ExportInv'
<1>1. job[r].pc = "wait" /\ UNCHANGED <<stage, lives, disk>>
  BY DEF X!Poll
<1>2. job[r].pc \in Holding
  BY <1>1 DEF Holding, X!Working
<1>3. rt \in RtType /\ JobTypes
  BY <1>2, Mine
<1>4. CASE r \notin workers /\ X!Set(r, [pc |-> "collect"]) /\ UNCHANGED <<workers, rt>>
  <2>1. Moved(r, "collect") /\ "collect" \in Holding /\ "collect" \in OnDisk
    BY <1>3, <1>4, PcMoves DEF Holding, X!Working, OnDisk
  <2>2. rt' \in RtType
    BY <1>3, <1>4 DEF RtType
  <2> HIDE DEF Holding, RtType, OnDisk
  <2> QED BY <1>1, <1>2, <1>3, <1>4, <2>1, <2>2, Keeps
<1>5. CASE workers' = workers \ {r} /\ rt' = X!Inactive(r) /\ X!ToEnd(r, "clean")
  <2>1. Moved(r, "clean") /\ "clean" \in Holding /\ "clean" \in OnDisk
    BY <1>3, <1>5, JobEnd DEF Moved, Holding, X!Working, OnDisk
  <2>2. rt' = [rt EXCEPT !.active = rt.active \ {r}]
    BY <1>5, <1>3 DEF X!Inactive, RtType
  <2>3. /\ rt' \in RtType /\ rt'.slots = rt.slots /\ rt'.initialized = rt.initialized
        /\ rt'.closing = rt.closing
    BY <1>3, <2>2 DEF RtType
  <2> HIDE DEF Holding, RtType, OnDisk
  <2> QED BY <1>1, <1>2, <1>3, <1>5, <2>1, <2>3, Keeps
<1> QED BY <1>4, <1>5 DEF X!Poll

\* The file counts or the cleanup follows.
LEMMA Collects == ASSUME ExportInv, NEW r \in Request, X!Collect(r) PROVE ExportInv'
<1>1. job[r].pc = "collect" /\ rt' = X!Inactive(r) /\ UNCHANGED <<stage, lives, disk, workers>>
  BY DEF X!Collect
<1>2. job[r].pc \in Holding
  BY <1>1 DEF Holding, X!Working
<1>3. rt \in RtType /\ JobTypes /\ (stage = "serving" => r \notin workers)
  BY <1>1, <1>2, Mine
<1>4. rt' = [rt EXCEPT !.active = rt.active \ {r}]
  BY <1>1, <1>3 DEF X!Inactive, RtType
<1>5. /\ rt' \in RtType /\ rt'.slots = rt.slots /\ rt'.initialized = rt.initialized
      /\ rt'.closing = rt.closing
  BY <1>3, <1>4 DEF RtType
<1>6. CASE X!Set(r, [pc |-> "artifact", exit |-> "none"])
  <2>1. PICK ch : ch = [pc |-> "artifact", exit |-> "none"]
    OBVIOUS
  <2>2. DOMAIN ch = {"pc", "exit"} /\ ch.pc = "artifact"
    BY <2>1
  <2>3. Moved(r, "artifact")
    BY <1>3, <1>6, <2>1, <2>2, SetMoves
  <2>4. "artifact" \in Holding /\ "artifact" \in OnDisk
    BY DEF Holding, X!Working, OnDisk
  <2> HIDE DEF Holding, RtType, OnDisk
  <2> QED BY <1>1, <1>2, <1>3, <1>5, <2>3, <2>4, Keeps
<1>7. CASE X!ToEnd(r, "clean")
  <2>1. Moved(r, "clean") /\ "clean" \in Holding /\ "clean" \in OnDisk
    BY <1>3, <1>7, JobEnd DEF Moved, Holding, X!Working, OnDisk
  <2> HIDE DEF Holding, RtType, OnDisk
  <2> QED BY <1>1, <1>2, <1>3, <1>5, <2>1, Keeps
<1> QED BY <1>6, <1>7 DEF X!Collect

\* From the artifact to the end of the response.
LEMMA Delivers ==
  ASSUME ExportInv, NEW r \in Request, X!Claim(r) \/ X!Verify(r) \/ X!Send(r) PROVE ExportInv'
<1>1. job[r].pc \in {"artifact", "verify", "sending"} /\ UNCHANGED <<stage, lives, rt, disk, workers>>
  BY DEF X!Claim, X!Verify, X!Send
<1>2. job[r].pc \in Holding
  BY <1>1 DEF Holding, X!Working
<1>3. rt \in RtType /\ JobTypes /\ (stage = "serving" => r \notin workers)
  BY <1>1, <1>2, Mine
<1>4. rt' \in RtType
  BY <1>1, <1>3 DEF RtType
<1>5. PICK pc \in {"finish", "verify", "sending"} : X!ToEnd(r, pc) \/ X!Set(r, [pc |-> pc])
  BY DEF X!Claim, X!Verify, X!Send
<1>6. Moved(r, pc)
  <2>1. CASE X!ToEnd(r, pc)
    BY <1>3, <2>1, JobEnd DEF Moved
  <2>2. CASE X!Set(r, [pc |-> pc])
    BY <1>3, <2>2, PcMoves
  <2> QED BY <1>5, <2>1, <2>2
<1>7. pc \in Holding /\ pc \in OnDisk
  BY <1>5 DEF Holding, X!Working, OnDisk
<1> HIDE DEF Holding, RtType, OnDisk
<1> QED BY <1>1, <1>2, <1>3, <1>4, <1>6, <1>7, Keeps

\* The directory, then the slot; or neither.
LEMMA Removes ==
  ASSUME ExportInv, NEW r \in Request, X!Clean(r) \/ X!Finish(r) PROVE ExportInv'
<1>1. job[r].pc \in {"clean", "finish"} /\ UNCHANGED <<stage, lives, workers>>
  BY DEF X!Clean, X!Finish
<1>2. job[r].pc \in Holding
  BY <1>1 DEF Holding, X!Working
<1>3. rt \in RtType /\ JobTypes /\ (stage = "serving" => r \notin workers) /\ disk \subseteq Request
  BY <1>1, <1>2, Mine
<1>4. CASE disk' = disk \ {r} /\ rt' = X!Release(job[r].owner) /\ X!Over(r)
  <2>1. rt' = [rt EXCEPT !.slots = rt.slots \ {job[r].owner}]
    BY <1>4, <1>3 DEF X!Release, RtType
  <2>2. /\ rt' \in RtType /\ rt'.slots = rt.slots \ {job[r].owner} /\ rt'.initialized = rt.initialized
        /\ rt'.closing = rt.closing
    BY <1>3, <2>1 DEF RtType
  <2> HIDE DEF Holding, RtType
  <2> QED BY <1>1, <1>2, <1>3, <1>4, <2>2, Leaves
<1>5. CASE X!ToEnd(r, "pinned") /\ UNCHANGED <<disk, rt>>
  <2>1. Moved(r, "pinned") /\ "pinned" \in Holding /\ "pinned" \in OnDisk
    BY <1>3, <1>5, JobEnd DEF Moved, Holding, X!Working, OnDisk
  <2>2. rt' \in RtType
    BY <1>3, <1>5 DEF RtType
  <2> HIDE DEF Holding, RtType, OnDisk
  <2> QED BY <1>1, <1>2, <1>3, <1>5, <2>1, <2>2, Keeps
<1> QED BY <1>4, <1>5 DEF X!Clean, X!Finish, X!RemoveThenRelease

\* Requests that stay as they are have the same types.
LEMMA JobsStay == JobTypes /\ job' = job => JobTypes'
<1> SUFFICES ASSUME JobTypes, job' = job PROVE JobTypes'
  OBVIOUS
<1>1. PICK j : j = job
  OBVIOUS
<1>2. job' = j
  BY <1>1
<1>3. /\ j = [r \in Request |-> j[r]]
      /\ \A r \in Request :
           /\ j[r] = [f \in JobFields |-> j[r][f]] /\ j[r].pc \in JobPcs
           /\ j[r].pc \in Holding \cup {"prepared"} => j[r].owner \in Owner
  BY <1>1 DEF JobTypes
<1> QED BY <1>2, <1>3 DEF JobTypes, JobFields, JobPcs, Holding, X!Working

\* The process starts: the root is emptied and no slot is taken.
LEMMA Begins == ASSUME ExportInv, X!Start PROVE ExportInv'
<1>1. stage = "down" /\ lives < MaxLives /\ lives' = lives + 1 /\ UNCHANGED <<workers, job>>
  BY DEF X!Start
<1>2. PICK s \in X!Startups :
        /\ disk' = s.disk
        /\ \/ s.raised = "probe" /\ stage' = "down" /\ UNCHANGED rt
           \/ s.raised # "probe" /\ stage' = "serving" /\ rt' = s.rt
  BY DEF X!Start
<1>3. Down /\ SlotTypes /\ JobTypes /\ X!ExportAssumption
  BY <1>1 DEF ExportInv
<1>4. /\ s.rt \in RtType /\ s.rt.slots = rt.slots /\ s.rt.closing = rt.closing
      /\ s.disk = {} /\ s.raised \in {"no", "probe"} /\ (s.raised = "no" => s.rt.initialized)
  BY <1>3, Started DEF Down
<1>5. rt.slots = {} /\ ~rt.closing
  BY <1>3 DEF Down, X!NewRuntime
<1>6. SlotTypes' /\ X!ExportAssumption'
  BY <1>1, <1>2, <1>3, <1>4 DEF SlotTypes, RtType, X!ExportAssumption, X!Fault
<1>7. JobTypes'
  BY <1>1, <1>3, JobsStay
<1>8. workers' = {} /\ \A r \in Request : job'[r].pc \in {"idle", "over"}
  BY <1>1, <1>3 DEF Down
<1>9. CASE stage' = "down" /\ UNCHANGED rt
  <2>1. Down'
    BY <1>3, <1>8, <1>9 DEF Down, X!NewRuntime
  <2> QED BY <1>6, <1>7, <1>9, <2>1 DEF ExportInv
<1>10. CASE stage' = "serving" /\ rt' = s.rt /\ s.raised # "probe"
  <2>1. rt'.initialized /\ ~rt'.closing /\ rt'.slots = {} /\ disk' = {}
    BY <1>2, <1>4, <1>5, <1>10
  <2>2. IsFiniteSet({}) /\ Cardinality({}) = 0 /\ MaxTotal \in Nat
    BY <1>3, FS_EmptySet DEF X!ExportAssumption
  <2>3. IsFiniteSet(rt'.slots) /\ Cardinality(rt'.slots) <= MaxTotal
    <3>1. PICK T : T = rt'.slots
      OBVIOUS
    <3>2. IsFiniteSet(T) /\ Cardinality(T) <= MaxTotal
      BY <2>1, <2>2, <3>1
    <3> QED BY <3>1, <3>2
  <2>4. \A r \in Request : job'[r].pc \notin Holding \cup {"prepared"}
    BY <1>8 DEF Holding, X!Working
  <2>5. SlotsFit'
    BY <1>8, <2>1, <2>3, <2>4 DEF SlotsFit, Holding, X!Working
  <2> QED BY <1>6, <1>7, <1>10, <2>5 DEF ExportInv
<1> QED BY <1>2, <1>9, <1>10

\* The process goes, in steps or at once.
LEMMA Ends ==
  ASSUME ExportInv, X!ShutdownBegin \/ X!ShutdownStop \/ X!ShutdownEnd PROVE ExportInv'
<1>1. SlotTypes /\ JobTypes /\ X!ExportAssumption /\ rt \in RtType
  BY DEF ExportInv, SlotTypes
<1>2. stage' \in {"closing", "stopped"} /\ UNCHANGED lives /\ disk' \subseteq disk /\ workers' \subseteq workers
  BY DEF X!ShutdownBegin, X!ShutdownStop, X!ShutdownEnd
<1>3. rt' \in RtType
  <2>1. CASE X!ShutdownBegin
    <3>1. rt' = [rt EXCEPT !.closing = TRUE, !.doomed = rt.active]
      BY <2>1 DEF X!ShutdownBegin
    <3> QED BY <1>1, <3>1 DEF RtType
  <2>2. CASE X!ShutdownStop
    <3>1. rt' = [rt EXCEPT !.doomed = {}]
      BY <2>2 DEF X!ShutdownStop
    <3> QED BY <1>1, <3>1 DEF RtType
  <2>3. CASE X!ShutdownEnd
    <3>1. rt' \in {X!NewRuntime, [rt EXCEPT !.closing = FALSE], rt}
      BY <2>3 DEF X!ShutdownEnd
    <3>2. X!NewRuntime \in RtType
      BY DEF X!NewRuntime, RtType
    <3> QED BY <1>1, <3>1, <3>2 DEF RtType
  <2> QED BY <2>1, <2>2, <2>3
<1>4. SlotTypes' /\ X!ExportAssumption'
  BY <1>1, <1>2, <1>3 DEF SlotTypes, RtType, X!ExportAssumption, X!Fault
<1>5. JobTypes'
  <2>1. CASE UNCHANGED job
    BY <1>1, <2>1, JobsStay
  <2>2. CASE X!ShutdownStop
    <3>1. job' = [r \in Request |-> IF r \in rt.doomed \cap workers THEN [job[r] EXCEPT !.exit = "bad"] ELSE job[r]]
      BY <2>2 DEF X!ShutdownStop
    <3>2. \A r \in Request : job'[r] = job[r] \/ job'[r] = [job[r] EXCEPT !.exit = "bad"]
      BY <3>1
    <3>3. job' = [r \in Request |-> job'[r]]
      BY <3>1
    <3>4. ASSUME NEW r \in Request
          PROVE  /\ job'[r] = [f \in JobFields |-> job'[r][f]] /\ job'[r].pc = job[r].pc
                 /\ job'[r].owner = job[r].owner
      <4>1. job[r] = [f \in JobFields |-> job[r][f]]
        BY <1>1 DEF JobTypes
      <4>2. CASE job'[r] = job[r]
        BY <4>1, <4>2
      <4>3. CASE job'[r] = [job[r] EXCEPT !.exit = "bad"]
        BY <4>1, <4>3 DEF JobFields
      <4> QED BY <3>2, <4>2, <4>3
    <3>5. \A r \in Request : /\ job'[r].pc \in JobPcs
                             /\ job'[r].pc \in Holding \cup {"prepared"} => job'[r].owner \in Owner
      BY <1>1, <3>4 DEF JobTypes
    <3> QED BY <3>3, <3>4, <3>5 DEF JobTypes, JobFields, JobPcs, Holding, X!Working
  <2> QED BY <2>1, <2>2 DEF X!ShutdownBegin, X!ShutdownEnd
<1> QED BY <1>2, <1>4, <1>5 DEF ExportInv

\* What dies takes its requests with it and leaves its directories.
LEMMA Dies == ASSUME ExportInv, X!Die PROVE ExportInv'
<1>1. SlotTypes /\ JobTypes /\ X!ExportAssumption
  BY DEF ExportInv
<1>2. stage' = "down" /\ workers' = {} /\ rt' = X!NewRuntime /\ UNCHANGED <<lives, disk>>
  BY DEF X!Die
<1>3. SlotTypes' /\ X!ExportAssumption'
  BY <1>1, <1>2 DEF SlotTypes, RtType, X!NewRuntime, X!ExportAssumption, X!Fault
<1>4. PICK z : z = [X!Idle EXCEPT !.pc = "over"]
  OBVIOUS
<1>5. z = [f \in JobFields |-> z[f]] /\ z.pc = "over"
  BY <1>4 DEF X!Idle, JobFields
<1>6. job' = [r \in Request |-> IF job[r].pc \in X!Working \cup {"prepared", "pinned"} THEN z ELSE job[r]]
  BY <1>4 DEF X!Die
<1>7. ASSUME NEW r \in Request
      PROVE  job'[r] = [f \in JobFields |-> job'[r][f]] /\ job'[r].pc \in {"idle", "over"}
  <2>1. CASE job[r].pc \in X!Working \cup {"prepared", "pinned"}
    <3>1. job'[r] = z
      BY <1>6, <2>1
    <3> QED BY <3>1, <1>5
  <2>2. CASE job[r].pc \notin X!Working \cup {"prepared", "pinned"}
    <3>1. job'[r] = job[r]
      BY <1>6, <2>2
    <3>2. job[r] = [f \in JobFields |-> job[r][f]] /\ job[r].pc \in JobPcs
      BY <1>1 DEF JobTypes
    <3>3. job[r].pc \in {"idle", "over"}
      BY <3>2, <2>2 DEF JobPcs, Holding
    <3> QED BY <3>1, <3>2, <3>3
  <2> QED BY <2>1, <2>2
<1>8. job' = [r \in Request |-> job'[r]]
  BY <1>6
<1>9. JobTypes'
  BY <1>7, <1>8 DEF JobTypes, JobFields, JobPcs, Holding, X!Working
<1>10. Down'
  BY <1>2, <1>7 DEF Down, X!NewRuntime
<1> QED BY <1>2, <1>3, <1>9, <1>10 DEF ExportInv

\* Every step, and a step that changes nothing.
LEMMA ExportNext == ExportInv /\ [X!Next]_(X!vars) => ExportInv'
<1> SUFFICES ASSUME ExportInv, [X!Next]_(X!vars) PROVE ExportInv'
  OBVIOUS
<1>1. CASE X!Start \/ X!ShutdownBegin \/ X!ShutdownStop \/ X!ShutdownEnd \/ X!Die
  BY <1>1, Begins, Ends, Dies
<1>2. CASE \E r \in Request : X!Prepare(r) \/ X!Steps(r) \/ X!WorkerExit(r) \/ X!Deadline(r) \/ X!Disconnect(r)
  BY <1>2, Prepares, Acquires, ChecksAssets, Spawns, Registers, Happens, Polls, Collects, Delivers, Removes
  DEF X!Steps
<1>3. CASE UNCHANGED X!vars
  <2>1. UNCHANGED <<stage, lives, rt, disk, workers, job>>
    BY <1>3 DEF X!vars
  <2>2. JobTypes'
    BY <2>1, JobsStay DEF ExportInv
  <2>3. SlotTypes' /\ X!ExportAssumption'
    BY <2>1 DEF ExportInv, SlotTypes, RtType, X!ExportAssumption, X!Fault
  <2>4. Down => Down'
    BY <2>1 DEF Down, X!NewRuntime
  <2>5. SlotsFit => SlotsFit'
    BY <2>1 DEF SlotsFit, Holding, X!Working, OnDisk
  <2> QED BY <2>1, <2>2, <2>3, <2>4, <2>5 DEF ExportInv
<1> QED BY <1>1, <1>2, <1>3 DEF X!Next

(* Whatever number of requests ask for files, whichever renderer, client, directory or process
   fails: a renderer or a directory belongs to a request whose account holds its slot, an
   account has one request under way and the service no more than its limit; and where the
   probe of the fonts does not fail, a slot that is taken has a request or a directory
   behind it. (ExportRuntime.acquire, generate, release, shutdown) *)
THEOREM SlotsStandForWork ==
  X!ExportAssumption /\ X!Spec =>
    [](X!TypeOK /\ X!SlotCoversWork /\ ("probe" \notin Faults => X!FailureFreesSlot))
<1>1. ExportInv /\ [X!Next]_(X!vars) => ExportInv'
  BY ExportNext
<1>2. X!ExportAssumption /\ X!Spec => []ExportInv
  BY ExportInit, <1>1, PTL DEF X!Spec
<1> QED BY <1>2, ExportSays, PTL

-----------------------------------------------------------------------------
(***************************************************************************)
(* AnalysisRun: one attempt at a time holds the run, what it has in mind   *)
(* is what the checkpoint says while the row is active, and an answer that *)
(* lasts is the one the completed checkpoint replays.                      *)
(***************************************************************************)
CONSTANTS Attempt, Who, Tasks
VARIABLES row, checkpoint, att, failures

A == INSTANCE AnalysisRun WITH disk <- checkpoint, faults <- failures

\* The nodes of the graph, and where an attempt has the run of the row.
Nodes == {"extract", "validate", "execute", "attribute", "summarize", "conclude"}
HasRun == Nodes \cup {"load", "replay"}
Lasts(c) == c.answer.kind \in {"report", "final"}
Begun(c) == c.pc \notin {"idle", "left"}
\* What a completed run with the checkpoint d answers.
Replays(d) == IF d.failure # None THEN [kind |-> "final", what |-> d.failure]
                                  ELSE [kind |-> "report", what |-> d.report]
\* Tasks are run in their order: before one that was run all are done.
InOrder(g) == \A u, t \in A!Task : u < t /\ g.results[t] # "none" => g.results[u] = "done"
AllDone(g) == \A t \in A!Task : g.results[t] = "done"

(* What an attempt at pc has behind it, with the graph g in mind. *)
StagedAs(g, pc, resumed, clean) ==
  /\ InOrder(g)
  /\ pc \in {"execute", "attribute", "summarize"} => g.plan /\ g.failure = None
  /\ pc \in {"attribute", "summarize"} => AllDone(g)
  /\ pc = "summarize" => g.attributed
  /\ pc = "validate" /\ ~g.plan => g.candidate # "none"
  /\ pc = "conclude" /\ g.failure = None => g.plan /\ g.attributed /\ g.report # None
  /\ resumed => pc \notin {"idle", "cleanup", "claim", "load", "replay"}
  /\ resumed /\ pc \in Nodes => g.plan
  /\ resumed /\ pc = "validate" => g.failure = None
  /\ resumed /\ clean /\ pc = "conclude" =>
       g.failure \notin A!Outage /\ \A t \in A!Task : g.results[t] # "outage"
Staged(c) == StagedAs(c.mem, c.pc, c.resumed, c.clean)

(* How a call fits the row r and the checkpoint d. *)
Fits(c, r, d) ==
  /\ c.pc \in HasRun => r.status # "none" /\ r.who = c.who
  /\ c.pc \in Nodes \cup {"load"} => r.status \in {"active", "expired"}
  /\ c.pc = "replay" => r.status \in {"completed", "expired"}
  /\ c.pc \in Nodes /\ r.status = "active" => c.mem = d
  /\ Lasts(c) => /\ c.pc \in {"answered", "left"} /\ r.status \in {"completed", "expired"}
                 /\ r.status = "completed" => Replays(d) = c.answer
  /\ c.pc = "answered" /\ c.clean /\ c.resumed /\ r.status # "expired" =>
       c.answer.kind \in {"report", "final", "stopped"}

\* The parts of the invariant.
Rows == [status : {"none", "active", "completed", "expired"}, who : Who \cup {None}, due : BOOLEAN]
RunTypes == A!TypeOK /\ row \in Rows /\ A!RunAssumption
AllFit == \A a \in Attempt : Staged(att[a]) /\ Fits(att[a], row, checkpoint)
Apart == \A a, b \in Attempt : a # b /\ Begun(att[a]) /\ Begun(att[b]) => att[a].who # att[b].who
Asked == \A a \in Attempt : att[a].pc # "idle" => att[a].who \in Who
Agree == \A a, b \in Attempt : Lasts(att[a]) /\ Lasts(att[b]) => att[a].answer = att[b].answer
\* Who reads the answer of an expired run may still find it.
ReadsOne == \A a, b \in Attempt : Lasts(att[a]) /\ att[b].pc = "replay" =>
           checkpoint = A!Empty \/ Replays(checkpoint) = att[a].answer

(* The inductive invariant. *)
RunInv == RunTypes /\ InOrder(checkpoint) /\ AllFit /\ Apart /\ Asked /\ Agree /\ ReadsOne

-----------------------------------------------------------------------------
\* The checkpoint of a run that has not started.
LEMMA EmptyFits == A!Empty \in A!Graph /\ InOrder(A!Empty)
  BY DEF A!Empty, A!Graph, InOrder, A!Task, A!Result

\* A run starts without row, checkpoint and attempts.
LEMMA RunInit == A!RunAssumption /\ A!Init => RunInv
<1> SUFFICES ASSUME A!RunAssumption, A!Init PROVE RunInv
  OBVIOUS
<1>1. ASSUME NEW a \in Attempt
      PROVE  /\ att[a] \in A!Call /\ Staged(att[a]) /\ Fits(att[a], row, checkpoint)
             /\ ~Lasts(att[a]) /\ ~Begun(att[a]) /\ att[a].pc = "idle"
  <2>0. att[a].pc = "idle"
    BY DEF A!Init
  <2>1. att[a] = [pc |-> "idle", who |-> None, mem |-> A!Empty, stop |-> FALSE,
                  clean |-> TRUE, resumed |-> FALSE, answer |-> A!Nothing]
    BY DEF A!Init
  <2>2. A!Nothing \in A!Answer /\ A!Nothing.kind = "none"
    BY DEF A!Nothing, A!Answer
  <2>3. att[a] \in A!Call
    BY <2>1, <2>2, EmptyFits DEF A!Call, A!Step
  <2> QED BY <2>0, <2>1, <2>2, <2>3, EmptyFits DEF Staged, StagedAs, Fits, Lasts, Begun, Nodes, HasRun
<1>2. row \in Rows /\ checkpoint = A!Empty /\ failures = 0 /\ MaxFaults \in Nat
  BY DEF A!Init, Rows, A!RunAssumption
<1>3. att \in [Attempt -> A!Call]
  BY <1>1 DEF A!Init
<1>4. A!TypeOK
  BY <1>2, <1>3, EmptyFits DEF A!TypeOK, Rows
<1> QED BY <1>1, <1>2, <1>4, EmptyFits DEF RunInv, RunTypes, AllFit, Apart, Asked, Agree, ReadsOne

\* One attempt takes a step; the others still fit.
LEMMA Moves ==
  ASSUME RunInv, NEW a \in Attempt, NEW c \in A!Call, att' = [att EXCEPT ![a] = c],
         row' \in Rows, checkpoint' \in A!Graph, failures' \in 0 .. MaxFaults, InOrder(checkpoint'),
         c.who = att[a].who, Begun(c) => Begun(att[a]), c.pc # "idle" => att[a].pc # "idle",
         Staged(c), Fits(c, row', checkpoint'),
         \A b \in Attempt \ {a} : Fits(att[b], row', checkpoint'),
         Agree', ReadsOne'
  PROVE  RunInv'
<1>1. att \in [Attempt -> A!Call] /\ A!RunAssumption
  BY DEF RunInv, RunTypes, A!TypeOK
<1>2. att' \in [Attempt -> A!Call] /\ att'[a] = c /\ \A b \in Attempt \ {a} : att'[b] = att[b]
  BY <1>1
<1>3. RunTypes'
  BY <1>1, <1>2 DEF RunTypes, A!TypeOK, Rows, A!RunAssumption, A!Failure, A!Permanent, A!Outage
<1>4. AllFit'
  BY <1>2 DEF RunInv, AllFit
<1>5. Apart'
  BY <1>2 DEF RunInv, Apart
<1>6. Asked'
  BY <1>2 DEF RunInv, Asked
<1> QED BY <1>3, <1>4, <1>5, <1>6 DEF RunInv

\* What the others have answered, and what they read, where a step gives no lasting answer.
LEMMA NothingSaid ==
  ASSUME RunInv, NEW a \in Attempt, NEW c \in A!Call, att' = [att EXCEPT ![a] = c],
         c.answer = att[a].answer \/ ~Lasts(c)
  PROVE  /\ Agree'
         /\ (c.pc = "replay" => att[a].pc = "replay") /\ checkpoint' \in {checkpoint, A!Empty} => ReadsOne'
<1>1. att \in [Attempt -> A!Call]
  BY DEF RunInv, RunTypes, A!TypeOK
<1>2. att'[a] = c /\ \A b \in Attempt \ {a} : att'[b] = att[b]
  BY <1>1
<1>3. \A b \in Attempt : Lasts(att'[b]) => Lasts(att[b]) /\ att'[b].answer = att[b].answer
  BY <1>2 DEF Lasts
<1>4. Agree'
  BY <1>3 DEF RunInv, Agree
<1>5. ASSUME c.pc = "replay" => att[a].pc = "replay", checkpoint' \in {checkpoint, A!Empty}
      PROVE  ReadsOne'
  <2>1. \A b \in Attempt : att'[b].pc = "replay" => att[b].pc = "replay"
    BY <1>2, <1>5
  <2>2. ASSUME NEW x \in Attempt, NEW b \in Attempt, Lasts(att'[x]), att'[b].pc = "replay"
        PROVE  checkpoint' = A!Empty \/ Replays(checkpoint') = att'[x].answer
    <3>1. Lasts(att[x]) /\ att'[x].answer = att[x].answer /\ att[b].pc = "replay"
      BY <1>3, <2>1, <2>2
    <3>2. checkpoint = A!Empty \/ Replays(checkpoint) = att[x].answer
      BY <3>1 DEF RunInv, ReadsOne
    <3>3. CASE checkpoint' = A!Empty
      BY <3>3
    <3>4. CASE checkpoint' = checkpoint
      BY <3>1, <3>2, <3>4 DEF Replays
    <3> QED BY <3>3, <3>4, <1>5
  <2> QED BY <2>2 DEF ReadsOne
<1> QED BY <1>4, <1>5

\* A step of one attempt that leaves the row and the checkpoint alone.
LEMMA NothingNew ==
  ASSUME RunInv, NEW a \in Attempt, NEW c \in A!Call, att' = [att EXCEPT ![a] = c],
         row' = row, checkpoint' = checkpoint, failures' \in 0 .. MaxFaults,
         c.who = att[a].who, Begun(c) => Begun(att[a]), c.pc # "idle" => att[a].pc # "idle",
         c.answer = att[a].answer \/ ~Lasts(c), c.pc = "replay" => att[a].pc = "replay",
         Staged(c), Fits(c, row, checkpoint)
  PROVE  RunInv'
<1>1. row' \in Rows /\ checkpoint' \in A!Graph /\ InOrder(checkpoint')
  BY DEF RunInv, RunTypes, A!TypeOK, InOrder
<1>2. Agree' /\ ReadsOne'
  BY NothingSaid
<1>3. Fits(c, row', checkpoint') /\ \A b \in Attempt \ {a} : Fits(att[b], row', checkpoint')
  BY Zenon DEF RunInv, AllFit
<1> QED BY <1>1, <1>2, <1>3, Moves

\* An expired row fits every call, whatever became of the checkpoint.
LEMMA FitsExpired ==
  ASSUME NEW c, NEW r, NEW d, NEW r2, NEW d2, Fits(c, r, d),
         r2.status = "expired", c.pc \in HasRun => r2.who = r.who
  PROVE  Fits(c, r2, d2)
  BY DEF Fits, HasRun, Nodes

\* One attempt at most holds the run.
LEMMA Alone ==
  ASSUME RunInv, NEW a \in Attempt, NEW b \in Attempt, att[a].pc \in HasRun, att[b].pc \in HasRun
  PROVE  a = b
<1>1. att[a].who = row.who /\ att[b].who = row.who
  BY DEF RunInv, AllFit, Fits
<1>2. Begun(att[a]) /\ Begun(att[b])
  BY DEF Begun, HasRun, Nodes
<1> QED BY <1>1, <1>2 DEF RunInv, Apart

\* A node ends and saves its state.
LEMMA Saves ==
  ASSUME RunInv, NEW a \in Attempt, NEW c \in A!Call, att' = [att EXCEPT ![a] = c],
         row' = row, checkpoint' = c.mem, failures' \in 0 .. MaxFaults, c.who = att[a].who,
         c.answer = att[a].answer, att[a].pc \in Nodes, c.pc \in Nodes, Staged(c)
  PROVE  RunInv'
<1>1. att \in [Attempt -> A!Call] /\ row' \in Rows /\ row \in Rows
  BY DEF RunInv, RunTypes, A!TypeOK
<1>2. checkpoint' \in A!Graph /\ InOrder(checkpoint')
  <2>1. c.mem \in A!Graph /\ InOrder(c.mem)
    BY DEF A!Call, Staged, StagedAs
  <2> QED BY <2>1 DEF InOrder
<1>3. Fits(att[a], row, checkpoint) /\ Begun(att[a]) /\ att[a].pc \in HasRun /\ att[a].pc # "idle"
  BY DEF RunInv, AllFit, Begun, Nodes, HasRun
<1>4. row.status \in {"active", "expired"} /\ row.who = c.who /\ ~Lasts(att[a])
  BY <1>3 DEF Fits, Nodes, HasRun
<1>5. Fits(c, row', checkpoint')
  BY <1>4 DEF Fits, Nodes, HasRun, Lasts
<1>6. ASSUME NEW b \in Attempt \ {a} PROVE att[b].pc \notin HasRun /\ Fits(att[b], row', checkpoint')
  <2>1. att[b].pc \notin HasRun /\ Fits(att[b], row, checkpoint)
    BY <1>3, Alone DEF RunInv, AllFit
  <2> QED BY <2>1, <1>4 DEF Fits, Nodes, HasRun
<1>7. Agree'
  BY NothingSaid
<1>8. ReadsOne'
  <2>1. \A b \in Attempt : att'[b].pc # "replay"
    BY <1>1, <1>6 DEF Nodes, HasRun
  <2> QED BY <2>1 DEF ReadsOne
<1> QED BY <1>1, <1>2, <1>3, <1>5, <1>6, <1>7, <1>8, Moves

\* An attempt ends without a lasting answer.
LEMMA Ended ==
  ASSUME RunInv, NEW a \in Attempt, NEW c \in A!Call, att' = [att EXCEPT ![a] = c],
         UNCHANGED <<row, checkpoint>>, failures' \in 0 .. MaxFaults, Begun(att[a]),
         c.pc = "answered", c.who = att[a].who, c.mem = att[a].mem, c.resumed = att[a].resumed,
         ~Lasts(c), c.clean /\ c.resumed /\ row.status # "expired" => c.answer.kind = "stopped"
  PROVE  RunInv'
<1>1. Staged(c)
  BY DEF RunInv, AllFit, Staged, StagedAs, Nodes
<1>2. Fits(c, row, checkpoint)
  BY DEF Fits, Lasts, Nodes, HasRun
<1> QED BY <1>1, <1>2, NothingNew DEF Begun

\* What Return does to an attempt.
LEMMA Returned ==
  ASSUME RunInv, NEW a \in Attempt, NEW k, NEW w, A!Return(a, k, w),
         [kind |-> k, what |-> w] \in A!Answer
  PROVE  \E c \in A!Call : /\ att' = [att EXCEPT ![a] = c] /\ c.pc = "answered"
                            /\ c.who = att[a].who /\ c.mem = att[a].mem /\ c.resumed = att[a].resumed
                            /\ c.clean = att[a].clean /\ c.answer = [kind |-> k, what |-> w]
<1>1. att \in [Attempt -> A!Call]
  BY DEF RunInv, RunTypes, A!TypeOK
<1>2. PICK ans \in A!Answer : ans = [kind |-> k, what |-> w]
  OBVIOUS
<1>3. PICK c : c = [att[a] EXCEPT !.pc = "answered", !.answer = ans]
  OBVIOUS
<1>4. /\ c \in A!Call /\ c.pc = "answered" /\ c.answer = ans
      /\ c.who = att[a].who /\ c.mem = att[a].mem /\ c.resumed = att[a].resumed /\ c.clean = att[a].clean
  BY <1>1, <1>3 DEF A!Call, A!Step
<1>5. att' = [att EXCEPT ![a] = c]
  BY <1>1, <1>2, <1>3 DEF A!Return
<1> QED BY <1>2, <1>4, <1>5

\* What Faulty does to an attempt.
LEMMA Failed ==
  ASSUME RunInv, NEW a \in Attempt, NEW k, NEW w, A!Faulty(a, k, w),
         [kind |-> k, what |-> w] \in A!Answer
  PROVE  /\ failures' \in 0 .. MaxFaults
         /\ \E c \in A!Call : /\ att' = [att EXCEPT ![a] = c] /\ c.pc = "answered"
                               /\ c.who = att[a].who /\ c.mem = att[a].mem /\ c.resumed = att[a].resumed
                               /\ ~c.clean /\ c.answer = [kind |-> k, what |-> w]
<1>1. att \in [Attempt -> A!Call] /\ failures \in 0 .. MaxFaults /\ MaxFaults \in Nat
  BY DEF RunInv, RunTypes, A!TypeOK, A!RunAssumption
<1>2. PICK ans \in A!Answer : ans = [kind |-> k, what |-> w]
  OBVIOUS
<1>3. PICK c : c = [att[a] EXCEPT !.pc = "answered", !.clean = FALSE, !.answer = ans]
  OBVIOUS
<1>4. /\ c \in A!Call /\ c.pc = "answered" /\ c.answer = ans
      /\ c.who = att[a].who /\ c.mem = att[a].mem /\ c.resumed = att[a].resumed /\ c.clean = FALSE
  BY <1>1, <1>3 DEF A!Call, A!Step
<1>5. att' = [att EXCEPT ![a] = c]
  BY <1>1, <1>2, <1>3 DEF A!Faulty
<1>6. failures' \in 0 .. MaxFaults
  BY <1>1 DEF A!Faulty
<1> QED BY <1>2, <1>4, <1>5, <1>6

\* The answers that are given.
LEMMA Answers ==
  \A k, w : /\ k \in {"none", "report", "final", "retry", "conflict", "stopped", "unconfirmed"}
            /\ w \in Attempt \cup A!Failure \cup {None}
            => [kind |-> k, what |-> w] \in A!Answer
  BY DEF A!Answer

\* A stop ends an attempt.
LEMMA Stops ==
  ASSUME RunInv, NEW a \in Attempt, Begun(att[a]), A!Return(a, "stopped", None), UNCHANGED <<row, checkpoint, failures>>
  PROVE  RunInv'
<1>1. [kind |-> "stopped", what |-> None] \in A!Answer
  BY Answers
<1>2. failures' \in 0 .. MaxFaults
  BY DEF RunInv, RunTypes, A!TypeOK
<1>3. PICK c \in A!Call : /\ att' = [att EXCEPT ![a] = c] /\ c.pc = "answered"
                          /\ c.who = att[a].who /\ c.mem = att[a].mem /\ c.resumed = att[a].resumed
                          /\ c.answer = [kind |-> "stopped", what |-> None]
  BY <1>1, Returned
<1>4. ~Lasts(c) /\ c.answer.kind = "stopped"
  BY <1>3 DEF Lasts
<1> QED BY <1>2, <1>3, <1>4, Ended

\* A call that fails ends an attempt.
LEMMA RunBreaks ==
  ASSUME RunInv, NEW a \in Attempt, Begun(att[a]), NEW k \in {"retry", "unconfirmed"},
         NEW w \in A!Failure \cup {None}, A!Faulty(a, k, w), UNCHANGED <<row, checkpoint>>
  PROVE  RunInv'
<1>1. [kind |-> k, what |-> w] \in A!Answer
  BY Answers
<1>2. PICK c \in A!Call : /\ att' = [att EXCEPT ![a] = c] /\ c.pc = "answered"
                          /\ c.who = att[a].who /\ c.mem = att[a].mem /\ c.resumed = att[a].resumed
                          /\ ~c.clean /\ c.answer = [kind |-> k, what |-> w]
  BY <1>1, Failed
<1>3. failures' \in 0 .. MaxFaults
  BY <1>1, Failed
<1>4. ~Lasts(c)
  BY <1>2 DEF Lasts
<1> QED BY <1>2, <1>3, <1>4, Ended

\* Only where an attempt is changes.
LEMMA Gone ==
  ASSUME RunInv, NEW a \in Attempt, NEW pc \in A!Step, A!Goto(a, pc)
  PROVE  \E c \in A!Call : /\ att' = [att EXCEPT ![a] = c] /\ c = [att[a] EXCEPT !.pc = pc] /\ c.pc = pc
                            /\ c.who = att[a].who /\ c.mem = att[a].mem /\ c.resumed = att[a].resumed
                            /\ c.clean = att[a].clean /\ c.answer = att[a].answer
<1>1. att \in [Attempt -> A!Call]
  BY DEF RunInv, RunTypes, A!TypeOK
<1>2. PICK c : c = [att[a] EXCEPT !.pc = pc]
  OBVIOUS
<1>3. /\ c \in A!Call /\ c.pc = pc /\ c.answer = att[a].answer
      /\ c.who = att[a].who /\ c.mem = att[a].mem /\ c.resumed = att[a].resumed /\ c.clean = att[a].clean
  BY <1>1, <1>2 DEF A!Call
<1>4. att' = [att EXCEPT ![a] = c]
  BY <1>1, <1>2 DEF A!Goto
<1> QED BY <1>2, <1>3, <1>4

\* The row expires, with or without its checkpoint, while an attempt stays out of it.
LEMMA Expired ==
  ASSUME RunInv, NEW a \in Attempt, NEW c \in A!Call, att' = [att EXCEPT ![a] = c],
         row' \in Rows, row'.status = "expired", row.status # "none" => row'.who = row.who,
         checkpoint' \in {checkpoint, A!Empty}, UNCHANGED failures,
         c.who = att[a].who, Begun(c) => Begun(att[a]), c.pc # "idle" => att[a].pc # "idle", c.answer = att[a].answer,
         c.pc = att[a].pc \/ c.pc \notin HasRun \cup {"answered"},
         Staged(c), Lasts(c) => c.pc \in {"answered", "left"}
  PROVE  RunInv'
<1>1. failures' \in 0 .. MaxFaults /\ checkpoint' \in A!Graph /\ InOrder(checkpoint')
  <2>1. failures \in 0 .. MaxFaults /\ checkpoint \in A!Graph /\ InOrder(checkpoint)
    BY DEF RunInv, RunTypes, A!TypeOK
  <2>2. CASE checkpoint' = checkpoint
    BY <2>1, <2>2 DEF InOrder
  <2>3. CASE checkpoint' = A!Empty
    BY <2>1, <2>3, EmptyFits DEF InOrder
  <2> QED BY <2>1, <2>2, <2>3
<1>2. ASSUME NEW b \in Attempt PROVE Fits(att[b], row', checkpoint')
  <2>1. Fits(att[b], row, checkpoint)
    BY DEF RunInv, AllFit
  <2>2. att[b].pc \in HasRun => row'.who = row.who
    BY <2>1 DEF Fits
  <2> QED BY <2>1, <2>2, FitsExpired
<1>3. Fits(c, row', checkpoint')
  <2>1. CASE c.pc = att[a].pc
    <3>1. Fits(att[a], row', checkpoint')
      BY <1>2
    <3> QED BY <2>1, <3>1 DEF Fits, HasRun, Nodes, Lasts
  <2>2. CASE c.pc \notin HasRun \cup {"answered"}
    BY <2>2 DEF Fits, HasRun, Nodes
  <2> QED BY <2>1, <2>2
<1>4. c.pc = "replay" => att[a].pc = "replay"
  BY DEF HasRun
<1>5. Agree' /\ ReadsOne'
  BY <1>4, NothingSaid
<1> QED BY <1>1, <1>2, <1>3, <1>5, Moves

\* The same where no attempt moves.
LEMMA RowExpires ==
  ASSUME RunInv, row' \in Rows, row'.status = "expired", row.status # "none" => row'.who = row.who,
         checkpoint' \in {checkpoint, A!Empty}, UNCHANGED <<att, failures>>
  PROVE  RunInv'
<1>1. att \in [Attempt -> A!Call] /\ A!TypeOK /\ A!RunAssumption
  BY DEF RunInv, RunTypes, A!TypeOK
<1>2. CASE \E a \in Attempt : TRUE
  <2>1. PICK a \in Attempt : TRUE
    BY <1>2
  <2>2. PICK c \in A!Call : c = att[a]
    BY <1>1
  <2>3. att' = [att EXCEPT ![a] = c]
    BY <1>1, <2>2
  <2>4. Staged(c) /\ (Lasts(c) => c.pc \in {"answered", "left"})
    BY <2>2 DEF RunInv, AllFit, Fits
  <2>5. UNCHANGED failures
    OBVIOUS
  <2> QED BY <2>2, <2>3, <2>4, <2>5, Expired
<1>3. CASE Attempt = {}
  <2>1. checkpoint \in A!Graph /\ InOrder(checkpoint)
    BY DEF RunInv, RunTypes, A!TypeOK
  <2>2. checkpoint' \in A!Graph /\ InOrder(checkpoint')
    BY <2>1, EmptyFits DEF InOrder
  <2>3. RunTypes'
    BY <1>1, <2>2 DEF RunTypes, A!TypeOK, Rows, A!RunAssumption, A!Failure, A!Permanent, A!Outage
  <2>4. AllFit' /\ Apart' /\ Asked' /\ Agree' /\ ReadsOne'
    BY <1>3 DEF AllFit, Apart, Asked, Agree, ReadsOne
  <2> QED BY <2>2, <2>3, <2>4 DEF RunInv
<1> QED BY <1>2, <1>3

\* The cleanup before a claim.
LEMMA CleansFirst == ASSUME RunInv, NEW a \in Attempt, A!CleanupFirst(a) PROVE RunInv'
<1>1. att[a].pc = "cleanup" /\ Begun(att[a]) /\ Staged(att[a]) /\ ~Lasts(att[a]) /\ row \in Rows
  BY DEF A!CleanupFirst, A!At, Begun, RunInv, RunTypes, AllFit, Fits
<1>2. CASE A!Stopped(a)
  BY <1>1, <1>2, Stops DEF A!Stopped
<1>3. CASE A!Free(a) /\ A!Faulty(a, "retry", "context") /\ UNCHANGED <<row, checkpoint>>
  BY <1>1, <1>3, RunBreaks DEF A!Failure, A!Outage
<1>4. CASE A!Free(a) /\ A!CleanupExpired /\ A!Goto(a, "claim") /\ UNCHANGED failures
  <2>1. PICK c \in A!Call : /\ att' = [att EXCEPT ![a] = c] /\ c.pc = "claim"
                            /\ c.who = att[a].who /\ c.mem = att[a].mem /\ c.resumed = att[a].resumed
                            /\ c.answer = att[a].answer
    BY <1>4, Gone DEF A!Step
  <2>2. Staged(c) /\ ~Lasts(c) /\ Begun(c)
    BY <1>1, <2>1 DEF Staged, StagedAs, Lasts, Begun, Nodes
  <2>3. CASE A!Expires
    <3>1. row' = [row EXCEPT !.status = "expired"] /\ checkpoint' = A!Empty
      BY <1>4, <2>3 DEF A!CleanupExpired
    <3>2. row' \in Rows /\ row'.status = "expired" /\ row'.who = row.who
      BY <1>1, <3>1 DEF Rows
    <3> QED BY <1>1, <1>4, <2>1, <2>2, <3>1, <3>2, Expired DEF HasRun, Nodes
  <2>4. CASE ~A!Expires
    <3>1. UNCHANGED <<row, checkpoint>>
      BY <1>4, <2>4 DEF A!CleanupExpired
    <3>2. Fits(c, row, checkpoint)
      BY <2>1, <2>2 DEF Fits, HasRun, Nodes
    <3>3. failures' \in 0 .. MaxFaults
      BY <1>4 DEF RunInv, RunTypes, A!TypeOK
    <3> QED BY <1>1, <2>1, <2>2, <3>1, <3>2, <3>3, NothingNew
  <2> QED BY <2>3, <2>4
<1> QED BY <1>2, <1>3, <1>4 DEF A!CleanupFirst

\* The claim of a run: its row is inserted, taken over, replayed or refused.
LEMMA Claims == ASSUME RunInv, NEW a \in Attempt, A!Claim(a) PROVE RunInv'
<1>1. att[a].pc = "claim" /\ Begun(att[a]) /\ Staged(att[a]) /\ Fits(att[a], row, checkpoint)
  BY DEF A!Claim, A!At, Begun, RunInv, AllFit
<1>2. row \in Rows /\ att[a] \in A!Call /\ A!RunAssumption /\ failures \in 0 .. MaxFaults
  BY DEF RunInv, RunTypes, A!TypeOK
<1>3. ~Lasts(att[a]) /\ ~att[a].resumed
  BY <1>1 DEF Fits, Staged, StagedAs
<1>4. att[a].who \in Who
  BY <1>1, <1>2 DEF RunInv, Asked
<1>5. CASE A!Faulty(a, "retry", "context") /\ UNCHANGED <<row, checkpoint>>
  BY <1>1, <1>5, RunBreaks DEF A!Failure, A!Outage
<1> DEFINE w == att[a].who
<1>6. ASSUME row' = A!Claimed(w), UNCHANGED <<checkpoint, failures>>,
             \/ ~A!Conflicts(w) /\ A!Goto(a, A!AfterClaim)
             \/ ~A!Conflicts(w) /\ A!Return(a, "stopped", None)
             \/ A!Conflicts(w) /\ A!Return(a, "conflict", None)
      PROVE  RunInv'
  <2>1. /\ row' \in Rows
        /\ row.status = "none" => row'.status = "active" /\ row'.who = w
        /\ row.status # "none" => row' = row
    BY <1>2, <1>4, <1>6 DEF A!Claimed, Rows
  <2>2. ASSUME NEW b \in Attempt PROVE Fits(att[b], row', checkpoint')
    <3>1. Fits(att[b], row, checkpoint)
      BY DEF RunInv, AllFit
    <3>2. CASE row.status = "none"
      BY <3>1, <3>2, <2>1 DEF Fits, HasRun, Nodes
    <3>3. CASE row.status # "none"
      BY <3>1, <3>3, <2>1, <1>6
    <3> QED BY <3>2, <3>3
  <2>3. failures' \in 0 .. MaxFaults /\ checkpoint' \in A!Graph /\ InOrder(checkpoint') /\ checkpoint' = checkpoint
    BY <1>2, <1>6 DEF InOrder, RunInv, RunTypes, A!TypeOK
  <2>4. CASE A!Conflicts(w) /\ A!Return(a, "conflict", None)
    <3>1. UNCHANGED <<row, checkpoint>>
      BY <2>1, <2>3, <2>4 DEF A!Conflicts
    <3>2. PICK c \in A!Call : /\ att' = [att EXCEPT ![a] = c] /\ c.pc = "answered"
                              /\ c.who = att[a].who /\ c.mem = att[a].mem /\ c.resumed = att[a].resumed
                              /\ c.answer = [kind |-> "conflict", what |-> None]
      BY <2>4, Answers, Returned
    <3>3. ~Lasts(c) /\ ~c.resumed
      BY <3>2, <1>3 DEF Lasts
    <3> QED BY <1>1, <2>3, <3>1, <3>2, <3>3, Ended
  <2>5. CASE ~A!Conflicts(w) /\ A!Return(a, "stopped", None)
    <3>1. PICK c \in A!Call : /\ att' = [att EXCEPT ![a] = c] /\ c.pc = "answered"
                              /\ c.who = att[a].who /\ c.mem = att[a].mem /\ c.resumed = att[a].resumed
                              /\ c.answer = [kind |-> "stopped", what |-> None]
      BY <2>5, Answers, Returned
    <3>2. ~Lasts(c) /\ ~c.resumed /\ Staged(c)
      BY <3>1, <1>1, <1>3 DEF Lasts, Staged, StagedAs, Nodes
    <3>3. Fits(c, row', checkpoint')
      BY <3>1, <3>2 DEF Fits, HasRun, Nodes
    <3>4. Agree' /\ ReadsOne'
      BY <3>1, <3>2, <2>3, NothingSaid
    <3> QED BY <1>1, <2>1, <2>2, <2>3, <3>1, <3>2, <3>3, <3>4, Moves
  <2>6. CASE ~A!Conflicts(w) /\ A!Goto(a, A!AfterClaim)
    <3>1. PICK c \in A!Call : /\ att' = [att EXCEPT ![a] = c] /\ c.pc = A!AfterClaim
                              /\ c.who = att[a].who /\ c.mem = att[a].mem /\ c.resumed = att[a].resumed
                              /\ c.answer = att[a].answer
      BY <2>6, Gone DEF A!Step, A!AfterClaim
    <3>2. row.status # "none" => row.who = w /\ row.status # "expired"
      BY <2>6 DEF A!Conflicts
    <3>3. ~Lasts(c) /\ ~c.resumed /\ Staged(c)
      BY <3>1, <1>1, <1>3 DEF Lasts, Staged, StagedAs, Nodes, A!AfterClaim
    <3>4. Fits(c, row', checkpoint')
      BY <3>1, <3>2, <3>3, <2>1, <1>2 DEF Fits, HasRun, Nodes, A!AfterClaim, Rows
    <3>5. Agree'
      BY <3>1, NothingSaid
    <3>6. ReadsOne'
      <4>1. CASE c.pc = "replay"
        <5>1. row.status = "completed"
          BY <3>1, <4>1 DEF A!AfterClaim
        <5>2. \A b \in Attempt : Lasts(att[b]) => Replays(checkpoint) = att[b].answer
          BY <5>1 DEF RunInv, AllFit, Fits
        <5>3. att \in [Attempt -> A!Call]
          BY DEF RunInv, RunTypes, A!TypeOK
        <5>4. \A b \in Attempt : Lasts(att'[b]) => Lasts(att[b]) /\ att'[b].answer = att[b].answer
          BY <3>1, <3>3, <5>3
        <5>5. Replays(checkpoint') = Replays(checkpoint)
          BY <2>3
        <5> QED BY <5>2, <5>4, <5>5 DEF ReadsOne
      <4>2. CASE c.pc # "replay"
        BY <3>1, <4>2, <2>3, NothingSaid
      <4> QED BY <4>1, <4>2
    <3>7. Begun(c) => Begun(att[a])
      BY <1>1
    <3> QED BY <1>1, <2>1, <2>2, <2>3, <3>1, <3>3, <3>4, <3>5, <3>6, <3>7, Moves
  <2> QED BY <1>6, <2>4, <2>5, <2>6
<1> QED BY <1>5, <1>6 DEF A!Claim

\* What the graph starts with.
LEMMA RunLoads == ASSUME RunInv, NEW a \in Attempt, A!Load(a) PROVE RunInv'
<1>1. att[a].pc = "load" /\ Begun(att[a]) /\ Staged(att[a]) /\ Fits(att[a], row, checkpoint)
  BY DEF A!Load, A!At, Begun, RunInv, AllFit
<1>2. att \in [Attempt -> A!Call] /\ checkpoint \in A!Graph /\ failures \in 0 .. MaxFaults /\ InOrder(checkpoint)
  BY DEF RunInv, RunTypes, A!TypeOK
<1>3. CASE A!Faulty(a, "retry", "context") /\ UNCHANGED <<row, checkpoint>>
  BY <1>1, <1>3, RunBreaks DEF A!Failure, A!Outage
<1>4. CASE /\ att' = [att EXCEPT ![a].pc = "extract", ![a].mem = checkpoint, ![a].resumed = checkpoint.plan]
           /\ UNCHANGED <<row, checkpoint, failures>>
  <2>1. PICK p : p = checkpoint.plan
    OBVIOUS
  <2>2. p \in BOOLEAN
    BY <1>2, <2>1 DEF A!Graph
  <2>3. PICK c : c = [att[a] EXCEPT !.pc = "extract", !.mem = checkpoint, !.resumed = p]
    OBVIOUS
  <2>4. /\ c \in A!Call /\ c.pc = "extract" /\ c.mem = checkpoint /\ c.resumed = p
        /\ c.who = att[a].who /\ c.answer = att[a].answer
    BY <1>2, <2>2, <2>3 DEF A!Call, A!Step
  <2>5. att' = [att EXCEPT ![a] = c]
    BY <1>2, <1>4, <2>1, <2>3
  <2>6. ~Lasts(c)
    BY <1>1, <2>4 DEF Fits, Lasts
  <2>7. Staged(c)
    BY <1>2, <2>1, <2>4 DEF Staged, StagedAs, Nodes
  <2>8. Fits(c, row, checkpoint)
    BY <1>1, <2>4, <2>6 DEF Fits, Nodes, HasRun
  <2> QED BY <1>1, <1>2, <1>4, <2>4, <2>5, <2>7, <2>8, NothingNew
<1> QED BY <1>3, <1>4 DEF A!Load

\* A reservation: the asker has no other attempt under way.
LEMMA Reserves == ASSUME RunInv, NEW a \in Attempt, NEW w \in Who, A!Reserve(a, w) PROVE RunInv'
<1>1. /\ att[a].pc = "idle" /\ UNCHANGED <<row, checkpoint, failures>>
      /\ \A b \in Attempt : Begun(att[b]) => att[b].who # w
  BY DEF A!Reserve, A!At, A!Running, Begun
<1>2. att \in [Attempt -> A!Call] /\ Staged(att[a]) /\ Fits(att[a], row, checkpoint)
  BY DEF RunInv, RunTypes, A!TypeOK, AllFit
<1>3. PICK c : c = [att[a] EXCEPT !.pc = "cleanup", !.who = w]
  OBVIOUS
<1>4. /\ c \in A!Call /\ c.pc = "cleanup" /\ c.who = w
      /\ c.mem = att[a].mem /\ c.resumed = att[a].resumed /\ c.answer = att[a].answer
  BY <1>2, <1>3 DEF A!Call, A!Step
<1>5. att' = [att EXCEPT ![a] = c]
  BY <1>2, <1>3 DEF A!Reserve
<1>6. att' \in [Attempt -> A!Call] /\ att'[a] = c /\ \A b \in Attempt \ {a} : att'[b] = att[b]
  BY <1>2, <1>4, <1>5
<1>7. ~Lasts(c) /\ Staged(c) /\ Fits(c, row, checkpoint)
  BY <1>1, <1>2, <1>4 DEF Staged, StagedAs, Fits, Lasts, Nodes, HasRun
<1>8. RunTypes' /\ InOrder(checkpoint')
  BY <1>1, <1>6 DEF RunInv, RunTypes, A!TypeOK, A!RunAssumption, A!Failure, A!Permanent, A!Outage, InOrder
<1>9. AllFit'
  <2>1. ASSUME NEW b \in Attempt PROVE Staged(att'[b]) /\ Fits(att'[b], row, checkpoint)
    BY <1>6, <1>7 DEF RunInv, AllFit
  <2> QED BY <2>1, <1>1 DEF AllFit
<1>10. Apart'
  BY <1>1, <1>4, <1>6 DEF RunInv, Apart, Begun
<1>11. Asked'
  BY <1>4, <1>6 DEF RunInv, Asked
<1>12. Agree' /\ ReadsOne'
  BY <1>1, <1>4, <1>5, NothingSaid
<1> QED BY <1>8, <1>9, <1>10, <1>11, <1>12 DEF RunInv

\* A stop is signalled, or the caller leaves with what it was given.
LEMMA SignalsAndLeaves == ASSUME RunInv, NEW a \in Attempt, A!Signal(a) \/ A!Leave(a) PROVE RunInv'
<1>1. att \in [Attempt -> A!Call] /\ Staged(att[a]) /\ Fits(att[a], row, checkpoint) /\ failures \in 0 .. MaxFaults
  BY DEF RunInv, RunTypes, A!TypeOK, AllFit
<1>2. CASE A!Signal(a)
  <2>1. PICK c : c = [att[a] EXCEPT !.stop = TRUE]
    OBVIOUS
  <2>2. /\ c \in A!Call /\ c.pc = att[a].pc /\ c.who = att[a].who /\ c.clean = att[a].clean
        /\ c.mem = att[a].mem /\ c.resumed = att[a].resumed /\ c.answer = att[a].answer
    BY <1>1, <2>1 DEF A!Call
  <2>3. att' = [att EXCEPT ![a] = c] /\ UNCHANGED <<row, checkpoint, failures>>
    BY <1>1, <1>2, <2>1 DEF A!Signal
  <2>4. Staged(c) /\ Fits(c, row, checkpoint)
    BY <1>1, <2>2 DEF Staged, StagedAs, Fits, Lasts
  <2> QED BY <1>1, <2>2, <2>3, <2>4, NothingNew DEF Begun
<1>3. CASE A!Leave(a)
  <2>1. att[a].pc = "answered" /\ A!Goto(a, "left") /\ UNCHANGED <<row, checkpoint, failures>>
    BY <1>3 DEF A!Leave, A!At
  <2>2. PICK c \in A!Call : /\ att' = [att EXCEPT ![a] = c] /\ c.pc = "left"
                            /\ c.who = att[a].who /\ c.mem = att[a].mem /\ c.resumed = att[a].resumed
                            /\ c.answer = att[a].answer
    BY <2>1, Gone DEF A!Step
  <2>3. Staged(c) /\ Fits(c, row, checkpoint)
    BY <1>1, <2>1, <2>2 DEF Staged, StagedAs, Fits, Lasts, Nodes, HasRun
  <2> QED BY <1>1, <2>1, <2>2, <2>3, NothingNew DEF Begun
<1> QED BY <1>2, <1>3

\* The row is expired by a user or by the clock.
LEMMA RowSteps ==
  ASSUME RunInv, A!ExpireCancelled \/ A!DeleteHistory \/ A!Due \/ A!Cleanup
  PROVE  RunInv'
<1>1. row \in Rows /\ att \in [Attempt -> A!Call] /\ UNCHANGED <<att, failures>>
  BY DEF RunInv, RunTypes, A!TypeOK, A!ExpireCancelled, A!DeleteHistory, A!Due, A!Cleanup
<1>2. CASE A!ExpireCancelled
  <2>1. PICK a \in Attempt : /\ Begun(att[a]) /\ (row.status = "none" \/ row.who = att[a].who)
                             /\ row' = [row EXCEPT !.status = "expired", !.who = att[a].who]
    BY <1>2 DEF A!ExpireCancelled, A!Running, Begun
  <2>2. att[a].who \in Who
    BY <2>1 DEF RunInv, Asked, Begun
  <2>3. row' \in Rows /\ row'.status = "expired" /\ (row.status # "none" => row'.who = row.who)
    BY <1>1, <2>1, <2>2 DEF Rows
  <2> QED BY <1>1, <1>2, <2>3, RowExpires DEF A!ExpireCancelled
<1>3. CASE A!DeleteHistory
  <2>1. PICK w \in Who : /\ row.status = "none" \/ row.who = w
                         /\ row' = [status |-> "expired", who |-> w, due |-> TRUE]
    BY <1>3 DEF A!DeleteHistory
  <2>2. row' \in Rows /\ row'.status = "expired" /\ (row.status # "none" => row'.who = row.who)
    BY <2>1 DEF Rows
  <2> QED BY <1>1, <1>3, <2>2, RowExpires DEF A!DeleteHistory
<1>4. CASE A!Cleanup
  <2>1. row' = [row EXCEPT !.status = "expired"] /\ checkpoint' = A!Empty
    BY <1>4 DEF A!Cleanup, A!CleanupExpired
  <2>2. row' \in Rows /\ row'.status = "expired" /\ row'.who = row.who
    BY <1>1, <2>1 DEF Rows
  <2> QED BY <1>1, <2>1, <2>2, RowExpires
<1>5. CASE A!Due
  <2>1. row' = [row EXCEPT !.due = TRUE] /\ UNCHANGED checkpoint
    BY <1>5 DEF A!Due
  <2>2. row' \in Rows /\ row'.status = row.status /\ row'.who = row.who
    BY <1>1, <2>1 DEF Rows
  <2>3. ASSUME NEW b \in Attempt PROVE Staged(att'[b]) /\ Fits(att'[b], row', checkpoint')
    <3>1. Staged(att[b]) /\ Fits(att[b], row, checkpoint)
      BY DEF RunInv, AllFit
    <3> QED BY <3>1, <1>1, <2>1, <2>2 DEF Fits
  <2>4. AllFit'
    BY <2>3 DEF AllFit
  <2>5. RunTypes' /\ InOrder(checkpoint')
    BY <1>1, <2>1, <2>2 DEF RunInv, RunTypes, A!TypeOK, Rows, A!RunAssumption, A!Failure, A!Permanent, A!Outage, InOrder
  <2>6. Apart' /\ Asked' /\ Agree' /\ ReadsOne'
    BY <1>1, <2>1 DEF RunInv, Apart, Asked, Agree, ReadsOne, Replays
  <2> QED BY <2>4, <2>5, <2>6 DEF RunInv
<1> QED BY <1>2, <1>3, <1>4, <1>5

\* The process dies with every attempt in it.
LEMMA Crashes == ASSUME RunInv, A!Crash PROVE RunInv'
<1>1. /\ att \in [Attempt -> A!Call] /\ failures \in 0 .. MaxFaults /\ MaxFaults \in Nat
  BY DEF RunInv, RunTypes, A!TypeOK, A!RunAssumption
<1>2. /\ att' = [a \in Attempt |-> IF A!Running(a) THEN [att[a] EXCEPT !.pc = "left"] ELSE att[a]]
      /\ UNCHANGED <<row, checkpoint>> /\ failures' \in 0 .. MaxFaults
  BY <1>1 DEF A!Crash
<1>3. ASSUME NEW a \in Attempt
      PROVE  /\ att'[a] \in A!Call /\ Staged(att'[a]) /\ Fits(att'[a], row, checkpoint)
             /\ att'[a].answer = att[a].answer /\ att'[a].who = att[a].who
             /\ att'[a].pc \in {"idle", "left"} /\ (att'[a].pc # "idle" => att[a].pc # "idle")
  <2>1. Staged(att[a]) /\ Fits(att[a], row, checkpoint) /\ att[a] \in A!Call
    BY <1>1 DEF RunInv, AllFit
  <2>2. CASE A!Running(a)
    <3>1. att'[a] = [att[a] EXCEPT !.pc = "left"]
      BY <1>2, <2>2
    <3>2. PICK c : c = [att[a] EXCEPT !.pc = "left"]
      OBVIOUS
    <3>3. /\ c \in A!Call /\ c.pc = "left" /\ c.answer = att[a].answer /\ c.who = att[a].who
          /\ c.mem = att[a].mem /\ c.resumed = att[a].resumed
      BY <2>1, <3>2 DEF A!Call, A!Step
    <3>4. Staged(c) /\ Fits(c, row, checkpoint)
      BY <2>1, <3>3 DEF Staged, StagedAs, Fits, Lasts, Nodes, HasRun
    <3> QED BY <2>2, <3>1, <3>2, <3>3, <3>4 DEF A!Running
  <2>3. CASE ~A!Running(a)
    <3>1. att'[a] = att[a] /\ att[a].pc \in {"idle", "left"}
      BY <1>2, <2>3 DEF A!Running
    <3> QED BY <2>1, <3>1
  <2> QED BY <2>2, <2>3
<1>4. att' \in [Attempt -> A!Call]
  BY <1>2, <1>3
<1>5. RunTypes' /\ InOrder(checkpoint')
  BY <1>2, <1>4 DEF RunInv, RunTypes, A!TypeOK, A!RunAssumption, A!Failure, A!Permanent, A!Outage, InOrder
<1>6. AllFit'
  BY <1>2, <1>3 DEF AllFit
<1>7. Apart' /\ Asked'
  BY <1>3 DEF RunInv, Apart, Asked, Begun
<1>8. Agree' /\ ReadsOne'
  BY <1>3 DEF RunInv, Agree, ReadsOne, Lasts
<1> QED BY <1>5, <1>6, <1>7, <1>8 DEF RunInv

-----------------------------------------------------------------------------
\* A node saves the graph g and goes on at pc.
LEMMA NodeSaves ==
  ASSUME RunInv, NEW a \in Attempt, att[a].pc \in Nodes, NEW g \in A!Graph, NEW pc \in Nodes,
         A!Save(a, g, pc), StagedAs(g, pc, att[a].resumed, att[a].clean)
  PROVE  RunInv'
<1>1. att \in [Attempt -> A!Call] /\ failures \in 0 .. MaxFaults
  BY DEF RunInv, RunTypes, A!TypeOK
<1>2. PICK c : c = [att[a] EXCEPT !.mem = g, !.pc = pc]
  OBVIOUS
<1>3. /\ c \in A!Call /\ c.pc = pc /\ c.mem = g /\ c.who = att[a].who
      /\ c.resumed = att[a].resumed /\ c.clean = att[a].clean /\ c.answer = att[a].answer
  BY <1>1, <1>2 DEF A!Call, A!Step, Nodes
<1>4. att' = [att EXCEPT ![a] = c] /\ checkpoint' = g /\ UNCHANGED <<row, failures>>
  BY <1>1, <1>2 DEF A!Save
<1>5. Staged(c)
  BY <1>3 DEF Staged
<1> QED BY <1>1, <1>3, <1>4, <1>5, Saves

\* A node fails, saves the graph g and the graph is over.
LEMMA NodeFaults ==
  ASSUME RunInv, NEW a \in Attempt, att[a].pc \in Nodes, NEW g \in A!Graph,
         A!SaveFault(a, g), StagedAs(g, "conclude", att[a].resumed, FALSE)
  PROVE  RunInv'
<1>1. att \in [Attempt -> A!Call] /\ failures \in 0 .. MaxFaults /\ MaxFaults \in Nat
  BY DEF RunInv, RunTypes, A!TypeOK, A!RunAssumption
<1>2. PICK c : c = [att[a] EXCEPT !.mem = g, !.clean = FALSE, !.pc = "conclude"]
  OBVIOUS
<1>3. /\ c \in A!Call /\ c.pc = "conclude" /\ c.mem = g /\ c.who = att[a].who
      /\ c.resumed = att[a].resumed /\ c.clean = FALSE /\ c.answer = att[a].answer
  BY <1>1, <1>2 DEF A!Call, A!Step
<1>4. att' = [att EXCEPT ![a] = c] /\ checkpoint' = g /\ UNCHANGED row
  BY <1>1, <1>2 DEF A!SaveFault
<1>5. Staged(c) /\ c.pc \in Nodes
  BY <1>3 DEF Staged, Nodes
<1>6. failures' \in 0 .. MaxFaults
  BY <1>1 DEF A!SaveFault
<1> QED BY <1>1, <1>3, <1>4, <1>5, <1>6, Saves

\* None is no failure.
LEMMA NoFailure == ASSUME RunInv PROVE None \notin A!Failure
  BY DEF RunInv, RunTypes, A!RunAssumption

\* A graph with another failure.
LEMMA WithFailure ==
  ASSUME NEW g \in A!Graph, NEW f \in A!Failure \cup {None}, InOrder(g), NEW h, h = [g EXCEPT !.failure = f]
  PROVE  /\ h \in A!Graph /\ InOrder(h) /\ h.failure = f /\ h.plan = g.plan /\ h.results = g.results
         /\ h.candidate = g.candidate
<1>1. /\ h \in A!Graph /\ h.failure = f /\ h.plan = g.plan /\ h.results = g.results
      /\ h.candidate = g.candidate
  BY DEF A!Graph
<1> QED BY <1>1 DEF InOrder

\* What is known of an attempt at a node.
LEMMA AtNode ==
  ASSUME RunInv, NEW a \in Attempt, att[a].pc \in Nodes
  PROVE  /\ att[a].mem \in A!Graph /\ InOrder(att[a].mem) /\ Begun(att[a]) /\ ~Lasts(att[a])
         /\ StagedAs(att[a].mem, att[a].pc, att[a].resumed, att[a].clean)
         /\ A!Mem(a) = att[a].mem
<1>1. att[a] \in A!Call /\ Staged(att[a]) /\ Fits(att[a], row, checkpoint)
  BY DEF RunInv, RunTypes, A!TypeOK, AllFit
<1> QED BY <1>1 DEF Staged, StagedAs, Fits, A!Call, Begun, Nodes, A!Mem

\* The extraction: afresh, or from the plan that was saved.
LEMMA Extracts == ASSUME RunInv, NEW a \in Attempt, A!Extract(a) PROVE RunInv'
<1>1. att[a].pc = "extract" /\ att[a].pc \in Nodes
  BY DEF A!Extract, A!At, Nodes
<1>2. PICK g \in A!Graph : g = att[a].mem
  BY <1>1, AtNode
<1>3. InOrder(g) /\ Begun(att[a]) /\ (att[a].resumed => g.plan) /\ A!Mem(a) = g
  BY <1>1, <1>2, AtNode DEF StagedAs
<1>4. CASE g.plan /\ A!Save(a, A!Fails(a, None), "validate")
  <2>1. PICK h : h = [g EXCEPT !.failure = None]
    OBVIOUS
  <2>2. h \in A!Graph /\ InOrder(h) /\ h.failure = None /\ h.plan = g.plan
    BY <1>3, <2>1, WithFailure
  <2>3. A!Save(a, h, "validate")
    BY <1>3, <1>4, <2>1 DEF A!Fails
  <2>4. StagedAs(h, "validate", att[a].resumed, att[a].clean)
    BY <1>4, <2>2 DEF StagedAs
  <2> QED BY <1>1, <2>2, <2>3, <2>4, NodeSaves DEF Nodes
<1>5. CASE A!Stopped(a)
  BY <1>3, <1>5, Stops DEF A!Stopped
<1>6. ASSUME ~g.plan, NEW d \in {"good"} \cup A!Permanent, A!Save(a, [A!Mem(a) EXCEPT !.candidate = d], "validate")
      PROVE  RunInv'
  <2>1. PICK h : h = [g EXCEPT !.candidate = d]
    OBVIOUS
  <2>2. /\ h \in A!Graph /\ h.candidate = d /\ h.plan = g.plan /\ h.results = g.results
    BY <1>6, <2>1 DEF A!Graph
  <2>3. A!Save(a, h, "validate")
    BY <1>3, <1>6, <2>1
  <2>4. StagedAs(h, "validate", att[a].resumed, att[a].clean)
    BY <1>3, <1>6, <2>2 DEF StagedAs, InOrder, A!Permanent, Nodes
  <2> QED BY <1>1, <2>2, <2>3, <2>4, NodeSaves DEF Nodes
<1>7. ASSUME ~g.plan, NEW f \in A!Outage, A!SaveFault(a, A!Fails(a, f))
      PROVE  RunInv'
  <2>1. PICK h : h = [g EXCEPT !.failure = f]
    OBVIOUS
  <2>2. h \in A!Graph /\ InOrder(h) /\ h.failure = f /\ f \in A!Failure /\ h.plan = g.plan
    BY <1>3, <2>1, WithFailure DEF A!Failure
  <2>3. A!SaveFault(a, h)
    BY <1>3, <1>7, <2>1 DEF A!Fails
  <2>4. StagedAs(h, "conclude", att[a].resumed, FALSE)
    BY <1>3, <1>7, <2>2, NoFailure DEF StagedAs
  <2> QED BY <1>1, <2>2, <2>3, <2>4, NodeFaults
<1> QED BY <1>3, <1>4, <1>5, <1>6, <1>7 DEF A!Extract, A!ExtractAfresh

\* The validation of what was extracted.
LEMMA RunValidates == ASSUME RunInv, NEW a \in Attempt, A!Validate(a) PROVE RunInv'
<1>1. att[a].pc = "validate" /\ att[a].pc \in Nodes
  BY DEF A!Validate, A!At, Nodes
<1>2. PICK g \in A!Graph : g = att[a].mem
  BY <1>1, AtNode
<1>3. /\ InOrder(g) /\ Begun(att[a]) /\ (att[a].resumed => g.plan /\ g.failure = None) /\ A!Mem(a) = g
      /\ (~g.plan => g.candidate # "none")
  BY <1>1, <1>2, AtNode DEF StagedAs
<1>4. CASE g.failure # None /\ A!Save(a, A!Mem(a), "conclude")
  <2>1. StagedAs(g, "conclude", att[a].resumed, att[a].clean)
    BY <1>3, <1>4 DEF StagedAs
  <2> QED BY <1>1, <1>3, <1>4, <2>1, NodeSaves DEF Nodes
<1>5. CASE g.failure = None /\ g.plan /\ A!Save(a, A!Mem(a), "execute")
  <2>1. StagedAs(g, "execute", att[a].resumed, att[a].clean)
    BY <1>3, <1>5 DEF StagedAs
  <2> QED BY <1>1, <1>3, <1>5, <2>1, NodeSaves DEF Nodes
<1>6. CASE A!Stopped(a)
  BY <1>3, <1>6, Stops DEF A!Stopped
<1>7. CASE ~g.plan /\ g.failure = None /\ A!SaveFault(a, A!Fails(a, "context"))
  <2>1. PICK h : h = [g EXCEPT !.failure = "context"]
    OBVIOUS
  <2>2. "context" \in A!Failure
    BY DEF A!Failure, A!Outage
  <2>3. h \in A!Graph /\ InOrder(h) /\ h.failure = "context" /\ h.plan = g.plan
    BY <1>3, <2>1, <2>2, WithFailure
  <2>4. A!SaveFault(a, h)
    BY <1>3, <1>7, <2>1 DEF A!Fails
  <2>5. StagedAs(h, "conclude", att[a].resumed, FALSE)
    BY <1>3, <1>7, <2>2, <2>3, NoFailure DEF StagedAs
  <2> QED BY <1>1, <2>3, <2>4, <2>5, NodeFaults
<1>8. CASE /\ ~g.plan /\ g.failure = None
           /\ A!Save(a, A!Validated(A!Mem(a)), A!RouteAfterNode(A!Validated(A!Mem(a)), "execute"))
  <2>1. CASE g.candidate = "good"
    <3>1. PICK h : h = [g EXCEPT !.plan = TRUE]
      OBVIOUS
    <3>2. h \in A!Graph /\ h.plan = TRUE /\ h.results = g.results /\ h.failure = None
      BY <1>8, <3>1 DEF A!Graph
    <3>3. A!Save(a, h, "execute")
      BY <1>3, <1>8, <2>1, <3>1, <3>2 DEF A!Validated, A!RouteAfterNode
    <3>4. StagedAs(h, "execute", att[a].resumed, att[a].clean)
      BY <1>3, <3>2 DEF StagedAs, InOrder
    <3> QED BY <1>1, <3>2, <3>3, <3>4, NodeSaves DEF Nodes
  <2>2. CASE g.candidate # "good"
    <3>1. PICK f \in A!Failure : f = g.candidate
      BY <1>3, <1>8, <2>2 DEF A!Graph, A!Failure
    <3>2. PICK h : h = [g EXCEPT !.failure = f]
      OBVIOUS
    <3>3. h \in A!Graph /\ InOrder(h) /\ h.failure = f /\ f # None /\ h.plan = g.plan
      BY <1>3, <3>1, <3>2, WithFailure, NoFailure
    <3>4. A!Save(a, h, "conclude")
      BY <1>3, <1>8, <2>2, <3>1, <3>2, <3>3 DEF A!Validated, A!RouteAfterNode
    <3>5. StagedAs(h, "conclude", att[a].resumed, att[a].clean)
      BY <1>3, <1>8, <3>3 DEF StagedAs
    <3> QED BY <1>1, <3>3, <3>4, <3>5, NodeSaves DEF Nodes
  <2> QED BY <2>1, <2>2
<1> QED BY <1>3, <1>4, <1>5, <1>6, <1>7, <1>8 DEF A!Validate, A!ValidateAfresh

\* The next task is the first one that is not done.
LEMMA TheNext ==
  ASSUME A!RunAssumption, NEW g, A!Open(g) # {}
  PROVE  /\ A!NextTask(g) \in A!Task /\ g.results[A!NextTask(g)] # "done"
         /\ \A u \in A!Task : u < A!NextTask(g) => g.results[u] = "done"
<1>1. A!Open(g) \in SUBSET Nat /\ \A u \in A!Task : u \in Nat
  BY DEF A!Open, A!Task, A!RunAssumption
<1>2. PICK i \in A!Open(g) : \A j \in A!Open(g) : ~(j < i)
  <2>1. PICK T \in SUBSET Nat : T = A!Open(g)
    BY <1>1
  <2>2. \E i \in T : \A j \in T : ~(<<j, i>> \in OpToRel(<, Nat))
    BY <2>1, NatLessThanWellFounded, WFMin
  <2> QED BY <2>1, <2>2 DEF OpToRel
<1>3. \A u \in A!Open(g) : i <= u
  BY <1>1, <1>2
<1>4. A!NextTask(g) \in A!Open(g) /\ \A u \in A!Open(g) : A!NextTask(g) <= u
  BY <1>2, <1>3 DEF A!NextTask
<1>5. PICK n : n = A!NextTask(g)
  OBVIOUS
<1>6. n \in A!Task /\ g.results[n] # "done"
  BY <1>4, <1>5 DEF A!Open
<1>7. ASSUME NEW u \in A!Task, u < n PROVE g.results[u] = "done"
  <2>1. u \notin A!Open(g)
    BY <1>1, <1>4, <1>5, <1>6, <1>7
  <2> QED BY <2>1 DEF A!Open
<1> QED BY <1>5, <1>6, <1>7

\* What a task leaves behind.
LEMMA RanTask ==
  ASSUME RunInv, NEW g \in A!Graph, InOrder(g), A!Open(g) # {}, g.failure = None, g.plan,
         NEW r \in A!Result \ {"none"}, NEW h, h = A!Ran(g, r)
  PROVE  /\ h \in A!Graph /\ InOrder(h) /\ h.plan
         /\ h.failure = IF r = "done" THEN None ELSE "cannot"
         /\ r # "outage" => \A t \in A!Task : h.results[t] # "outage"
         /\ r = "done" /\ (\A t \in A!Task : h.results[t] # "none") => AllDone(h)
<1>1. A!RunAssumption /\ None \notin A!Failure
  BY NoFailure DEF RunInv, RunTypes
<1>2. PICK n : n = A!NextTask(g)
  OBVIOUS
<1>3. n \in A!Task /\ g.results[n] # "done" /\ \A u \in A!Task : u < n => g.results[u] = "done"
  BY <1>1, <1>2, TheNext
<1>4. PICK f \in A!Failure \cup {None} : f = IF r = "done" THEN None ELSE "cannot"
  BY DEF A!Failure, A!Permanent
<1>5. h = [g EXCEPT !.results[n] = r, !.failure = f]
  BY <1>2, <1>4 DEF A!Ran
<1>6. g.results \in [A!Task -> A!Result]
  BY DEF A!Graph
<1>7. PICK q \in [A!Task -> A!Result] : q = [g.results EXCEPT ![n] = r]
  BY <1>3, <1>6
<1>8. h = [g EXCEPT !.results = q, !.failure = f]
  BY <1>5, <1>7
<1>9. h \in A!Graph /\ h.results = q /\ h.failure = f /\ h.plan
  BY <1>8 DEF A!Graph
<1>10. q[n] = r /\ \A t \in A!Task \ {n} : q[t] = g.results[t]
  BY <1>6, <1>7
<1>11. \A t \in A!Task : t \in Nat
  BY <1>1 DEF A!Task, A!RunAssumption
<1>12. \A t \in A!Task : n < t => g.results[t] = "none"
  BY <1>3, <1>11 DEF InOrder
<1>13. InOrder(h)
  <2>1. ASSUME NEW u \in A!Task, NEW t \in A!Task, u < t, q[t] # "none" PROVE q[u] = "done"
    <3>1. ~(n < t)
      BY <1>10, <1>11, <1>12, <1>3, <2>1
    <3>2. u < n /\ u # n
      BY <1>3, <1>11, <2>1, <3>1
    <3> QED BY <1>3, <1>10, <3>2
  <2> QED BY <2>1, <1>9 DEF InOrder
<1>14. ASSUME r # "outage", NEW t \in A!Task PROVE q[t] # "outage"
  <2>1. CASE t = n
    BY <2>1, <1>10, <1>14
  <2>2. CASE t < n
    BY <2>2, <1>3, <1>10, <1>11
  <2>3. CASE n < t
    BY <2>3, <1>10, <1>11, <1>12, <1>3
  <2> QED BY <2>1, <2>2, <2>3, <1>3, <1>11
<1>15. ASSUME r = "done", \A t \in A!Task : q[t] # "none", NEW t \in A!Task PROVE q[t] = "done"
  <2>1. CASE t = n
    BY <2>1, <1>10, <1>15
  <2>2. CASE t < n
    BY <2>2, <1>3, <1>10, <1>11
  <2>3. CASE n < t
    BY <2>3, <1>10, <1>11, <1>12, <1>15, <1>3
  <2> QED BY <2>1, <2>2, <2>3, <1>3, <1>11
<1> QED BY <1>4, <1>9, <1>13, <1>14, <1>15 DEF AllDone

\* The next task.
LEMMA Executes == ASSUME RunInv, NEW a \in Attempt, A!ExecuteTask(a) PROVE RunInv'
<1>1. att[a].pc = "execute" /\ att[a].pc \in Nodes
  BY DEF A!ExecuteTask, A!At, Nodes
<1>2. PICK g \in A!Graph : g = att[a].mem
  BY <1>1, AtNode
<1>3. InOrder(g) /\ Begun(att[a]) /\ g.plan /\ g.failure = None /\ A!Mem(a) = g
  BY <1>1, <1>2, AtNode DEF StagedAs
<1>4. "context" \in A!Failure /\ "cannot" \in A!Failure /\ "cannot" \notin A!Outage /\ None \notin A!Failure
  BY NoFailure DEF A!Failure, A!Outage, A!Permanent
<1>5. CASE A!Stopped(a)
  BY <1>3, <1>5, Stops DEF A!Stopped
<1>6. CASE A!Open(g) = {} /\ A!Save(a, g, A!RouteAfterTask(g))
  <2>1. AllDone(g)
    BY <1>6 DEF A!Open, AllDone
  <2>2. A!RouteAfterTask(g) = "attribute"
    BY <1>3, <2>1 DEF A!RouteAfterTask, AllDone
  <2>3. StagedAs(g, "attribute", att[a].resumed, att[a].clean)
    BY <1>3, <2>1 DEF StagedAs
  <2> QED BY <1>1, <1>6, <2>2, <2>3, NodeSaves DEF Nodes
<1>7. ASSUME A!Open(g) # {}, NEW r \in {"done", "truncated", "refused"},
             A!Save(a, A!Ran(g, r), A!RouteAfterTask(A!Ran(g, r)))
      PROVE  RunInv'
  <2>1. PICK h : h = A!Ran(g, r)
    OBVIOUS
  <2>2. /\ h \in A!Graph /\ InOrder(h) /\ h.plan
        /\ h.failure = IF r = "done" THEN None ELSE "cannot"
        /\ \A t \in A!Task : h.results[t] # "outage"
        /\ r = "done" /\ (\A t \in A!Task : h.results[t] # "none") => AllDone(h)
    BY <1>3, <1>7, <2>1, RanTask DEF A!Result
  <2>3. PICK pc : pc = A!RouteAfterTask(h)
    OBVIOUS
  <2>4. /\ pc \in {"conclude", "attribute", "execute"}
        /\ pc = "conclude" => h.failure # None
        /\ pc # "conclude" => h.failure = None
        /\ pc = "attribute" => \A t \in A!Task : h.results[t] # "none"
    BY <2>3 DEF A!RouteAfterTask
  <2>5. pc = "attribute" => AllDone(h)
    BY <2>2, <2>4, <1>4
  <2>6. A!Save(a, h, pc)
    BY <1>7, <2>1, <2>3
  <2>7. StagedAs(h, pc, att[a].resumed, att[a].clean)
    BY <2>2, <2>4, <2>5, <1>4 DEF StagedAs
  <2> QED BY <1>1, <2>2, <2>4, <2>6, <2>7, NodeSaves DEF Nodes
<1>8. CASE A!Open(g) # {} /\ A!SaveFault(a, A!Ran(g, "outage"))
  <2>1. PICK h : h = A!Ran(g, "outage")
    OBVIOUS
  <2>2. h \in A!Graph /\ InOrder(h) /\ h.plan /\ h.failure = "cannot"
    BY <1>3, <1>8, <2>1, RanTask DEF A!Result
  <2>3. StagedAs(h, "conclude", att[a].resumed, FALSE)
    BY <2>2, <1>4 DEF StagedAs
  <2> QED BY <1>1, <1>8, <2>1, <2>2, <2>3, NodeFaults
<1>9. CASE A!SaveFault(a, A!Fails(a, "context"))
  <2>1. PICK h : h = [g EXCEPT !.failure = "context"]
    OBVIOUS
  <2>2. h \in A!Graph /\ InOrder(h) /\ h.failure = "context" /\ h.plan
    BY <1>3, <1>4, <2>1, WithFailure
  <2>3. A!SaveFault(a, h)
    BY <1>3, <1>9, <2>1 DEF A!Fails
  <2>4. StagedAs(h, "conclude", att[a].resumed, FALSE)
    BY <1>4, <2>2 DEF StagedAs
  <2> QED BY <1>1, <2>2, <2>3, <2>4, NodeFaults
<1> QED BY <1>3, <1>5, <1>6, <1>7, <1>8, <1>9 DEF A!ExecuteTask

\* The attribution, once every task is done.
LEMMA Attributes == ASSUME RunInv, NEW a \in Attempt, A!Attribute(a) PROVE RunInv'
<1>1. att[a].pc = "attribute" /\ att[a].pc \in Nodes
  BY DEF A!Attribute, A!At, Nodes
<1>2. PICK g \in A!Graph : g = att[a].mem
  BY <1>1, AtNode
<1>3. InOrder(g) /\ Begun(att[a]) /\ g.plan /\ g.failure = None /\ AllDone(g) /\ A!Mem(a) = g
  BY <1>1, <1>2, AtNode DEF StagedAs
<1>4. CASE A!Stopped(a)
  BY <1>3, <1>4, Stops DEF A!Stopped
<1>5. CASE A!Save(a, [A!Mem(a) EXCEPT !.attributed = TRUE], "summarize")
  <2>1. PICK h : h = [g EXCEPT !.attributed = TRUE]
    OBVIOUS
  <2>2. h \in A!Graph /\ h.plan /\ h.failure = None /\ h.attributed /\ h.results = g.results
    BY <1>3, <2>1 DEF A!Graph
  <2>3. A!Save(a, h, "summarize")
    BY <1>3, <1>5, <2>1
  <2>4. StagedAs(h, "summarize", att[a].resumed, att[a].clean)
    BY <1>3, <2>2 DEF StagedAs, InOrder, AllDone
  <2> QED BY <1>1, <2>2, <2>3, <2>4, NodeSaves DEF Nodes
<1>6. CASE A!Save(a, A!Fails(a, "cannot"), "conclude")
  <2>1. PICK f \in A!Failure : f = "cannot" /\ f \notin A!Outage
    BY DEF A!Failure, A!Permanent, A!Outage
  <2>2. PICK h : h = [g EXCEPT !.failure = f]
    OBVIOUS
  <2>3. h \in A!Graph /\ InOrder(h) /\ h.failure = f /\ h.plan /\ h.results = g.results
    <3>1. InOrder(g)
      BY <1>3
    <3>2. h \in A!Graph /\ InOrder(h) /\ h.failure = f /\ h.plan = g.plan /\ h.results = g.results
      BY <2>2, <3>1, WithFailure
    <3> QED BY <1>3, <3>2
  <2>4. A!Save(a, h, "conclude")
    BY <1>3, <1>6, <2>1, <2>2 DEF A!Fails
  <2>5. StagedAs(h, "conclude", att[a].resumed, att[a].clean)
    BY <1>3, <2>1, <2>3, NoFailure DEF StagedAs, AllDone
  <2> QED BY <1>1, <2>3, <2>4, <2>5, NodeSaves DEF Nodes
<1> QED BY <1>4, <1>5, <1>6, Zenon DEF A!Attribute

\* The report.
LEMMA Summarizes == ASSUME RunInv, NEW a \in Attempt, A!Summarize(a) PROVE RunInv'
<1>1. att[a].pc = "summarize" /\ att[a].pc \in Nodes
  BY DEF A!Summarize, A!At, Nodes
<1>2. PICK g \in A!Graph : g = att[a].mem
  BY <1>1, AtNode
<1>3. InOrder(g) /\ Begun(att[a]) /\ g.plan /\ g.failure = None /\ AllDone(g) /\ g.attributed /\ A!Mem(a) = g
  BY <1>1, <1>2, AtNode DEF StagedAs
<1>4. None \notin A!Failure /\ a # None /\ A!Outage \subseteq A!Failure
  BY NoFailure DEF RunInv, RunTypes, A!RunAssumption, A!Failure
<1>5. CASE A!Stopped(a)
  BY <1>3, <1>5, Stops DEF A!Stopped
<1>6. CASE A!Save(a, [A!Mem(a) EXCEPT !.report = a], "conclude")
  <2>1. PICK h : h = [g EXCEPT !.report = a]
    OBVIOUS
  <2>2. /\ h \in A!Graph /\ h.plan /\ h.failure = None /\ h.attributed /\ h.results = g.results
        /\ h.report = a
    BY <1>3, <2>1 DEF A!Graph
  <2>3. A!Save(a, h, "conclude")
    BY <1>3, <1>6, <2>1
  <2>4. StagedAs(h, "conclude", att[a].resumed, att[a].clean)
    BY <1>3, <1>4, <2>2 DEF StagedAs, InOrder, AllDone
  <2> QED BY <1>1, <2>2, <2>3, <2>4, NodeSaves DEF Nodes
<1>7. ASSUME NEW f \in A!Outage, A!SaveFault(a, A!Fails(a, f)) PROVE RunInv'
  <2>1. PICK h : h = [g EXCEPT !.failure = f]
    OBVIOUS
  <2>2. h \in A!Graph /\ InOrder(h) /\ h.failure = f /\ h.plan /\ f # None
    BY <1>3, <1>4, <2>1, WithFailure
  <2>3. A!SaveFault(a, h)
    BY <1>3, <1>7, <2>1 DEF A!Fails
  <2>4. StagedAs(h, "conclude", att[a].resumed, FALSE)
    BY <2>2 DEF StagedAs
  <2> QED BY <1>1, <2>2, <2>3, <2>4, NodeFaults
<1> QED BY <1>5, <1>6, <1>7 DEF A!Summarize

-----------------------------------------------------------------------------
\* A row is completed by the one that holds it, on what it has saved.
LEMMA Marks ==
  ASSUME RunInv, NEW a \in Attempt, att[a].pc = "conclude", A!MarkCompleted, UNCHANGED checkpoint,
         failures' \in 0 .. MaxFaults, NEW c \in A!Call, att' = [att EXCEPT ![a] = c],
         c.pc = "answered", c.who = att[a].who, c.mem = att[a].mem, c.resumed = att[a].resumed,
         \/ Lasts(c) /\ c.answer = Replays(att[a].mem)
         \/ ~Lasts(c) /\ ~c.clean
  PROVE  RunInv'
<1>1. att[a].pc \in Nodes /\ att[a].pc \in HasRun /\ Begun(att[a]) /\ att[a].pc # "idle"
  BY DEF Nodes, HasRun, Begun
<1>2. row \in Rows /\ att \in [Attempt -> A!Call] /\ Fits(att[a], row, checkpoint) /\ Staged(att[a])
  BY DEF RunInv, RunTypes, A!TypeOK, AllFit
<1>3. /\ row.status = "active" /\ row' \in Rows /\ row'.status = "completed" /\ row'.who = row.who
  BY <1>2 DEF A!MarkCompleted, Rows
<1>4. att[a].mem = checkpoint
  BY <1>1, <1>2, <1>3 DEF Fits
<1>5. Staged(c)
  BY <1>2 DEF Staged, StagedAs, Nodes
<1>6. Fits(c, row', checkpoint')
  <2>1. Replays(checkpoint') = Replays(checkpoint)
    OBVIOUS
  <2> QED BY <1>3, <1>4, <2>1 DEF Fits, Lasts, Nodes, HasRun
<1>7. ASSUME NEW b \in Attempt \ {a} PROVE att[b].pc \notin HasRun /\ ~Lasts(att[b]) /\ Fits(att[b], row', checkpoint')
  <2>1. att[b].pc \notin HasRun /\ Fits(att[b], row, checkpoint)
    BY <1>1, Alone DEF RunInv, AllFit
  <2>2. ~Lasts(att[b])
    BY <1>3, <2>1 DEF Fits
  <2> QED BY <1>3, <2>1, <2>2 DEF Fits, Nodes, HasRun
<1>8. att'[a] = c /\ \A b \in Attempt \ {a} : att'[b] = att[b]
  BY <1>2
<1>9. \A b \in Attempt : Lasts(att'[b]) => b = a
  BY <1>7, <1>8
<1>10. Agree'
  BY <1>9 DEF Agree
<1>11. ReadsOne'
  <2>1. \A b \in Attempt : att'[b].pc # "replay"
    BY <1>7, <1>8 DEF HasRun
  <2> QED BY <2>1 DEF ReadsOne
<1>12. checkpoint' \in A!Graph /\ InOrder(checkpoint')
  BY DEF RunInv, RunTypes, A!TypeOK, InOrder
<1> QED BY <1>1, <1>3, <1>5, <1>6, <1>7, <1>10, <1>11, <1>12, Moves

\* The end of the graph.
LEMMA Concludes == ASSUME RunInv, NEW a \in Attempt, A!Conclude(a) PROVE RunInv'
<1>1. att[a].pc = "conclude" /\ att[a].pc \in Nodes /\ UNCHANGED checkpoint
  BY DEF A!Conclude, A!At, Nodes
<1>2. PICK g \in A!Graph : g = att[a].mem
  BY <1>1, AtNode
<1>3. /\ Begun(att[a]) /\ A!Mem(a) = g
      /\ att[a].resumed /\ att[a].clean => g.failure \notin A!Outage /\ \A t \in A!Task : g.results[t] # "outage"
  BY <1>1, <1>2, AtNode DEF StagedAs
<1>4. /\ row \in Rows /\ Fits(att[a], row, checkpoint) /\ failures \in 0 .. MaxFaults
      /\ row.status \in {"active", "expired"}
  BY <1>1 DEF RunInv, RunTypes, A!TypeOK, AllFit, Fits
<1>5. PICK f \in A!Failure \cup {None} : f = g.failure
  BY DEF A!Graph
<1>6. PICK w \in Attempt \cup {None} : w = g.report
  BY DEF A!Graph
<1>7. CASE A!Stopped(a)
  BY <1>3, <1>7, Stops DEF A!Stopped
<1>8. CASE A!RetryableFailure(g) /\ A!Return(a, "retry", f) /\ UNCHANGED <<row, failures>>
  <2>1. PICK c \in A!Call : /\ att' = [att EXCEPT ![a] = c] /\ c.pc = "answered"
                            /\ c.who = att[a].who /\ c.mem = att[a].mem /\ c.resumed = att[a].resumed
                            /\ c.clean = att[a].clean /\ c.answer = [kind |-> "retry", what |-> f]
    BY <1>8, Answers, Returned
  <2>2. ~Lasts(c)
    BY <2>1 DEF Lasts
  <2>3. ~(c.clean /\ c.resumed)
    BY <1>3, <1>8, <2>1 DEF A!RetryableFailure
  <2> QED BY <1>1, <1>3, <1>4, <1>8, <2>1, <2>2, <2>3, Ended
\* An answer that is not marked: the row has expired.
<1>9. ASSUME A!CannotMark, UNCHANGED failures, NEW k \in {"unconfirmed", "retry"},
             NEW v \in A!Failure \cup {None}, A!Return(a, k, v)
      PROVE  RunInv'
  <2>1. PICK c \in A!Call : /\ att' = [att EXCEPT ![a] = c] /\ c.pc = "answered"
                            /\ c.who = att[a].who /\ c.mem = att[a].mem /\ c.resumed = att[a].resumed
                            /\ c.answer = [kind |-> k, what |-> v]
    BY <1>9, Answers, Returned
  <2>2. ~Lasts(c) /\ UNCHANGED row /\ row.status = "expired"
    BY <1>4, <1>9, <2>1 DEF Lasts, A!CannotMark
  <2> QED BY <1>1, <1>3, <1>4, <1>9, <2>1, <2>2, Ended
<1>10. CASE f # None /\ A!MarkCompleted /\ A!Return(a, "final", f) /\ UNCHANGED failures
  <2>1. PICK c \in A!Call : /\ att' = [att EXCEPT ![a] = c] /\ c.pc = "answered"
                            /\ c.who = att[a].who /\ c.mem = att[a].mem /\ c.resumed = att[a].resumed
                            /\ c.answer = [kind |-> "final", what |-> f]
    BY <1>10, Answers, Returned
  <2>2. Lasts(c) /\ c.answer = Replays(att[a].mem)
    BY <1>2, <1>5, <1>10, <2>1 DEF Lasts, Replays
  <2> QED BY <1>1, <1>4, <1>10, <2>1, <2>2, Marks
<1>11. CASE f = None /\ A!MarkCompleted /\ A!Return(a, "report", w) /\ UNCHANGED failures
  <2>1. PICK c \in A!Call : /\ att' = [att EXCEPT ![a] = c] /\ c.pc = "answered"
                            /\ c.who = att[a].who /\ c.mem = att[a].mem /\ c.resumed = att[a].resumed
                            /\ c.answer = [kind |-> "report", what |-> w]
    BY <1>11, Answers, Returned
  <2>2. Lasts(c) /\ c.answer = Replays(att[a].mem)
    BY <1>2, <1>5, <1>6, <1>11, <2>1 DEF Lasts, Replays
  <2> QED BY <1>1, <1>4, <1>11, <2>1, <2>2, Marks
\* The call that marks fails, before or after it has marked.
<1>12. ASSUME NEW k \in {"retry", "unconfirmed"}, NEW v \in A!Failure \cup {None}, A!Faulty(a, k, v),
              A!MarkCompleted \/ UNCHANGED row
       PROVE  RunInv'
  <2>1. CASE UNCHANGED row
    BY <1>1, <1>3, <1>12, <2>1, RunBreaks
  <2>2. CASE A!MarkCompleted
    <3>1. [kind |-> k, what |-> v] \in A!Answer
      BY Answers
    <3>2. PICK c \in A!Call : /\ att' = [att EXCEPT ![a] = c] /\ c.pc = "answered"
                              /\ c.who = att[a].who /\ c.mem = att[a].mem /\ c.resumed = att[a].resumed
                              /\ ~c.clean /\ c.answer = [kind |-> k, what |-> v]
      BY <1>12, <3>1, Failed
    <3>3. failures' \in 0 .. MaxFaults
      BY <1>12, <3>1, Failed
    <3>4. ~Lasts(c)
      BY <3>2 DEF Lasts
    <3> QED BY <1>1, <2>2, <3>2, <3>3, <3>4, Marks
  <2> QED BY <1>12, <2>1, <2>2
<1>13. "context" \in A!Failure
  BY DEF A!Failure, A!Outage
<1> QED BY <1>1, <1>2, <1>3, <1>5, <1>6, <1>7, <1>8, <1>9, <1>10, <1>11, <1>12, <1>13 DEF A!Conclude

\* A completed run is read again.
LEMMA ReplaysAgain == ASSUME RunInv, NEW a \in Attempt, A!CompletedResult(a) PROVE RunInv'
<1>1. att[a].pc = "replay" /\ att[a].pc \in HasRun /\ Begun(att[a]) /\ UNCHANGED <<row, checkpoint>>
  BY DEF A!CompletedResult, A!At, HasRun, Begun
<1>2. /\ att \in [Attempt -> A!Call] /\ Staged(att[a]) /\ Fits(att[a], row, checkpoint)
      /\ failures \in 0 .. MaxFaults /\ checkpoint \in A!Graph /\ InOrder(checkpoint) /\ row \in Rows
  BY DEF RunInv, RunTypes, A!TypeOK, AllFit
<1>3. ~att[a].resumed /\ row.status \in {"completed", "expired"}
  BY <1>1, <1>2 DEF Staged, StagedAs, Fits
<1>4. CASE A!Faulty(a, "retry", "context")
  BY <1>1, <1>4, RunBreaks DEF A!Failure, A!Outage
<1>5. CASE A!Return(a, "retry", "context") /\ UNCHANGED failures
  <2>1. "context" \in A!Failure
    BY DEF A!Failure, A!Outage
  <2>2. PICK c \in A!Call : /\ att' = [att EXCEPT ![a] = c] /\ c.pc = "answered"
                            /\ c.who = att[a].who /\ c.mem = att[a].mem /\ c.resumed = att[a].resumed
                            /\ c.answer = [kind |-> "retry", what |-> "context"]
    BY <1>5, <2>1, Answers, Returned
  <2>3. ~Lasts(c)
    BY <2>2 DEF Lasts
  <2> QED BY <1>1, <1>2, <1>3, <1>5, <2>2, <2>3, Ended
<1>6. ASSUME NEW k \in {"report", "final"}, NEW v \in Attempt \cup A!Failure, A!Return(a, k, v), UNCHANGED failures,
             Replays(checkpoint) = [kind |-> k, what |-> v], checkpoint # A!Empty
      PROVE  RunInv'
  <2>1. PICK c \in A!Call : /\ att' = [att EXCEPT ![a] = c] /\ c.pc = "answered"
                            /\ c.who = att[a].who /\ c.mem = att[a].mem /\ c.resumed = att[a].resumed
                            /\ c.answer = [kind |-> k, what |-> v]
    BY <1>6, Answers, Returned
  <2>2. Staged(c)
    BY <1>2, <1>3, <2>1 DEF Staged, StagedAs, Nodes
  <2>3. Fits(c, row, checkpoint)
    BY <1>3, <1>6, <2>1 DEF Fits, Lasts, Nodes, HasRun
  <2>4. att'[a] = c /\ \A b \in Attempt \ {a} : att'[b] = att[b]
    BY <1>2, <2>1
  <2>5. \A b \in Attempt : Lasts(att'[b]) => att'[b].answer = c.answer
    <3>1. ASSUME NEW b \in Attempt, Lasts(att[b]) PROVE att[b].answer = c.answer
      BY <1>1, <1>6, <2>1, <3>1 DEF RunInv, ReadsOne
    <3> QED BY <2>4, <3>1
  <2>6. Agree'
    BY <2>5 DEF Agree
  <2>7. ReadsOne'
    <3>1. \A b \in Attempt \ {a} : att[b].pc # "replay"
      BY <1>1, Alone DEF HasRun
    <3>2. \A b \in Attempt : att'[b].pc # "replay"
      BY <2>1, <2>4, <3>1
    <3> QED BY <3>2 DEF ReadsOne
  <2>8. /\ Fits(c, row', checkpoint') /\ \A b \in Attempt \ {a} : Fits(att[b], row', checkpoint')
        /\ row' \in Rows /\ checkpoint' \in A!Graph
    BY <1>1, <1>2, <2>3, Zenon DEF RunInv, AllFit
  <2>9. InOrder(checkpoint') /\ failures' \in 0 .. MaxFaults /\ Begun(att[a]) /\ att[a].pc # "idle"
    BY <1>1, <1>2, <1>6 DEF InOrder
  <2> QED BY <2>1, <2>2, <2>6, <2>7, <2>8, <2>9, Moves
<1>7. A!Empty.failure = None /\ A!Empty.report = None
  BY DEF A!Empty
<1>8. CASE checkpoint.failure # None /\ A!Return(a, "final", checkpoint.failure) /\ UNCHANGED failures
  <2>1. PICK v \in A!Failure : v = checkpoint.failure
    BY <1>2, <1>8 DEF A!Graph
  <2>2. Replays(checkpoint) = [kind |-> "final", what |-> v] /\ checkpoint # A!Empty
    BY <1>7, <1>8, <2>1 DEF Replays
  <2> QED BY <1>6, <1>8, <2>1, <2>2
<1>9. CASE /\ checkpoint.failure = None /\ checkpoint.report # None
           /\ A!Return(a, "report", checkpoint.report) /\ UNCHANGED failures
  <2>1. PICK v \in Attempt : v = checkpoint.report
    BY <1>2, <1>9 DEF A!Graph
  <2>2. Replays(checkpoint) = [kind |-> "report", what |-> v] /\ checkpoint # A!Empty
    BY <1>7, <1>9, <2>1 DEF Replays
  <2> QED BY <1>6, <1>9, <2>1, <2>2
<1> QED BY <1>4, <1>5, <1>8, <1>9 DEF A!CompletedResult

-----------------------------------------------------------------------------
\* Every step, and a step that changes nothing.
LEMMA RunNext == RunInv /\ [A!Next]_(A!vars) => RunInv'
<1> SUFFICES ASSUME RunInv, [A!Next]_(A!vars) PROVE RunInv'
  OBVIOUS
<1>1. ASSUME NEW a \in Attempt, A!GraphFails(a) PROVE RunInv'
  <2>1. Begun(att[a])
    BY <1>1 DEF A!GraphFails, Begun
  <2> QED BY <1>1, <2>1, RunBreaks DEF A!GraphFails, A!Failure, A!Outage
<1>2. CASE \E a \in Attempt, w \in Who : A!Reserve(a, w)
  BY <1>2, Reserves
<1>3. CASE \E a \in Attempt : A!Attempts(a) \/ A!GraphFails(a) \/ A!Signal(a)
  BY <1>1, <1>3, CleansFirst, Claims, RunLoads, Extracts, RunValidates, Executes, Attributes, Summarizes,
     Concludes, ReplaysAgain, SignalsAndLeaves DEF A!Attempts
<1>4. CASE A!ExpireCancelled \/ A!DeleteHistory \/ A!Due \/ A!Cleanup \/ A!Crash
  BY <1>4, RowSteps, Crashes
<1>5. CASE UNCHANGED A!vars
  <2>1. UNCHANGED <<row, checkpoint, att, failures>>
    BY <1>5 DEF A!vars
  <2>2. RunTypes' /\ InOrder(checkpoint')
    BY <2>1 DEF RunInv, RunTypes, A!TypeOK, A!RunAssumption, A!Failure, A!Permanent, A!Outage, InOrder
  <2>3. AllFit'
    BY <2>1 DEF RunInv, AllFit
  <2>4. Apart' /\ Asked' /\ Agree' /\ ReadsOne'
    BY <2>1 DEF RunInv, Apart, Asked, Agree, ReadsOne
  <2> QED BY <2>2, <2>3, <2>4 DEF RunInv
<1> QED BY <1>2, <1>3, <1>4, <1>5 DEF A!Next

\* What the invariant says of the answers.
LEMMA RunSays == RunInv => A!TypeOK /\ A!OneOutcome /\ A!CleanResumeConcludes
<1> SUFFICES ASSUME RunInv PROVE A!TypeOK /\ A!OneOutcome /\ A!CleanResumeConcludes
  OBVIOUS
<1>1. A!TypeOK
  BY DEF RunInv, RunTypes
<1>2. A!OneOutcome
  <2>1. ASSUME NEW a \in Attempt, A!Lasting(a)
        PROVE  /\ \A b \in Attempt : A!Lasting(b) => att[a].answer = att[b].answer
               /\ row.status = "completed" => A!Replayed = att[a].answer
    <3>1. Lasts(att[a]) /\ \A b \in Attempt : A!Lasting(b) => Lasts(att[b])
      BY <2>1 DEF A!Lasting, Lasts
    <3>2. \A b \in Attempt : A!Lasting(b) => att[a].answer = att[b].answer
      BY <3>1 DEF RunInv, Agree
    <3>3. row.status = "completed" => Replays(checkpoint) = att[a].answer
      BY <3>1 DEF RunInv, AllFit, Fits
    <3> QED BY <3>2, <3>3 DEF A!Replayed, Replays
  <2> QED BY <2>1 DEF A!OneOutcome
<1>3. A!CleanResumeConcludes
  BY DEF A!CleanResumeConcludes, RunInv, AllFit, Fits
<1> QED BY <1>1, <1>2, <1>3

\* A step of one attempt leaves the others alone.
LEMMA OthersStay ==
  ASSUME att \in [Attempt -> A!Call], NEW b \in Attempt, NEW a \in Attempt, a # b,
         A!Attempts(b) \/ A!GraphFails(b) \/ A!Signal(b)
  PROVE  att'[a] = att[a]
<1>1. \A k, v : A!Return(b, k, v) \/ A!Faulty(b, k, v) => att'[a] = att[a]
  BY DEF A!Return, A!Faulty
<1>2. \A pc : A!Goto(b, pc) => att'[a] = att[a]
  BY DEF A!Goto
<1>3. \A g, pc : A!Save(b, g, pc) \/ A!SaveFault(b, g) => att'[a] = att[a]
  BY DEF A!Save, A!SaveFault
<1>4. A!Load(b) \/ A!Signal(b) => att'[a] = att[a]
  BY <1>1 DEF A!Load, A!Signal
<1>5. A!Stopped(b) => att'[a] = att[a]
  BY <1>1 DEF A!Stopped
<1> QED BY <1>1, <1>2, <1>3, <1>4, <1>5, Zenon
  DEF A!Attempts, A!CleanupFirst, A!Claim, A!Extract, A!ExtractAfresh, A!Validate, A!ValidateAfresh, A!ExecuteTask,
      A!Attribute, A!Summarize, A!Conclude, A!CompletedResult, A!Leave, A!GraphFails

\* No step takes an expired run back, and none concludes it.
LEMMA StepKeepsExpired == RunInv /\ [A!Next]_(A!vars) => A!KeepsExpired
<1> SUFFICES ASSUME RunInv, [A!Next]_(A!vars), row.status = "expired"
             PROVE  /\ row'.status = "expired"
                    /\ \A a \in Attempt : A!At(a, "conclude") /\ att'[a].pc # "conclude"
                         => att'[a].answer.kind \notin {"report", "final"}
  BY DEF A!KeepsExpired
<1>1. RunInv' /\ row \in Rows /\ att \in [Attempt -> A!Call]
  BY RunNext DEF RunInv, RunTypes, A!TypeOK
<1>2. row'.status = "expired"
  <2>1. CASE UNCHANGED row
    BY <2>1
  <2>2. CASE row' = [row EXCEPT !.status = "expired"] \/ row' = [row EXCEPT !.due = TRUE]
    BY <1>1, <2>2 DEF Rows
  <2>3. CASE \E a \in Attempt : row' = [row EXCEPT !.status = "expired", !.who = att[a].who]
    BY <1>1, <2>3 DEF Rows
  <2>4. CASE \E w \in Who : row' = [status |-> "expired", who |-> w, due |-> TRUE]
    BY <2>4
  <2>5. ~A!MarkCompleted /\ \A w : A!Claimed(w) = row
    BY DEF A!MarkCompleted, A!Claimed
  <2>6. ASSUME NEW a \in Attempt, A!Attempts(a) PROVE UNCHANGED row \/ row' = [row EXCEPT !.status = "expired"]
    BY <2>5, <2>6 DEF A!Attempts, A!CleanupFirst, A!CleanupExpired, A!Claim, A!Load, A!Extract, A!ExtractAfresh,
       A!Validate, A!ValidateAfresh, A!ExecuteTask, A!Attribute, A!Summarize, A!Conclude, A!CannotMark,
       A!CompletedResult, A!Leave, A!Stopped, A!Save, A!SaveFault
  <2>7. ASSUME NEW a \in Attempt, NEW w \in Who, A!Reserve(a, w) \/ A!GraphFails(a) \/ A!Signal(a) PROVE UNCHANGED row
    BY <2>7 DEF A!Reserve, A!GraphFails, A!Signal
  <2>8. ASSUME NEW a \in Attempt, A!GraphFails(a) \/ A!Signal(a) PROVE UNCHANGED row
    BY <2>8 DEF A!GraphFails, A!Signal
  <2>9. CASE A!ExpireCancelled \/ A!DeleteHistory \/ A!Due \/ A!Cleanup \/ A!Crash
    BY <2>2, <2>3, <2>4, <2>9 DEF A!ExpireCancelled, A!DeleteHistory, A!Due, A!Cleanup, A!CleanupExpired, A!Crash
  <2> QED BY <2>1, <2>2, <2>6, <2>7, <2>8, <2>9 DEF A!Next, A!vars
<1>3. ASSUME NEW a \in Attempt, att[a].pc = "conclude", att'[a].pc # "conclude"
      PROVE  ~Lasts(att'[a])
  <2>1. ~Lasts(att[a])
    BY <1>3 DEF RunInv, AllFit, Fits
  <2>2. CASE att'[a].answer = att[a].answer
    BY <2>1, <2>2 DEF Lasts
  <2>3. ASSUME NEW b \in Attempt, b # a, A!Attempts(b) \/ A!GraphFails(b) \/ A!Signal(b)
        PROVE  att'[a] = att[a]
    BY <1>1, <2>3, OthersStay
  <2>4. ASSUME NEW b \in Attempt, NEW w \in Who, A!Reserve(b, w)
        PROVE  att'[a] = att[a]
    BY <1>1, <1>3, <2>4 DEF A!Reserve, A!At
  <2>5. ~A!GraphFails(a)
    BY <1>3 DEF A!GraphFails
  <2>6. CASE A!Signal(a) \/ A!Crash
    <3>1. att'[a] = att[a] \/ att'[a] = [att[a] EXCEPT !.stop = TRUE] \/ att'[a] = [att[a] EXCEPT !.pc = "left"]
      BY <1>1, <2>6 DEF A!Signal, A!Crash
    <3>2. att[a] \in A!Call
      BY <1>1
    <3>3. att'[a].answer = att[a].answer
      BY <3>1, <3>2 DEF A!Call
    <3> QED BY <2>2, <3>3
  <2>7. CASE A!Attempts(a)
    <3>1. A!Conclude(a)
      BY <1>3, <2>7 DEF A!Attempts, A!CleanupFirst, A!Claim, A!Load, A!Extract, A!Validate, A!ExecuteTask,
         A!Attribute, A!Summarize, A!CompletedResult, A!Leave, A!At
    <3>2. ~A!MarkCompleted
      BY DEF A!MarkCompleted
    <3>3. ASSUME NEW k \in {"retry", "unconfirmed", "stopped"}, NEW v, A!Return(a, k, v) \/ A!Faulty(a, k, v)
          PROVE  ~Lasts(att'[a])
      <4>1. att'[a].answer = [kind |-> k, what |-> v]
        BY <1>1, <3>3 DEF A!Return, A!Faulty, A!Call
      <4> QED BY <4>1 DEF Lasts
    <3> QED BY <3>1, <3>2, <3>3, Zenon DEF A!Conclude, A!Stopped
  <2>8. CASE UNCHANGED att
    BY <2>1, <2>8
  <2> QED BY <2>1, <2>3, <2>4, <2>5, <2>6, <2>7, <2>8
    DEF A!Next, A!vars, A!ExpireCancelled, A!DeleteHistory, A!Due, A!Cleanup
<1> QED BY <1>2, <1>3 DEF A!At, Lasts

(* Whatever number of attempts of whatever number of askers work on a run, whichever call of
   theirs fails, is stopped or dies, and whenever the run is cancelled, deleted or overdue: a
   run has one outcome, the completed run replays it, and an attempt on a saved plan in which
   nothing fails concludes. (BusinessAnalysisApplication.analyze, run_store.py mark_completed) *)
THEOREM RunsHaveOneOutcome ==
  A!RunAssumption /\ A!Spec => [](A!TypeOK /\ A!OneOutcome /\ A!CleanResumeConcludes)
<1>1. A!RunAssumption /\ A!Spec => []RunInv
  BY RunInit, RunNext, PTL DEF A!Spec
<1> QED BY <1>1, RunSays, PTL

(* What was expired by a cancellation, a deletion or the clock is never completed, and no
   worker concludes a report or a verdict from it. (run_store.py mark_completed) *)
THEOREM ExpiredStaysExpired == A!RunAssumption /\ A!Spec => A!ExpiredForGood
<1>1. A!RunAssumption /\ A!Spec => []RunInv
  BY RunInit, RunNext, PTL DEF A!Spec
<1> QED BY <1>1, StepKeepsExpired, PTL DEF A!Spec, A!ExpiredForGood
=============================================================================
