--------------------------- MODULE MCServices_proofs ---------------------------
(***************************************************************************)
(* The theorems about the components, brought to the instances that the    *)
(* runs check.  Every part of MCServices is one instance of a component    *)
(* and takes the steps of no other, so the invariant of its component      *)
(* holds in the behaviours that are about it.                              *)
(***************************************************************************)
EXTENDS MCServices, TLAPS

CP == INSTANCE QueryApi_proofs WITH
       Turns <- 3, Owner <- {o1}, Conv <- {k1, k2}, Kinds <- {"query"}, TTL <- 1, Limit <- 1,
       Stale <- 9, ProbeTime <- 1, MaxPerUser <- 2, MaxTotal <- 2, MaxProbes <- 1,
       Happens <- {}, MaxTime <- 2,
       now <- x1, accepting <- x2, up <- x3, monitor <- x4, checks <- x5, active <- x6,
       running <- x7, entries <- x8, told <- x9, turn <- x10
DP == INSTANCE QueryApi_proofs WITH
       Turns <- 2, Owner <- {o1, o2}, Conv <- {k1}, Kinds <- {"query", "analysis"}, TTL <- 1,
       Limit <- 1, Stale <- 1, ProbeTime <- 1, MaxPerUser <- 2, MaxTotal <- 2, MaxProbes <- 1,
       Happens <- {"outage", "close"}, MaxTime <- 2,
       now <- x1, accepting <- x2, up <- x3, monitor <- x4, checks <- x5, active <- x6,
       running <- x7, entries <- x8, told <- x9, turn <- x10

-----------------------------------------------------------------------------
(* The conversations and the entry are the component its theorems are about. *)
LEMMA SameAssumption == CP!QueryApiAssumption /\ DP!QueryApiAssumption
  BY ServicesAssumption
  DEF C!QueryApiAssumption, CP!QueryApiAssumption, D!QueryApiAssumption, DP!QueryApiAssumption,
      C!Turn, CP!Turn, D!Turn, DP!Turn, C!Entry, CP!Entry, D!Entry, DP!Entry, C!Base, CP!Base, D!Base, DP!Base

\* The two spellings of the initial states of the instances.
LEMMA SameInit == (C!Init => CP!Init) /\ (D!Init => DP!Init)
  BY DEF C!Init, CP!Init, D!Init, DP!Init, C!Turn, CP!Turn, D!Turn, DP!Turn,
         C!Waiting, CP!Waiting, D!Waiting, DP!Waiting

\* The two spellings of the steps of the turns.
LEMMA SameTurnsNext == C!Next => CP!Next
<1>1. ASSUME NEW t \in C!Turn, C!Begin(t) PROVE CP!Begin(t)
  BY <1>1, Zenon DEF C!Begin, CP!Begin, C!Turn, CP!Turn, C!Over, CP!Over, C!world, CP!world, C!Waiting,
         CP!Waiting
<1>2. ASSUME NEW t \in C!Turn, C!CheckReady(t) PROVE CP!CheckReady(t)
  BY <1>2 DEF C!CheckReady, CP!CheckReady, C!Ready, CP!Ready, C!Go, CP!Go, C!Over, CP!Over, C!world,
         CP!world, C!Waiting, CP!Waiting
<1>3. ASSUME NEW t \in C!Turn, C!ReserveOwner(t) PROVE CP!ReserveOwner(t)
  BY <1>3 DEF C!ReserveOwner, CP!ReserveOwner, C!Sum, CP!Sum, C!AfterReserve, CP!AfterReserve, C!Over,
         CP!Over, C!world, CP!world, C!Waiting, CP!Waiting
<1>4. ASSUME NEW t \in C!Turn, C!Acquire(t) PROVE CP!Acquire(t)
  BY <1>4 DEF C!Acquire, CP!Acquire, C!Unavailable, CP!Unavailable, C!Reply, CP!Reply, C!Expired,
         CP!Expired, C!Conflict, CP!Conflict, C!world, CP!world
<1>5. ASSUME NEW t \in C!Turn, C!Revise(t) PROVE CP!Revise(t)
  BY <1>5 DEF C!Revise, CP!Revise, C!Go, CP!Go, C!Reply, CP!Reply, C!Refused, CP!Refused, C!world,
         CP!world
<1>6. ASSUME NEW t \in C!Turn, C!Execute(t) PROVE CP!Execute(t)
  BY <1>6 DEF C!Execute, CP!Execute, C!Checkpoint, CP!Checkpoint, C!Go, CP!Go, C!Reply, CP!Reply,
         C!Refused, CP!Refused, C!world, CP!world
<1>7. ASSUME NEW t \in C!Turn, C!Executed(t) PROVE CP!Executed(t)
  BY <1>7 DEF C!Executed, CP!Executed, C!Checkpoint, CP!Checkpoint, C!Reply, CP!Reply, C!Refused,
         CP!Refused, C!Go, CP!Go, C!world, CP!world
<1>8. ASSUME NEW t \in C!Turn, C!Create(t) PROVE CP!Create(t)
  BY <1>8, Zenon DEF C!Create, CP!Create, C!Purged, CP!Purged, C!Reply, CP!Reply, C!world, CP!world, C!Expired,
         CP!Expired
<1>9. ASSUME NEW t \in C!Turn, C!Commit(t) PROVE CP!Commit(t)
  BY <1>9 DEF C!Commit, CP!Commit, C!LeaseHeld, CP!LeaseHeld, C!Reply, CP!Reply, C!Aborted, CP!Aborted,
         C!world, CP!world
<1>10. ASSUME NEW t \in C!Turn, C!Abort(t) PROVE CP!Abort(t)
  BY <1>10 DEF C!Abort, CP!Abort, C!Aborted, CP!Aborted, C!Go, CP!Go, C!world, CP!world
<1>11. ASSUME NEW t \in C!Turn, C!Guard(t) PROVE CP!Guard(t)
  BY <1>11 DEF C!Guard, CP!Guard, C!Reply, CP!Reply, C!Go, CP!Go, C!world, CP!world
<1>12. ASSUME NEW t \in C!Turn, C!Analysed(t) PROVE CP!Analysed(t)
  BY <1>12, Zenon DEF C!Analysed, CP!Analysed, C!Reply, CP!Reply, C!Checkpoint, CP!Checkpoint, C!world, CP!world
<1>13. ASSUME NEW t \in C!Turn, C!Release(t) PROVE CP!Release(t)
  BY <1>13 DEF C!Release, CP!Release, C!Over, CP!Over, C!world, CP!world, C!Waiting, CP!Waiting
<1>14. /\ C!ProbeLooks => CP!ProbeLooks
       /\ C!RecordChecks => CP!RecordChecks
       /\ C!Tick => CP!Tick
       /\ C!Outage => CP!Outage
       /\ C!Close => CP!Close
  BY DEF C!ProbeLooks, CP!ProbeLooks, C!RecordChecks, CP!RecordChecks, C!Tick, CP!Tick, C!Outage,
         CP!Outage, C!Close, CP!Close, C!world, CP!world
<1>15. C!Turn = CP!Turn
  BY DEF C!Turn, CP!Turn
<1>16. CASE \E t \in C!Turn : \/ C!Begin(t) \/ C!CheckReady(t) \/ C!ReserveOwner(t) \/ C!Acquire(t)
                              \/ C!Revise(t) \/ C!Execute(t) \/ C!Executed(t) \/ C!Create(t)
                              \/ C!Commit(t) \/ C!Abort(t) \/ C!Guard(t) \/ C!Analysed(t) \/ C!Release(t)
  <2>1. PICK t \in C!Turn : \/ C!Begin(t) \/ C!CheckReady(t) \/ C!ReserveOwner(t) \/ C!Acquire(t)
                            \/ C!Revise(t) \/ C!Execute(t) \/ C!Executed(t) \/ C!Create(t)
                            \/ C!Commit(t) \/ C!Abort(t) \/ C!Guard(t) \/ C!Analysed(t) \/ C!Release(t)
    BY <1>16
  <2>2. \/ CP!Begin(t) \/ CP!CheckReady(t) \/ CP!ReserveOwner(t) \/ CP!Acquire(t)
        \/ CP!Revise(t) \/ CP!Execute(t) \/ CP!Executed(t) \/ CP!Create(t)
        \/ CP!Commit(t) \/ CP!Abort(t) \/ CP!Guard(t) \/ CP!Analysed(t) \/ CP!Release(t)
    BY <2>1, <1>1, <1>2, <1>3, <1>4, <1>5, <1>6, <1>7, <1>8, <1>9, <1>10, <1>11, <1>12, <1>13
  <2> QED BY <2>2, <1>15 DEF CP!Next
<1>17. CASE C!ProbeLooks \/ C!RecordChecks \/ C!Tick \/ C!Outage \/ C!Close
  BY <1>17, <1>14 DEF CP!Next
<1> QED BY <1>16, <1>17 DEF C!Next

\* The two spellings of the steps of the entry.
LEMMA SameEntryNext == D!Next => DP!Next
<1>1. ASSUME NEW t \in D!Turn, D!Begin(t) PROVE DP!Begin(t)
  BY <1>1, Zenon DEF D!Begin, DP!Begin, D!Turn, DP!Turn, D!Over, DP!Over, D!world, DP!world, D!Waiting,
         DP!Waiting
<1>2. ASSUME NEW t \in D!Turn, D!CheckReady(t) PROVE DP!CheckReady(t)
  BY <1>2 DEF D!CheckReady, DP!CheckReady, D!Ready, DP!Ready, D!Go, DP!Go, D!Over, DP!Over, D!world,
         DP!world, D!Waiting, DP!Waiting
<1>3. ASSUME NEW t \in D!Turn, D!ReserveOwner(t) PROVE DP!ReserveOwner(t)
  BY <1>3 DEF D!ReserveOwner, DP!ReserveOwner, D!Sum, DP!Sum, D!AfterReserve, DP!AfterReserve, D!Over,
         DP!Over, D!world, DP!world, D!Waiting, DP!Waiting
<1>4. ASSUME NEW t \in D!Turn, D!Acquire(t) PROVE DP!Acquire(t)
  BY <1>4 DEF D!Acquire, DP!Acquire, D!Unavailable, DP!Unavailable, D!Reply, DP!Reply, D!Expired,
         DP!Expired, D!Conflict, DP!Conflict, D!world, DP!world
<1>5. ASSUME NEW t \in D!Turn, D!Revise(t) PROVE DP!Revise(t)
  BY <1>5 DEF D!Revise, DP!Revise, D!Go, DP!Go, D!Reply, DP!Reply, D!Refused, DP!Refused, D!world,
         DP!world
<1>6. ASSUME NEW t \in D!Turn, D!Execute(t) PROVE DP!Execute(t)
  BY <1>6 DEF D!Execute, DP!Execute, D!Checkpoint, DP!Checkpoint, D!Go, DP!Go, D!Reply, DP!Reply,
         D!Refused, DP!Refused, D!world, DP!world
<1>7. ASSUME NEW t \in D!Turn, D!Executed(t) PROVE DP!Executed(t)
  BY <1>7 DEF D!Executed, DP!Executed, D!Checkpoint, DP!Checkpoint, D!Reply, DP!Reply, D!Refused,
         DP!Refused, D!Go, DP!Go, D!world, DP!world
<1>8. ASSUME NEW t \in D!Turn, D!Create(t) PROVE DP!Create(t)
  BY <1>8, Zenon DEF D!Create, DP!Create, D!Purged, DP!Purged, D!Reply, DP!Reply, D!world, DP!world, D!Expired,
         DP!Expired
<1>9. ASSUME NEW t \in D!Turn, D!Commit(t) PROVE DP!Commit(t)
  BY <1>9 DEF D!Commit, DP!Commit, D!LeaseHeld, DP!LeaseHeld, D!Reply, DP!Reply, D!Aborted, DP!Aborted,
         D!world, DP!world
<1>10. ASSUME NEW t \in D!Turn, D!Abort(t) PROVE DP!Abort(t)
  BY <1>10 DEF D!Abort, DP!Abort, D!Aborted, DP!Aborted, D!Go, DP!Go, D!world, DP!world
<1>11. ASSUME NEW t \in D!Turn, D!Guard(t) PROVE DP!Guard(t)
  BY <1>11 DEF D!Guard, DP!Guard, D!Reply, DP!Reply, D!Go, DP!Go, D!world, DP!world
<1>12. ASSUME NEW t \in D!Turn, D!Analysed(t) PROVE DP!Analysed(t)
  BY <1>12, Zenon DEF D!Analysed, DP!Analysed, D!Reply, DP!Reply, D!Checkpoint, DP!Checkpoint, D!world, DP!world
<1>13. ASSUME NEW t \in D!Turn, D!Release(t) PROVE DP!Release(t)
  BY <1>13 DEF D!Release, DP!Release, D!Over, DP!Over, D!world, DP!world, D!Waiting, DP!Waiting
<1>14. /\ D!ProbeLooks => DP!ProbeLooks
       /\ D!RecordChecks => DP!RecordChecks
       /\ D!Tick => DP!Tick
       /\ D!Outage => DP!Outage
       /\ D!Close => DP!Close
  BY DEF D!ProbeLooks, DP!ProbeLooks, D!RecordChecks, DP!RecordChecks, D!Tick, DP!Tick, D!Outage,
         DP!Outage, D!Close, DP!Close, D!world, DP!world
<1>15. D!Turn = DP!Turn
  BY DEF D!Turn, DP!Turn
<1>16. CASE \E t \in D!Turn : \/ D!Begin(t) \/ D!CheckReady(t) \/ D!ReserveOwner(t) \/ D!Acquire(t)
                              \/ D!Revise(t) \/ D!Execute(t) \/ D!Executed(t) \/ D!Create(t)
                              \/ D!Commit(t) \/ D!Abort(t) \/ D!Guard(t) \/ D!Analysed(t) \/ D!Release(t)
  <2>1. PICK t \in D!Turn : \/ D!Begin(t) \/ D!CheckReady(t) \/ D!ReserveOwner(t) \/ D!Acquire(t)
                            \/ D!Revise(t) \/ D!Execute(t) \/ D!Executed(t) \/ D!Create(t)
                            \/ D!Commit(t) \/ D!Abort(t) \/ D!Guard(t) \/ D!Analysed(t) \/ D!Release(t)
    BY <1>16
  <2>2. \/ DP!Begin(t) \/ DP!CheckReady(t) \/ DP!ReserveOwner(t) \/ DP!Acquire(t)
        \/ DP!Revise(t) \/ DP!Execute(t) \/ DP!Executed(t) \/ DP!Create(t)
        \/ DP!Commit(t) \/ DP!Abort(t) \/ DP!Guard(t) \/ DP!Analysed(t) \/ DP!Release(t)
    BY <2>1, <1>1, <1>2, <1>3, <1>4, <1>5, <1>6, <1>7, <1>8, <1>9, <1>10, <1>11, <1>12, <1>13
  <2> QED BY <2>2, <1>15 DEF DP!Next
<1>17. CASE D!ProbeLooks \/ D!RecordChecks \/ D!Tick \/ D!Outage \/ D!Close
  BY <1>17, <1>14 DEF DP!Next
<1> QED BY <1>16, <1>17 DEF D!Next

(* What a part's invariant is about does not change where the part's state does not. *)
TurnsInv == part = "turns" => CP!IInv
EntryInv == part = "entry" => DP!IInv

\* Whichever part runs starts in its invariant.
LEMMA PartsInit == Init => TurnsInv /\ EntryInv
<1> SUFFICES ASSUME Init PROVE TurnsInv /\ EntryInv
  OBVIOUS
<1>1. (part = "turns" => C!Init) /\ (part = "entry" => D!Init)
  BY DEF Init
<1> QED BY <1>1, SameAssumption, SameInit, CP!InitInv, DP!InitInv DEF TurnsInv, EntryInv

\* Whichever part runs keeps its invariant.
LEMMA PartsNext == TurnsInv /\ EntryInv /\ [Next]_all => TurnsInv' /\ EntryInv'
<1> SUFFICES ASSUME TurnsInv, EntryInv, [Next]_all PROVE TurnsInv' /\ EntryInv'
  OBVIOUS
<1>1. UNCHANGED part
  BY DEF Next, all
<1>2. ASSUME part = "turns" PROVE [C!Next]_xs
  BY <1>2 DEF Next, all
<1>3. ASSUME part = "entry" PROVE [D!Next]_xs
  BY <1>3 DEF Next, all
<1>4. UNCHANGED xs => UNCHANGED CP!vars /\ UNCHANGED DP!vars
  BY DEF xs, CP!vars, DP!vars
<1>5. ASSUME part = "turns" PROVE CP!IInv'
  <2>1. CP!IInv /\ [CP!Next]_(CP!vars)
    BY <1>2, <1>4, <1>5, SameTurnsNext DEF TurnsInv
  <2> QED BY <2>1, CP!NextKeeps
<1>6. ASSUME part = "entry" PROVE DP!IInv'
  <2>1. DP!IInv /\ [DP!Next]_(DP!vars)
    BY <1>3, <1>4, <1>6, SameEntryNext DEF EntryInv
  <2> QED BY <2>1, DP!NextKeeps
<1> QED BY <1>1, <1>5, <1>6 DEF TurnsInv, EntryInv

\* The two spellings of what the instances promise.
LEMMA SameProperties ==
  /\ CP!TypeOK => C!TypeOK
  /\ CP!TurnsChain => C!TurnsChain
  /\ CP!NothingOrphaned => C!NothingOrphaned
  /\ DP!TypeOK => D!TypeOK
  /\ DP!TurnsChain => D!TurnsChain
  /\ DP!NothingOrphaned => D!NothingOrphaned
  /\ DP!EvidenceRecent => D!EvidenceRecent
<1>c. C!Turn = CP!Turn /\ C!Placed = CP!Placed /\ C!Held = CP!Held
  BY DEF C!Turn, CP!Turn, C!Placed, CP!Placed, C!Held, CP!Held
<1>d. D!Turn = DP!Turn /\ D!Placed = DP!Placed /\ D!Held = DP!Held
  BY DEF D!Turn, DP!Turn, D!Placed, DP!Placed, D!Held, DP!Held
<1>1. CP!TypeOK => C!TypeOK
  BY <1>c DEF C!TypeOK, CP!TypeOK
<1>2. DP!TypeOK => D!TypeOK
  BY <1>d DEF D!TypeOK, DP!TypeOK
<1>3. CP!TurnsChain => C!TurnsChain
  BY <1>c DEF C!TurnsChain, CP!TurnsChain
<1>4. DP!TurnsChain => D!TurnsChain
  BY <1>d DEF D!TurnsChain, DP!TurnsChain
<1>5. CP!NothingOrphaned => C!NothingOrphaned
  <2>1. \A o : C!PlacedOf(o) = CP!PlacedOf(o)
    BY <1>c DEF C!PlacedOf, CP!PlacedOf
  <2>2. \A z : C!Cardinality(z) = CP!Cardinality(z)
    BY DEF C!Cardinality, CP!Cardinality
  <2> QED BY <1>c, <2>1, <2>2 DEF C!NothingOrphaned, CP!NothingOrphaned
<1>6. DP!NothingOrphaned => D!NothingOrphaned
  <2>1. \A o : D!PlacedOf(o) = DP!PlacedOf(o)
    BY <1>d DEF D!PlacedOf, DP!PlacedOf
  <2>2. \A z : D!Cardinality(z) = DP!Cardinality(z)
    BY DEF D!Cardinality, DP!Cardinality
  <2> QED BY <1>d, <2>1, <2>2 DEF D!NothingOrphaned, DP!NothingOrphaned
<1>7. DP!EvidenceRecent => D!EvidenceRecent
  BY <1>d DEF D!EvidenceRecent, DP!EvidenceRecent
<1> QED BY <1>1, <1>2, <1>3, <1>4, <1>5, <1>6, <1>7

\* What the invariants say of the parts.
LEMMA PartsSay == TurnsInv /\ EntryInv => TurnsChain /\ NothingOrphaned
  BY CP!InvariantSays, DP!InvariantSays, SameProperties DEF TurnsInv, EntryInv, TurnsChain, NothingOrphaned

\* What a step of the entry says of the evidence it admits on.
LEMMA PartsAdmit == TurnsInv /\ EntryInv /\ [Next]_all => (part = "entry" => D!EvidenceRecent)
<1> SUFFICES ASSUME EntryInv, [Next]_all, part = "entry" PROVE D!EvidenceRecent
  OBVIOUS
<1>1. [D!Next]_xs
  BY DEF Next, all
<1>2. UNCHANGED xs => UNCHANGED DP!vars
  BY DEF xs, DP!vars
<1>3. DP!IInv /\ [DP!Next]_(DP!vars)
  BY <1>1, <1>2, SameEntryNext DEF EntryInv
<1> QED BY <1>3, DP!StepAdmits, SameProperties

(* A conversation of the instances is the chain of its successful turns, and only expiry
   loses one (conversation.py): ConversationsChain of QueryApi_proofs. *)
THEOREM ChainsHere == Spec => []TurnsChain
  BY PartsInit, PartsNext, PartsSay, PTL DEF Spec

(* No conversation and no place of the instances stays taken by a request that is over
   (app.py _run_authorized_query, admission.py): PlacesAreReturned of QueryApi_proofs. *)
THEOREM NothingOrphanedHere == Spec => []NothingOrphaned
  BY PartsInit, PartsNext, PartsSay, PTL DEF Spec

(* A request of the instances is admitted on recent evidence only (operations.py snapshot):
   AdmissionsAreRecent of QueryApi_proofs. *)
THEOREM AdmissionsHere == Spec => AdmittedOnEvidence
  BY PartsInit, PartsNext, PartsAdmit, PTL DEF Spec, AdmittedOnEvidence

-----------------------------------------------------------------------------
(* Services_proofs is about five components; each has the state of its own part. *)
SP == INSTANCE Services_proofs WITH
       MaxFaults <- 1,
       Migrator <- {1, 2}, Later <- 1,
       database <- x1, role <- x2, files <- x3, made <- x4, noted <- x5, granted <- x6,
       migrator <- x7, look <- x8, faults <- x9,
       Thread <- {1, 2},
       phase <- x1, step <- x2, got <- x3, open <- x4, stack <- x5, failed <- x6, accepting <- x7,
       bound <- x8, thread <- x9, mishaps <- x10,
       Builder <- {"b1", "b2"}, BuildId <- {"i1", "i2"}, Reader <- {"q1"}, Kinds <- 2,
       Facts <- FactFiles, Production <- TRUE,
       source <- x1, collection <- x2, staging <- x3, final <- x4, current <- x5, build <- x6,
       cache <- x7, reader <- x8,
       Owner <- {o1, o2}, Request <- {r1, r2}, Sender <- r1 :> {o1} @@ r2 :> {o1, o2},
       MaxTotal <- 1, MaxLives <- 2, Faults <- {"assets", "spawn", "worker", "removal", "crash"},
       stage <- x1, lives <- x2, rt <- x3, disk <- x4, workers <- x5, job <- x6,
       Attempt <- {a1, a2}, Who <- {w1, w2}, Tasks <- 2,
       row <- x1, checkpoint <- x2, att <- x3, failures <- x4

\* The two spellings of the installation of the control database.
LEMMA SameSchema ==
  /\ SP!N!MigrationAssumption /\ (N!Init => SP!N!Init) /\ (N!Next => SP!N!Next)
  /\ UNCHANGED xs => UNCHANGED SP!N!vars
  /\ SP!N!MigrationHolds => N!MigrationHolds
<1>1. SP!N!MigrationAssumption
  BY ServicesAssumption DEF ServicesAssumption, N!MigrationAssumption, SP!N!MigrationAssumption
<1>2. N!Init => SP!N!Init
  BY DEF N!Init, SP!N!Init, N!Releases, SP!N!Releases, N!File, SP!N!File, N!Created, SP!N!Created,
      N!Steps, SP!N!Steps, N!Tables, SP!N!Tables, N!Granted, SP!N!Granted, N!Range, SP!N!Range
<1>3. N!Next => SP!N!Next
  BY Zenon DEF N!Next, SP!N!Next, N!LookForDatabase, SP!N!LookForDatabase, N!CreateDatabase,
      SP!N!CreateDatabase, N!LookForRole, SP!N!LookForRole, N!EnsureLoginRole,
      SP!N!EnsureLoginRole, N!RunFiles, SP!N!RunFiles, N!Setup, SP!N!Setup, N!MakeStep,
      SP!N!MakeStep, N!NoteStep, SP!N!NoteStep, N!Grant, SP!N!Grant, N!Fails, SP!N!Fails,
      N!ReadVersions, SP!N!ReadVersions, N!ReadCheckpoints, SP!N!ReadCheckpoints,
      N!VerifyHistorySchema, SP!N!VerifyHistorySchema, N!CheckpointReady, SP!N!CheckpointReady,
      N!Active, SP!N!Active, N!Tables, SP!N!Tables, N!Go, SP!N!Go, N!Refused, SP!N!Refused,
      N!RoleCommand, SP!N!RoleCommand, N!Releases, SP!N!Releases, N!File, SP!N!File, N!Created,
      SP!N!Created, N!Granted, SP!N!Granted, N!Steps, SP!N!Steps, N!objects, SP!N!objects,
      N!Range, SP!N!Range
<1>4. UNCHANGED xs => UNCHANGED SP!N!vars
  BY DEF xs, SP!N!vars
<1>5. SP!N!MigrationHolds => N!MigrationHolds
  BY DEF N!MigrationHolds, SP!N!MigrationHolds, N!TypeOK, SP!N!TypeOK, N!StartsOnWhole,
      SP!N!StartsOnWhole, N!RerunInstalls, SP!N!RerunInstalls, N!Whole, SP!N!Whole, N!File,
      SP!N!File, N!Created, SP!N!Created, N!Granted, SP!N!Granted, N!Steps, SP!N!Steps,
      N!Range, SP!N!Range
<1> QED BY <1>1, <1>2, <1>3, <1>4, <1>5

\* The two spellings of the lifespan of the process.
LEMMA SameLife ==
  /\ SP!W!LifespanAssumption /\ (W!Init => SP!W!Init) /\ (W!Next => SP!W!Next)
  /\ UNCHANGED xs => UNCHANGED SP!W!vars
  /\ SP!W!LifespanHolds => W!LifespanHolds
<1>1. SP!W!LifespanAssumption
  BY ServicesAssumption DEF ServicesAssumption, W!LifespanAssumption, SP!W!LifespanAssumption
<1>2. W!Init => SP!W!Init
  BY DEF W!Init, SP!W!Init, W!Idle, SP!W!Idle
<1>3. W!Next => SP!W!Next
  BY Zenon DEF W!Next, SP!W!Next, W!Acquire, SP!W!Acquire, W!StartFails, SP!W!StartFails, W!Ask,
      SP!W!Ask, W!TakeLease, SP!W!TakeLease, W!LoseLeases, SP!W!LoseLeases, W!Finish,
      SP!W!Finish, W!Leave, SP!W!Leave, W!Shutdown, SP!W!Shutdown, W!CloseExport,
      SP!W!CloseExport, W!CloseExecution, SP!W!CloseExecution, W!DrainGuard, SP!W!DrainGuard,
      W!DrainHistory, SP!W!DrainHistory, W!Unwind, SP!W!Unwind, W!Exit, SP!W!Exit,
      W!CloseFails, SP!W!CloseFails, W!Drained, SP!W!Drained, W!WorkersEnded,
      SP!W!WorkersEnded, W!Gives, SP!W!Gives, W!Idle, SP!W!Idle, W!Leases, SP!W!Leases,
      W!LeasesOf, SP!W!LeasesOf, W!Registers, SP!W!Registers, W!PublishBindings,
      SP!W!PublishBindings, W!Resource, SP!W!Resource, W!Startup, SP!W!Startup, W!life,
      SP!W!life, W!Contains, SP!W!Contains, W!Front, SP!W!Front, W!Last, SP!W!Last, W!Range,
      SP!W!Range
<1>4. UNCHANGED xs => UNCHANGED SP!W!vars
  BY DEF xs, SP!W!vars
<1>5. SP!W!LifespanHolds => W!LifespanHolds
  BY DEF W!LifespanHolds, SP!W!LifespanHolds, W!TypeOK, SP!W!TypeOK, W!WorkStandsOnOpen,
      SP!W!WorkStandsOnOpen, W!NothingLeft, SP!W!NothingLeft, W!Resource, SP!W!Resource,
      W!Startup, SP!W!Startup, W!Range, SP!W!Range
<1> QED BY <1>1, <1>2, <1>3, <1>4, <1>5

(* The invariants of the two, each where a behaviour is about it. *)
SchemaInv == part = "schema" => SP!MigInv
LifeInv == part = "lifespan" => SP!LifeInv

\* The schema and the lifespan start in their invariants.
LEMMA StartsHold == Init => SchemaInv /\ LifeInv
<1> SUFFICES ASSUME Init PROVE SchemaInv /\ LifeInv
  OBVIOUS
<1>1. (part = "schema" => N!Init) /\ (part = "lifespan" => W!Init)
  BY DEF Init
<1> QED BY <1>1, SameSchema, SameLife, SP!MigInit, SP!LifeInit DEF SchemaInv, LifeInv

\* The schema and the lifespan keep their invariants.
LEMMA StepsHold == SchemaInv /\ LifeInv /\ [Next]_all => SchemaInv' /\ LifeInv'
<1> SUFFICES ASSUME SchemaInv, LifeInv, [Next]_all PROVE SchemaInv' /\ LifeInv'
  OBVIOUS
<1>1. UNCHANGED part
  BY DEF Next, all
<1>2. ASSUME part = "schema" PROVE [N!Next]_xs
  BY <1>2 DEF Next, all
<1>3. ASSUME part = "lifespan" PROVE [W!Next]_xs
  BY <1>3 DEF Next, all
<1>4. ASSUME part = "schema" PROVE SP!MigInv'
  <2>1. SP!MigInv /\ [SP!N!Next]_(SP!N!vars)
    BY <1>2, <1>4, SameSchema DEF SchemaInv
  <2> QED BY <2>1, SP!MigNext
<1>5. ASSUME part = "lifespan" PROVE SP!LifeInv'
  <2>1. SP!LifeInv /\ [SP!W!Next]_(SP!W!vars)
    BY <1>3, <1>5, SameLife DEF LifeInv
  <2> QED BY <2>1, SP!LifeNext
<1> QED BY <1>1, <1>4, <1>5 DEF SchemaInv, LifeInv

\* What the invariants of the schema and the lifespan say.
LEMMA HoldsSay == SchemaInv /\ LifeInv => LifespanHolds
  BY SameSchema, SameLife, SP!MigSays, SP!LifeSays DEF SchemaInv, LifeInv, LifespanHolds

(* The process of the instances starts on a whole installation, works on what is open and
   leaves nothing (control_database_migration.py, lifespan): MigrationIsWhole and
   LifespanIsOrderly of Services_proofs. *)
THEOREM LifespanHoldsHere == Spec => []LifespanHolds
  BY StartsHold, StepsHold, HoldsSay, PTL DEF Spec

-----------------------------------------------------------------------------
\* The two spellings of the publication of the assets.
LEMMA SameAssets ==
  /\ SP!R!RagAssumption /\ (R!Init => SP!R!Init) /\ (R!Next => SP!R!Next)
  /\ UNCHANGED xs => UNCHANGED SP!R!vars
  /\ SP!R!TypeOK /\ SP!R!PublishedIsWhole => R!TypeOK /\ R!PublishedIsWhole
<1>1. SP!R!RagAssumption
  BY ServicesAssumption DEF ServicesAssumption, R!RagAssumption, SP!R!RagAssumption
<1>2. R!Init => SP!R!Init
  BY DEF R!Init, SP!R!Init, R!NoBuild, SP!R!NoBuild
<1>3. ASSUME NEW b
      PROVE  R!Load(b) => SP!R!Load(b)
  BY Zenon DEF R!Load, SP!R!Load, R!Set, SP!R!Set, R!LoadFacts, SP!R!LoadFacts,
      R!BuildRelationshipGraph, SP!R!BuildRelationshipGraph, R!Files, SP!R!Files, R!World,
      SP!R!World, R!NormalizeTables, SP!R!NormalizeTables, R!NormalizeColumns,
      SP!R!NormalizeColumns, R!NormalizeMetrics, SP!R!NormalizeMetrics, R!Distinct, SP!R!Distinct,
      R!Members, SP!R!Members, R!ColumnsExist, SP!R!ColumnsExist, R!CollectKeyConstraints,
      SP!R!CollectKeyConstraints, R!Names, SP!R!Names, R!ResolveColumnReference,
      SP!R!ResolveColumnReference, R!KnownColumn, SP!R!KnownColumn
<1>4. ASSUME NEW b
      PROVE  /\ R!LookForDirectory(b) => SP!R!LookForDirectory(b)
             /\ R!MakeStaging(b) => SP!R!MakeStaging(b)
  BY Zenon DEF R!LookForDirectory, SP!R!LookForDirectory, R!Goto, SP!R!Goto, R!Id, SP!R!Id, R!Files,
      SP!R!Files, R!World, SP!R!World, R!Set, SP!R!Set, R!MakeStaging, SP!R!MakeStaging
<1>5. ASSUME NEW b
      PROVE  /\ R!CreateCollection(b) => SP!R!CreateCollection(b)
             /\ R!UpsertDocuments(b) => SP!R!UpsertDocuments(b)
  BY Zenon DEF R!CreateCollection, SP!R!CreateCollection, R!Id, SP!R!Id, R!Set, SP!R!Set, R!Goto,
      SP!R!Goto, R!Files, SP!R!Files, R!World, SP!R!World, R!UpsertDocuments, SP!R!UpsertDocuments,
      R!Count, SP!R!Count, R!BuildDocuments, SP!R!BuildDocuments
<1>6. ASSUME NEW b
      PROVE  /\ R!ValidateCollection(b) => SP!R!ValidateCollection(b)
             /\ R!WriteManifest(b) => SP!R!WriteManifest(b)
  BY Zenon DEF R!ValidateCollection, SP!R!ValidateCollection, R!Id, SP!R!Id, R!Count, SP!R!Count,
      R!Set, SP!R!Set, R!Goto, SP!R!Goto, R!Files, SP!R!Files, R!World, SP!R!World,
      R!BuildDocuments, SP!R!BuildDocuments, R!WriteManifest, SP!R!WriteManifest
<1>7. ASSUME NEW b
      PROVE  /\ R!MoveToFinal(b) => SP!R!MoveToFinal(b)
             /\ R!WritePointer(b) => SP!R!WritePointer(b)
  BY Zenon DEF R!MoveToFinal, SP!R!MoveToFinal, R!Id, SP!R!Id, R!Set, SP!R!Set, R!Goto, SP!R!Goto,
      R!World, SP!R!World, R!WritePointer, SP!R!WritePointer
<1>8. ASSUME NEW b
      PROVE  /\ R!StepFails(b) => SP!R!StepFails(b)
             /\ R!Die(b) => SP!R!Die(b)
  BY Zenon DEF R!StepFails, SP!R!StepFails, R!Busy, SP!R!Busy, R!Goto, SP!R!Goto, R!Files,
      SP!R!Files, R!World, SP!R!World, R!Set, SP!R!Set, R!Die, SP!R!Die
<1>9. ASSUME NEW b
      PROVE  /\ R!DeleteCreated(b) => SP!R!DeleteCreated(b)
             /\ R!RemoveDirectories(b) => SP!R!RemoveDirectories(b)
  BY Zenon DEF R!DeleteCreated, SP!R!DeleteCreated, R!Max, SP!R!Max, R!CreatedCollections,
      SP!R!CreatedCollections, R!Set, SP!R!Set, R!Id, SP!R!Id, R!Files, SP!R!Files, R!World,
      SP!R!World, R!RemoveDirectories, SP!R!RemoveDirectories, R!Goto, SP!R!Goto
<1>10. ASSUME NEW q
      PROVE  /\ R!ReadPublished(q) => SP!R!ReadPublished(q)
             /\ R!GetSnapshot(q) => SP!R!GetSnapshot(q)
             /\ R!Answer(q) => SP!R!Answer(q)
  BY Zenon DEF R!ReadPublished, SP!R!ReadPublished, R!SetReader, SP!R!SetReader, R!Files,
      SP!R!Files, R!GetSnapshot, SP!R!GetSnapshot, R!ValidateCollections, SP!R!ValidateCollections,
      R!BuildDocuments, SP!R!BuildDocuments, R!Answer, SP!R!Answer
<1>11. R!ExportFacts => SP!R!ExportFacts
  BY Zenon DEF R!ExportFacts, SP!R!ExportFacts
<1>12. R!Next => SP!R!Next
  BY Zenon, <1>3, <1>4, <1>5, <1>6, <1>7, <1>8, <1>9, <1>10, <1>11 DEF R!Next, SP!R!Next
<1>13. UNCHANGED xs => UNCHANGED SP!R!vars
  BY DEF xs, SP!R!vars
<1>14. SP!R!TypeOK /\ SP!R!PublishedIsWhole => R!TypeOK /\ R!PublishedIsWhole
  BY Zenon DEF R!TypeOK, SP!R!TypeOK, R!Busy, SP!R!Busy, R!PublishedIsWhole, SP!R!PublishedIsWhole,
      R!FactsUsable, SP!R!FactsUsable, R!BuildDocuments, SP!R!BuildDocuments, R!Members,
      SP!R!Members, R!Names, SP!R!Names
<1> QED BY <1>1, <1>2, <1>12, <1>13, <1>14

(* The invariant of the builders, where a behaviour is about them. *)
AssetsInv == part = "assets" => SP!RagInv

\* The builders start in their invariant and keep it.
LEMMA AssetsHold == (Init => AssetsInv) /\ (AssetsInv /\ [Next]_all => AssetsInv')
<1>1. Init => AssetsInv
  <2>1. Init => (part = "assets" => R!Init)
    BY DEF Init
  <2> QED BY <2>1, SameAssets, SP!RagInit DEF AssetsInv
<1>2. ASSUME AssetsInv, [Next]_all PROVE AssetsInv'
  <2>1. UNCHANGED part
    BY <1>2 DEF Next, all
  <2>2. ASSUME part = "assets" PROVE [R!Next]_xs
    BY <1>2, <2>2 DEF Next, all
  <2>3. ASSUME part = "assets" PROVE SP!RagInv'
    <3>1. SP!RagInv /\ [SP!R!Next]_(SP!R!vars)
      BY <1>2, <2>2, <2>3, SameAssets DEF AssetsInv
    <3> QED BY <3>1, SP!RagNext
  <2> QED BY <2>1, <2>3 DEF AssetsInv
<1> QED BY <1>1, <1>2

\* What the invariant of the builders says.
LEMMA AssetsSay == AssetsInv => PublishedIsWhole
  BY SameAssets, SP!RagSays DEF AssetsInv, PublishedIsWhole

(* What the pointer of the instances names and what their reader is handed is a whole build
   (build_rag_assets, RagRuntime.get_snapshot): PublishedStaysWhole of Services_proofs. *)
THEOREM PublishedHere == Spec => []PublishedIsWhole
  BY AssetsHold, AssetsSay, PTL DEF Spec

-----------------------------------------------------------------------------
\* The two spellings of the export files.
LEMMA SameExports ==
  /\ SP!X!ExportAssumption /\ (X!Init => SP!X!Init) /\ (X!Next => SP!X!Next)
  /\ UNCHANGED xs => UNCHANGED SP!X!vars
  /\ SP!X!TypeOK /\ SP!X!SlotCoversWork /\ SP!X!FailureFreesSlot => X!TypeOK /\ X!SlotCoversWork /\ X!FailureFreesSlot
<1>1. SP!X!ExportAssumption
  BY ServicesAssumption, Zenon DEF ServicesAssumption, X!ExportAssumption, SP!X!ExportAssumption, X!Fault, SP!X!Fault
<1>2. X!Init => SP!X!Init
  BY Zenon DEF X!Init, SP!X!Init, X!Idle, SP!X!Idle, X!NewRuntime, SP!X!NewRuntime
<1>3. X!Startups = SP!X!Startups
  BY Zenon DEF X!Startups, SP!X!Startups, X!Unlocked, SP!X!Unlocked
<1>4. ASSUME NEW r
      PROVE  /\ X!Prepare(r) => SP!X!Prepare(r)
             /\ X!Disconnect(r) => SP!X!Disconnect(r)
  BY Zenon DEF X!Prepare, SP!X!Prepare, X!Disconnect, SP!X!Disconnect, X!Set, SP!X!Set
<1>5. ASSUME NEW r PROVE X!Acquire(r) => SP!X!Acquire(r)
  BY <1>3, Zenon DEF X!Acquire, SP!X!Acquire, X!MayAcquire, SP!X!MayAcquire, X!Over, SP!X!Over, X!Idle,
      SP!X!Idle, X!Set, SP!X!Set, X!Cardinality, SP!X!Cardinality
<1>6. ASSUME NEW r
      PROVE  X!CheckAssets(r) => SP!X!CheckAssets(r)
  BY Zenon DEF X!CheckAssets, SP!X!CheckAssets, X!Release, SP!X!Release, X!Set, SP!X!Set, X!Over,
      SP!X!Over, X!Idle, SP!X!Idle
<1>7. ASSUME NEW r
      PROVE  /\ X!Spawn(r) => SP!X!Spawn(r)
             /\ X!Register(r) => SP!X!Register(r)
  BY Zenon DEF X!Spawn, SP!X!Spawn, X!Register, SP!X!Register, X!ToEnd, SP!X!ToEnd, X!Idle, SP!X!Idle,
      X!Set, SP!X!Set
<1>8. ASSUME NEW r
      PROVE  /\ X!WorkerExit(r) => SP!X!WorkerExit(r)
             /\ X!Deadline(r) => SP!X!Deadline(r)
  BY Zenon DEF X!WorkerExit, SP!X!WorkerExit, X!Deadline, SP!X!Deadline, X!Set, SP!X!Set
<1>9. ASSUME NEW r
      PROVE  /\ X!Poll(r) => SP!X!Poll(r)
             /\ X!Collect(r) => SP!X!Collect(r)
  BY Zenon DEF X!Poll, SP!X!Poll, X!Collect, SP!X!Collect, X!PollGivesUp, SP!X!PollGivesUp, X!Inactive,
      SP!X!Inactive, X!ToEnd, SP!X!ToEnd, X!Idle, SP!X!Idle, X!Set, SP!X!Set
<1>10. ASSUME NEW r
      PROVE  /\ X!Clean(r) => SP!X!Clean(r)
             /\ X!Finish(r) => SP!X!Finish(r)
  BY Zenon DEF X!Clean, SP!X!Clean, X!Finish, SP!X!Finish, X!RemoveThenRelease, SP!X!RemoveThenRelease,
      X!Release, SP!X!Release, X!Over, SP!X!Over, X!ToEnd, SP!X!ToEnd, X!Idle, SP!X!Idle
<1>11. ASSUME NEW r
      PROVE  /\ X!Claim(r) => SP!X!Claim(r)
             /\ X!Verify(r) => SP!X!Verify(r)
             /\ X!Send(r) => SP!X!Send(r)
  BY Zenon DEF X!Claim, SP!X!Claim, X!Verify, SP!X!Verify, X!Send, SP!X!Send, X!ToEnd, SP!X!ToEnd, X!Idle,
      SP!X!Idle, X!Set, SP!X!Set
<1>12. /\ X!Start => SP!X!Start
       /\ X!ShutdownBegin => SP!X!ShutdownBegin
       /\ X!ShutdownStop => SP!X!ShutdownStop
       /\ X!ShutdownEnd => SP!X!ShutdownEnd
  BY <1>3, Zenon DEF X!Start, SP!X!Start, X!ShutdownBegin, SP!X!ShutdownBegin, X!ShutdownStop, SP!X!ShutdownStop,
      X!ShutdownEnd, SP!X!ShutdownEnd, X!NewRuntime, SP!X!NewRuntime
<1>13. X!Die => SP!X!Die
  BY Zenon DEF X!Die, SP!X!Die, X!NewRuntime, SP!X!NewRuntime, X!Working, SP!X!Working, X!Idle, SP!X!Idle
<1>14. X!Next => SP!X!Next
  BY Zenon, <1>4, <1>5, <1>6, <1>7, <1>8, <1>9, <1>10, <1>11, <1>12, <1>13
  DEF X!Next, SP!X!Next, X!Steps, SP!X!Steps
<1>15. UNCHANGED xs => UNCHANGED SP!X!vars
  BY DEF xs, SP!X!vars
<1>16. SP!X!TypeOK => X!TypeOK
  BY Zenon DEF X!TypeOK, SP!X!TypeOK, X!Working, SP!X!Working
<1>17. SP!X!SlotCoversWork /\ SP!X!FailureFreesSlot => X!SlotCoversWork /\ X!FailureFreesSlot
  BY Zenon DEF X!SlotCoversWork, SP!X!SlotCoversWork, X!FailureFreesSlot, SP!X!FailureFreesSlot, X!Working,
      SP!X!Working, X!Pinned, SP!X!Pinned, X!Cardinality, SP!X!Cardinality
<1> QED BY <1>1, <1>2, <1>14, <1>15, <1>16, <1>17

(* The invariant of the slots, where a behaviour is about them. *)
ExportsInv == part = "export" => SP!ExportInv

\* The slots start in their invariant and keep it.
LEMMA ExportsHold == (Init => ExportsInv) /\ (ExportsInv /\ [Next]_all => ExportsInv')
<1>1. Init => ExportsInv
  <2>1. Init => (part = "export" => X!Init)
    BY DEF Init
  <2> QED BY <2>1, SameExports, SP!ExportInit DEF ExportsInv
<1>2. ASSUME ExportsInv, [Next]_all PROVE ExportsInv'
  <2>1. UNCHANGED part
    BY <1>2 DEF Next, all
  <2>2. ASSUME part = "export" PROVE [X!Next]_xs
    BY <1>2, <2>2 DEF Next, all
  <2>3. ASSUME part = "export" PROVE SP!ExportInv'
    <3>1. SP!ExportInv /\ [SP!X!Next]_(SP!X!vars)
      BY <1>2, <2>2, <2>3, SameExports DEF ExportsInv
    <3> QED BY <3>1, SP!ExportNext
  <2> QED BY <2>1, <2>3 DEF ExportsInv
<1> QED BY <1>1, <1>2

\* What the invariant of the slots says.
LEMMA ExportsSay == ExportsInv => SlotsMatchWork
<1>1. "probe" \notin {"assets", "spawn", "worker", "removal", "crash"}
  OBVIOUS
<1> QED BY <1>1, SameExports, SP!ExportSays DEF ExportsInv, SlotsMatchWork

(* Renderers and directories stand under the slot of their account, and a slot is held only by
   work under way (ExportRuntime.acquire, generate, release): SlotsStandForWork of
   Services_proofs. *)
THEOREM SlotsMatchWorkHere == Spec => []SlotsMatchWork
  BY ExportsHold, ExportsSay, PTL DEF Spec

-----------------------------------------------------------------------------
\* The two spellings of an analysis run.
LEMMA SameRuns ==
  /\ SP!A!RunAssumption /\ (A!Init => SP!A!Init) /\ (A!Next => SP!A!Next)
  /\ UNCHANGED xs => UNCHANGED SP!A!vars
  /\ SP!A!TypeOK /\ SP!A!OneOutcome /\ SP!A!CleanResumeConcludes => A!TypeOK /\ A!OneOutcome /\ A!CleanResumeConcludes
  /\ SP!A!KeepsExpired => A!KeepsExpired
<1>1. SP!A!RunAssumption
  BY ServicesAssumption, Zenon DEF ServicesAssumption, A!RunAssumption, SP!A!RunAssumption,
      A!Failure, SP!A!Failure, A!Permanent, SP!A!Permanent, A!Outage, SP!A!Outage
<1>2. A!Init => SP!A!Init
  BY Zenon DEF A!Init, SP!A!Init, A!Empty, SP!A!Empty, A!Task, SP!A!Task, A!Nothing, SP!A!Nothing
<1>3. ASSUME NEW a PROVE A!CleanupFirst(a) => SP!A!CleanupFirst(a)
  BY Zenon DEF A!CleanupFirst, SP!A!CleanupFirst, A!At, SP!A!At, A!Stopped, SP!A!Stopped, A!Free,
      SP!A!Free, A!CleanupExpired, SP!A!CleanupExpired, A!Expires, SP!A!Expires, A!Empty, SP!A!Empty,
      A!Goto, SP!A!Goto, A!Faulty, SP!A!Faulty, A!Return, SP!A!Return, A!Task, SP!A!Task
<1>4. ASSUME NEW a PROVE A!Claim(a) => SP!A!Claim(a)
  BY Zenon DEF A!Claim, SP!A!Claim, A!At, SP!A!At, A!Claimed, SP!A!Claimed, A!Conflicts, SP!A!Conflicts,
      A!Free, SP!A!Free, A!Goto, SP!A!Goto, A!AfterClaim, SP!A!AfterClaim, A!Return, SP!A!Return,
      A!Faulty, SP!A!Faulty
<1>5. ASSUME NEW a PROVE A!Load(a) => SP!A!Load(a)
  BY Zenon DEF A!Load, SP!A!Load, A!At, SP!A!At, A!Faulty, SP!A!Faulty
<1>6. ASSUME NEW a PROVE A!Extract(a) => SP!A!Extract(a)
  BY Zenon DEF A!Extract, SP!A!Extract, A!At, SP!A!At, A!Mem, SP!A!Mem, A!Save, SP!A!Save, A!SaveFault,
      SP!A!SaveFault, A!Fails, SP!A!Fails, A!ExtractAfresh, SP!A!ExtractAfresh, A!Stopped, SP!A!Stopped,
      A!Return, SP!A!Return, A!Free, SP!A!Free, A!Permanent, SP!A!Permanent, A!Outage, SP!A!Outage
<1>7. ASSUME NEW a PROVE A!Validate(a) => SP!A!Validate(a)
  BY Zenon DEF A!Validate, SP!A!Validate, A!At, SP!A!At, A!Mem, SP!A!Mem, A!Save, SP!A!Save, A!SaveFault,
      SP!A!SaveFault, A!Fails, SP!A!Fails, A!ValidateAfresh, SP!A!ValidateAfresh, A!Validated,
      SP!A!Validated, A!RouteAfterNode, SP!A!RouteAfterNode, A!Stopped, SP!A!Stopped, A!Return,
      SP!A!Return, A!Free, SP!A!Free
<1>8. ASSUME NEW a PROVE A!ExecuteTask(a) => SP!A!ExecuteTask(a)
  BY Zenon DEF A!ExecuteTask, SP!A!ExecuteTask, A!At, SP!A!At, A!Mem, SP!A!Mem, A!Save, SP!A!Save,
      A!SaveFault, SP!A!SaveFault, A!Fails, SP!A!Fails, A!Stopped, SP!A!Stopped, A!Return, SP!A!Return,
      A!Free, SP!A!Free, A!Open, SP!A!Open, A!NextTask, SP!A!NextTask, A!Ran, SP!A!Ran, A!RouteAfterTask,
      SP!A!RouteAfterTask, A!Task, SP!A!Task
<1>9. ASSUME NEW a PROVE A!Attribute(a) => SP!A!Attribute(a)
  BY Zenon DEF A!Attribute, SP!A!Attribute, A!At, SP!A!At, A!Mem, SP!A!Mem, A!Save, SP!A!Save, A!Fails,
      SP!A!Fails, A!Stopped, SP!A!Stopped, A!Return, SP!A!Return, A!Free, SP!A!Free, A!Open, SP!A!Open,
      A!Task, SP!A!Task
<1>10. ASSUME NEW a PROVE A!Summarize(a) => SP!A!Summarize(a)
  BY Zenon DEF A!Summarize, SP!A!Summarize, A!At, SP!A!At, A!Mem, SP!A!Mem, A!Save, SP!A!Save,
      A!SaveFault, SP!A!SaveFault, A!Fails, SP!A!Fails, A!Stopped, SP!A!Stopped, A!Return, SP!A!Return,
      A!Free, SP!A!Free, A!Outage, SP!A!Outage
<1>11. ASSUME NEW a PROVE A!Conclude(a) => SP!A!Conclude(a)
  BY Zenon DEF A!Conclude, SP!A!Conclude, A!At, SP!A!At, A!Mem, SP!A!Mem, A!RetryableFailure,
      SP!A!RetryableFailure, A!Outage, SP!A!Outage, A!Task, SP!A!Task, A!MarkCompleted,
      SP!A!MarkCompleted, A!CannotMark, SP!A!CannotMark, A!Stopped, SP!A!Stopped, A!Return, SP!A!Return,
      A!Free, SP!A!Free, A!Faulty, SP!A!Faulty
<1>12. ASSUME NEW a PROVE A!CompletedResult(a) => SP!A!CompletedResult(a)
  BY Zenon DEF A!CompletedResult, SP!A!CompletedResult, A!At, SP!A!At, A!Return, SP!A!Return, A!Faulty,
      SP!A!Faulty
<1>13. ASSUME NEW a PROVE A!Leave(a) => SP!A!Leave(a)
  BY Zenon DEF A!Leave, SP!A!Leave, A!At, SP!A!At, A!Goto, SP!A!Goto
<1>14. ASSUME NEW a PROVE A!GraphFails(a) => SP!A!GraphFails(a)
  BY Zenon DEF A!GraphFails, SP!A!GraphFails, A!Faulty, SP!A!Faulty
<1>15. ASSUME NEW a PROVE A!Signal(a) => SP!A!Signal(a)
  BY Zenon DEF A!Signal, SP!A!Signal, A!Running, SP!A!Running, A!At, SP!A!At
<1>16. ASSUME NEW a, NEW w PROVE A!Reserve(a, w) => SP!A!Reserve(a, w)
  BY Zenon DEF A!Reserve, SP!A!Reserve, A!At, SP!A!At, A!Running, SP!A!Running
<1>17. /\ A!ExpireCancelled => SP!A!ExpireCancelled
       /\ A!DeleteHistory => SP!A!DeleteHistory
       /\ A!Due => SP!A!Due
       /\ A!Cleanup => SP!A!Cleanup
       /\ A!Crash => SP!A!Crash
  BY Zenon DEF A!ExpireCancelled, SP!A!ExpireCancelled, A!DeleteHistory, SP!A!DeleteHistory, A!Due,
      SP!A!Due, A!Cleanup, SP!A!Cleanup, A!Crash, SP!A!Crash, A!Running, SP!A!Running, A!Expires,
      SP!A!Expires, A!CleanupExpired, SP!A!CleanupExpired, A!Empty, SP!A!Empty, A!Task, SP!A!Task
<1>18. A!Next => SP!A!Next
  BY Zenon, <1>3, <1>4, <1>5, <1>6, <1>7, <1>8, <1>9, <1>10, <1>11, <1>12, <1>13, <1>14, <1>15, <1>16, <1>17 DEF A!Next, SP!A!Next,
      A!Attempts, SP!A!Attempts
<1>19. UNCHANGED xs => UNCHANGED SP!A!vars
  BY DEF xs, SP!A!vars
<1>20. SP!A!TypeOK => A!TypeOK
  BY Zenon DEF A!TypeOK, SP!A!TypeOK, A!Graph, SP!A!Graph, A!Task, SP!A!Task, A!Result, SP!A!Result,
      A!Permanent, SP!A!Permanent, A!Outage, SP!A!Outage, A!Failure, SP!A!Failure, A!Call, SP!A!Call,
      A!Step, SP!A!Step, A!Answer, SP!A!Answer
<1>21. SP!A!OneOutcome /\ SP!A!CleanResumeConcludes => A!OneOutcome /\ A!CleanResumeConcludes
  BY Zenon DEF A!OneOutcome, SP!A!OneOutcome, A!Lasting, SP!A!Lasting, A!Replayed, SP!A!Replayed,
      A!CleanResumeConcludes, SP!A!CleanResumeConcludes
<1>22. SP!A!KeepsExpired => A!KeepsExpired
  BY Zenon DEF A!KeepsExpired, SP!A!KeepsExpired, A!At, SP!A!At
<1> QED BY <1>1, <1>2, <1>18, <1>19, <1>20, <1>21, <1>22

(* The invariant of the runs, where a behaviour is about them. *)
RunsInv == part = "analysis" => SP!RunInv

\* A step of the instance is a step of the component.
LEMMA RunsStep == [Next]_all /\ part = "analysis" => [SP!A!Next]_(SP!A!vars)
<1>1. [Next]_all /\ part = "analysis" => [A!Next]_xs
  BY DEF Next, all
<1> QED BY <1>1, SameRuns

\* The runs start in their invariant and keep it.
LEMMA RunsHold == (Init => RunsInv) /\ (RunsInv /\ [Next]_all => RunsInv')
<1>1. Init => RunsInv
  <2>1. Init => (part = "analysis" => A!Init)
    BY DEF Init
  <2> QED BY <2>1, SameRuns, SP!RunInit DEF RunsInv
<1>2. ASSUME RunsInv, [Next]_all PROVE RunsInv'
  <2>1. UNCHANGED part
    BY <1>2 DEF Next, all
  <2>2. ASSUME part = "analysis" PROVE SP!RunInv'
    <3>1. SP!RunInv /\ [SP!A!Next]_(SP!A!vars)
      BY <1>2, <2>2, RunsStep DEF RunsInv
    <3> QED BY <3>1, SP!RunNext
  <2> QED BY <2>1, <2>2 DEF RunsInv
<1> QED BY <1>1, <1>2

\* What the invariant of the runs says.
LEMMA RunsSay == RunsInv => RunsConclude
  BY SameRuns, SP!RunSays DEF RunsInv, RunsConclude

\* What a step of the runs does to an expired one.
LEMMA RunsKeepExpired == RunsInv /\ [Next]_all => (part = "analysis" => A!KeepsExpired)
  BY SameRuns, RunsStep, SP!StepKeepsExpired DEF RunsInv

(* The analysis runs of the instances have one outcome each and resume from a saved plan
   (BusinessAnalysisApplication.analyze, run_store.py): RunsHaveOneOutcome of Services_proofs. *)
THEOREM RunsConcludeHere == Spec => []RunsConclude
  BY RunsHold, RunsSay, PTL DEF Spec

(* An expired run of the instances is never completed (run_store.py mark_completed):
   ExpiredStaysExpired of Services_proofs. *)
THEOREM ExpiredForGoodHere == Spec => ExpiredForGood
  BY RunsHold, RunsKeepExpired, PTL DEF Spec, ExpiredForGood
=============================================================================
