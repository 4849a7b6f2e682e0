------------------------- MODULE MCHistories_proofs -------------------------
(***************************************************************************)
(* The theorems about HistoryStore brought to the five instances that      *)
(* MCServices runs side by side.  Each instance of the theorems is about   *)
(* the definitions of its own instance of HistoryStore: one lemma each     *)
(* says that these are the definitions MCServices runs.                    *)
(***************************************************************************)
EXTENDS MCServices, TLAPS

HP == INSTANCE HistoryStore_proofs WITH
       Ids <- 2, Turns <- 2, Op <- {1, 2}, Thread <- {1, 2}, There <- <<"query">>,
       Acts <- {"submit", "requery", "delete"}, Page <- 1, MaxSaved <- 1, MaxRename <- 0,
       MaxLives <- 2, MaxTime <- 1,
       hist <- x1, turns <- x2, saved <- x3, lease <- x4, epoch <- x5, thread <- x6, view <- x7,
       scan <- x8, told <- x9, now <- x10

\* The two spellings of the histories that are requeried.
LEMMA SameRequeried ==
  /\ HP!StoreAssumption /\ (H!Init => HP!Init) /\ (H!Next => HP!Next)
  /\ UNCHANGED xs => UNCHANGED HP!vars
  /\ HP!HistoriesHold => H!HistoriesHold
<1>1. HP!StoreAssumption
  BY ServicesAssumption DEF ServicesAssumption, H!StoreAssumption, HP!StoreAssumption, H!History, HP!History, H!Turn, HP!Turn,
      H!Kinds, HP!Kinds, H!Status, HP!Status, H!Request, HP!Request, H!HistoryRow,
      HP!HistoryRow, H!TurnRow, HP!TurnRow, H!Cursor, HP!Cursor, H!Range, HP!Range
<1>2. H!Init => HP!Init
  BY Zenon DEF H!Init, HP!Init, H!Record, HP!Record, H!Idle, HP!Idle, H!NoView, HP!NoView,
      H!NoScan, HP!NoScan, H!History, HP!History, H!Turn, HP!Turn
<1>3. H!Create => HP!Create
  BY Zenon DEF H!Create, HP!Create, H!ByOperation, HP!ByOperation, H!Live, HP!Live, H!TurnsOf,
      HP!TurnsOf, H!Free, HP!Free, H!Idle, HP!Idle, H!Over, HP!Over, H!Record, HP!Record,
      H!History, HP!History, H!Turn, HP!Turn, H!Kinds, HP!Kinds, H!Range, HP!Range,
      H!client, HP!client
<1>4. ASSUME NEW k PROVE /\ H!Submit(k) => HP!Submit(k)
                         /\ H!Resume(k) => HP!Resume(k)
                         /\ H!Requery(k) => HP!Requery(k)
  BY Zenon DEF H!Submit, HP!Submit, H!Resume, HP!Resume, H!Requery, HP!Requery, H!Arrives,
      HP!Arrives, H!Live, HP!Live, H!TurnsOf, HP!TurnsOf, H!Free, HP!Free, H!Idle,
      HP!Idle, H!Over, HP!Over, H!Record, HP!Record, H!History, HP!History, H!Turn,
      HP!Turn, H!Kinds, HP!Kinds, H!Range, HP!Range, H!client, HP!client
<1>5. ASSUME NEW k PROVE /\ H!ReadHeader(k) => HP!ReadHeader(k)
                         /\ H!Reserve(k) => HP!Reserve(k)
  BY Zenon DEF H!ReadHeader, HP!ReadHeader, H!Reserve, HP!Reserve, H!Tell, HP!Tell, H!Live,
      HP!Live, H!TurnsOf, HP!TurnsOf, H!Free, HP!Free, H!Idle, HP!Idle, H!Over, HP!Over,
      H!Record, HP!Record, H!History, HP!History, H!Turn, HP!Turn, H!Kinds, HP!Kinds,
      H!Range, HP!Range, H!client, HP!client
<1>6. ASSUME NEW k PROVE H!Begin(k) => HP!Begin(k)
  BY Zenon DEF H!Begin, HP!Begin, H!Release, HP!Release, H!Previous, HP!Previous, H!Repeats,
      HP!Repeats, H!Tell, HP!Tell, H!ContextKnown, HP!ContextKnown, H!Insert, HP!Insert,
      H!NextTurn, HP!NextTurn, H!Live, HP!Live, H!TurnsOf, HP!TurnsOf, H!Free, HP!Free,
      H!Idle, HP!Idle, H!Over, HP!Over, H!Record, HP!Record, H!History, HP!History,
      H!Turn, HP!Turn, H!Kinds, HP!Kinds, H!Range, HP!Range, H!client, HP!client
<1>7. ASSUME NEW k PROVE H!BeginRequery(k) => HP!BeginRequery(k)
  BY Zenon DEF H!BeginRequery, HP!BeginRequery, H!ByOperation, HP!ByOperation, H!Previous,
      HP!Previous, H!Repeats, HP!Repeats, H!Tell, HP!Tell, H!Insert, HP!Insert,
      H!NextTurn, HP!NextTurn, H!Source, HP!Source, H!Live, HP!Live, H!TurnsOf,
      HP!TurnsOf, H!Free, HP!Free, H!Idle, HP!Idle, H!Over, HP!Over, H!Record, HP!Record,
      H!History, HP!History, H!Turn, HP!Turn, H!Kinds, HP!Kinds, H!Range, HP!Range,
      H!client, HP!client
<1>8. ASSUME NEW k PROVE /\ H!Work(k) => HP!Work(k)
                         /\ H!Finish(k) => HP!Finish(k)
                         /\ H!Answer(k) => HP!Answer(k)
  BY Zenon DEF H!Work, HP!Work, H!Finish, HP!Finish, H!Answer, HP!Answer, H!Finished, HP!Finished,
      H!Tell, HP!Tell, H!Live, HP!Live, H!TurnsOf, HP!TurnsOf, H!Free, HP!Free, H!Idle,
      HP!Idle, H!Over, HP!Over, H!Record, HP!Record, H!History, HP!History, H!Turn,
      HP!Turn, H!Kinds, HP!Kinds, H!Range, HP!Range, H!client, HP!client
<1>9. /\ H!Reconcile => HP!Reconcile
      /\ H!Restart => HP!Restart
      /\ H!Tick => HP!Tick
  BY Zenon DEF H!Reconcile, HP!Reconcile, H!Restart, HP!Restart, H!Tick, HP!Tick, H!GivenUp,
      HP!GivenUp, H!Unconfirmed, HP!Unconfirmed, H!Live, HP!Live, H!TurnsOf, HP!TurnsOf,
      H!Free, HP!Free, H!Idle, HP!Idle, H!Over, HP!Over, H!Record, HP!Record, H!History,
      HP!History, H!Turn, HP!Turn, H!Kinds, HP!Kinds, H!Range, HP!Range, H!client,
      HP!client
<1>10. /\ H!Look => HP!Look
       /\ H!RenameHistory => HP!RenameHistory
       /\ H!DeleteHistory => HP!DeleteHistory
  BY Zenon DEF H!Look, HP!Look, H!RenameHistory, HP!RenameHistory, H!DeleteHistory,
      HP!DeleteHistory, H!Header, HP!Header, H!Content, HP!Content, H!AsRead, HP!AsRead,
      H!Live, HP!Live, H!TurnsOf, HP!TurnsOf, H!Free, HP!Free, H!Idle, HP!Idle, H!Over,
      HP!Over, H!Record, HP!Record, H!History, HP!History, H!Turn, HP!Turn, H!Kinds,
      HP!Kinds, H!Range, HP!Range, H!client, HP!client
<1>11. /\ H!CopyResult => HP!CopyResult
       /\ H!DeleteSaved => HP!DeleteSaved
  BY Zenon DEF H!CopyResult, HP!CopyResult, H!DeleteSaved, HP!DeleteSaved, H!Cardinality,
      HP!Cardinality, H!Live, HP!Live, H!TurnsOf, HP!TurnsOf, H!Free, HP!Free, H!Idle,
      HP!Idle, H!Over, HP!Over, H!Record, HP!Record, H!History, HP!History, H!Turn,
      HP!Turn, H!Kinds, HP!Kinds, H!Range, HP!Range, H!client, HP!client
<1>12. H!ListPage => HP!ListPage
  BY Zenon DEF H!ListPage, HP!ListPage, H!Below, HP!Below, H!Newer, HP!Newer, H!FirstRows,
      HP!FirstRows, H!Last, HP!Last, H!Live, HP!Live, H!TurnsOf, HP!TurnsOf, H!Free,
      HP!Free, H!Idle, HP!Idle, H!Over, HP!Over, H!Record, HP!Record, H!History,
      HP!History, H!Turn, HP!Turn, H!Kinds, HP!Kinds, H!Range, HP!Range, H!client,
      HP!client
<1>13. H!Next => HP!Next
  BY Zenon, <1>3, <1>4, <1>5, <1>6, <1>7, <1>8, <1>9, <1>10, <1>11, <1>12 DEF H!Next, HP!Next
<1>14. UNCHANGED xs => UNCHANGED HP!vars
  BY DEF xs, HP!vars
<1>15. HP!HistoriesHold => H!HistoriesHold
  BY Zenon DEF H!HistoriesHold, HP!HistoriesHold, H!TypeOK, HP!TypeOK, H!AnswersStand,
      HP!AnswersStand, H!RevisionNamesContent, HP!RevisionNamesContent, H!SuccessesChain,
      HP!SuccessesChain, H!AsRead, HP!AsRead, H!Content, HP!Content, H!Live, HP!Live,
      H!TurnsOf, HP!TurnsOf, H!History, HP!History, H!Turn, HP!Turn, H!Kinds, HP!Kinds,
      H!Status, HP!Status, H!Range, HP!Range, H!Max, HP!Max, H!Cardinality, HP!Cardinality
<1> QED BY <1>1, <1>2, <1>13, <1>14, <1>15

JP == INSTANCE HistoryStore_proofs WITH
       Ids <- 1, Turns <- 2, Op <- {1, 2}, Thread <- {1, 2, 3}, There <- <<"analysis">>,
       Acts <- {"resume"}, Page <- 1, MaxSaved <- 0, MaxRename <- 0, MaxLives <- 1, MaxTime <- 1,
       hist <- x1, turns <- x2, saved <- x3, lease <- x4, epoch <- x5, thread <- x6, view <- x7,
       scan <- x8, told <- x9, now <- x10

\* The two spellings of the analysis that is resumed.
LEMMA SameResumed ==
  /\ JP!StoreAssumption /\ (J!Init => JP!Init) /\ (J!Next => JP!Next)
  /\ UNCHANGED xs => UNCHANGED JP!vars
  /\ JP!HistoriesHold => J!HistoriesHold
<1>1. JP!StoreAssumption
  BY ServicesAssumption DEF ServicesAssumption, J!StoreAssumption, JP!StoreAssumption, J!History, JP!History, J!Turn, JP!Turn,
      J!Kinds, JP!Kinds, J!Status, JP!Status, J!Request, JP!Request, J!HistoryRow,
      JP!HistoryRow, J!TurnRow, JP!TurnRow, J!Cursor, JP!Cursor, J!Range, JP!Range
<1>2. J!Init => JP!Init
  BY Zenon DEF J!Init, JP!Init, J!Record, JP!Record, J!Idle, JP!Idle, J!NoView, JP!NoView,
      J!NoScan, JP!NoScan, J!History, JP!History, J!Turn, JP!Turn
<1>3. J!Create => JP!Create
  BY Zenon DEF J!Create, JP!Create, J!ByOperation, JP!ByOperation, J!Live, JP!Live, J!TurnsOf,
      JP!TurnsOf, J!Free, JP!Free, J!Idle, JP!Idle, J!Over, JP!Over, J!Record, JP!Record,
      J!History, JP!History, J!Turn, JP!Turn, J!Kinds, JP!Kinds, J!Range, JP!Range,
      J!client, JP!client
<1>4. ASSUME NEW k PROVE /\ J!Submit(k) => JP!Submit(k)
                         /\ J!Resume(k) => JP!Resume(k)
                         /\ J!Requery(k) => JP!Requery(k)
  BY Zenon DEF J!Submit, JP!Submit, J!Resume, JP!Resume, J!Requery, JP!Requery, J!Arrives,
      JP!Arrives, J!Live, JP!Live, J!TurnsOf, JP!TurnsOf, J!Free, JP!Free, J!Idle,
      JP!Idle, J!Over, JP!Over, J!Record, JP!Record, J!History, JP!History, J!Turn,
      JP!Turn, J!Kinds, JP!Kinds, J!Range, JP!Range, J!client, JP!client
<1>5. ASSUME NEW k PROVE /\ J!ReadHeader(k) => JP!ReadHeader(k)
                         /\ J!Reserve(k) => JP!Reserve(k)
  BY Zenon DEF J!ReadHeader, JP!ReadHeader, J!Reserve, JP!Reserve, J!Tell, JP!Tell, J!Live,
      JP!Live, J!TurnsOf, JP!TurnsOf, J!Free, JP!Free, J!Idle, JP!Idle, J!Over, JP!Over,
      J!Record, JP!Record, J!History, JP!History, J!Turn, JP!Turn, J!Kinds, JP!Kinds,
      J!Range, JP!Range, J!client, JP!client
<1>6. ASSUME NEW k PROVE J!Begin(k) => JP!Begin(k)
  BY Zenon DEF J!Begin, JP!Begin, J!Release, JP!Release, J!Previous, JP!Previous, J!Repeats,
      JP!Repeats, J!Tell, JP!Tell, J!ContextKnown, JP!ContextKnown, J!Insert, JP!Insert,
      J!NextTurn, JP!NextTurn, J!Live, JP!Live, J!TurnsOf, JP!TurnsOf, J!Free, JP!Free,
      J!Idle, JP!Idle, J!Over, JP!Over, J!Record, JP!Record, J!History, JP!History,
      J!Turn, JP!Turn, J!Kinds, JP!Kinds, J!Range, JP!Range, J!client, JP!client
<1>7. ASSUME NEW k PROVE J!BeginRequery(k) => JP!BeginRequery(k)
  BY Zenon DEF J!BeginRequery, JP!BeginRequery, J!ByOperation, JP!ByOperation, J!Previous,
      JP!Previous, J!Repeats, JP!Repeats, J!Tell, JP!Tell, J!Insert, JP!Insert,
      J!NextTurn, JP!NextTurn, J!Source, JP!Source, J!Live, JP!Live, J!TurnsOf,
      JP!TurnsOf, J!Free, JP!Free, J!Idle, JP!Idle, J!Over, JP!Over, J!Record, JP!Record,
      J!History, JP!History, J!Turn, JP!Turn, J!Kinds, JP!Kinds, J!Range, JP!Range,
      J!client, JP!client
<1>8. ASSUME NEW k PROVE /\ J!Work(k) => JP!Work(k)
                         /\ J!Finish(k) => JP!Finish(k)
                         /\ J!Answer(k) => JP!Answer(k)
  BY Zenon DEF J!Work, JP!Work, J!Finish, JP!Finish, J!Answer, JP!Answer, J!Finished, JP!Finished,
      J!Tell, JP!Tell, J!Live, JP!Live, J!TurnsOf, JP!TurnsOf, J!Free, JP!Free, J!Idle,
      JP!Idle, J!Over, JP!Over, J!Record, JP!Record, J!History, JP!History, J!Turn,
      JP!Turn, J!Kinds, JP!Kinds, J!Range, JP!Range, J!client, JP!client
<1>9. /\ J!Reconcile => JP!Reconcile
      /\ J!Restart => JP!Restart
      /\ J!Tick => JP!Tick
  BY Zenon DEF J!Reconcile, JP!Reconcile, J!Restart, JP!Restart, J!Tick, JP!Tick, J!GivenUp,
      JP!GivenUp, J!Unconfirmed, JP!Unconfirmed, J!Live, JP!Live, J!TurnsOf, JP!TurnsOf,
      J!Free, JP!Free, J!Idle, JP!Idle, J!Over, JP!Over, J!Record, JP!Record, J!History,
      JP!History, J!Turn, JP!Turn, J!Kinds, JP!Kinds, J!Range, JP!Range, J!client,
      JP!client
<1>10. /\ J!Look => JP!Look
       /\ J!RenameHistory => JP!RenameHistory
       /\ J!DeleteHistory => JP!DeleteHistory
  BY Zenon DEF J!Look, JP!Look, J!RenameHistory, JP!RenameHistory, J!DeleteHistory,
      JP!DeleteHistory, J!Header, JP!Header, J!Content, JP!Content, J!AsRead, JP!AsRead,
      J!Live, JP!Live, J!TurnsOf, JP!TurnsOf, J!Free, JP!Free, J!Idle, JP!Idle, J!Over,
      JP!Over, J!Record, JP!Record, J!History, JP!History, J!Turn, JP!Turn, J!Kinds,
      JP!Kinds, J!Range, JP!Range, J!client, JP!client
<1>11. /\ J!CopyResult => JP!CopyResult
       /\ J!DeleteSaved => JP!DeleteSaved
  BY Zenon DEF J!CopyResult, JP!CopyResult, J!DeleteSaved, JP!DeleteSaved, J!Cardinality,
      JP!Cardinality, J!Live, JP!Live, J!TurnsOf, JP!TurnsOf, J!Free, JP!Free, J!Idle,
      JP!Idle, J!Over, JP!Over, J!Record, JP!Record, J!History, JP!History, J!Turn,
      JP!Turn, J!Kinds, JP!Kinds, J!Range, JP!Range, J!client, JP!client
<1>12. J!ListPage => JP!ListPage
  BY Zenon DEF J!ListPage, JP!ListPage, J!Below, JP!Below, J!Newer, JP!Newer, J!FirstRows,
      JP!FirstRows, J!Last, JP!Last, J!Live, JP!Live, J!TurnsOf, JP!TurnsOf, J!Free,
      JP!Free, J!Idle, JP!Idle, J!Over, JP!Over, J!Record, JP!Record, J!History,
      JP!History, J!Turn, JP!Turn, J!Kinds, JP!Kinds, J!Range, JP!Range, J!client,
      JP!client
<1>13. J!Next => JP!Next
  BY Zenon, <1>3, <1>4, <1>5, <1>6, <1>7, <1>8, <1>9, <1>10, <1>11, <1>12 DEF J!Next, JP!Next
<1>14. UNCHANGED xs => UNCHANGED JP!vars
  BY DEF xs, JP!vars
<1>15. JP!HistoriesHold => J!HistoriesHold
  BY Zenon DEF J!HistoriesHold, JP!HistoriesHold, J!TypeOK, JP!TypeOK, J!AnswersStand,
      JP!AnswersStand, J!RevisionNamesContent, JP!RevisionNamesContent, J!SuccessesChain,
      JP!SuccessesChain, J!AsRead, JP!AsRead, J!Content, JP!Content, J!Live, JP!Live,
      J!TurnsOf, JP!TurnsOf, J!History, JP!History, J!Turn, JP!Turn, J!Kinds, JP!Kinds,
      J!Status, JP!Status, J!Range, JP!Range, J!Max, JP!Max, J!Cardinality, JP!Cardinality
<1> QED BY <1>1, <1>2, <1>13, <1>14, <1>15

EP == INSTANCE HistoryStore_proofs WITH
       Ids <- 1, Turns <- 2, Op <- {1, 2}, Thread <- {1, 2}, There <- <<"query">>,
       Acts <- {"submit", "rename", "delete"}, Page <- 1, MaxSaved <- 0, MaxRename <- 1,
       MaxLives <- 2, MaxTime <- 1,
       hist <- x1, turns <- x2, saved <- x3, lease <- x4, epoch <- x5, thread <- x6, view <- x7,
       scan <- x8, told <- x9, now <- x10

\* The two spellings of the history that is edited.
LEMMA SameEdited ==
  /\ EP!StoreAssumption /\ (E!Init => EP!Init) /\ (E!Next => EP!Next)
  /\ UNCHANGED xs => UNCHANGED EP!vars
  /\ EP!HistoriesHold => E!HistoriesHold
<1>1. EP!StoreAssumption
  BY ServicesAssumption DEF ServicesAssumption, E!StoreAssumption, EP!StoreAssumption, E!History, EP!History, E!Turn, EP!Turn,
      E!Kinds, EP!Kinds, E!Status, EP!Status, E!Request, EP!Request, E!HistoryRow,
      EP!HistoryRow, E!TurnRow, EP!TurnRow, E!Cursor, EP!Cursor, E!Range, EP!Range
<1>2. E!Init => EP!Init
  BY Zenon DEF E!Init, EP!Init, E!Record, EP!Record, E!Idle, EP!Idle, E!NoView, EP!NoView,
      E!NoScan, EP!NoScan, E!History, EP!History, E!Turn, EP!Turn
<1>3. E!Create => EP!Create
  BY Zenon DEF E!Create, EP!Create, E!ByOperation, EP!ByOperation, E!Live, EP!Live, E!TurnsOf,
      EP!TurnsOf, E!Free, EP!Free, E!Idle, EP!Idle, E!Over, EP!Over, E!Record, EP!Record,
      E!History, EP!History, E!Turn, EP!Turn, E!Kinds, EP!Kinds, E!Range, EP!Range,
      E!client, EP!client
<1>4. ASSUME NEW k PROVE /\ E!Submit(k) => EP!Submit(k)
                         /\ E!Resume(k) => EP!Resume(k)
                         /\ E!Requery(k) => EP!Requery(k)
  BY Zenon DEF E!Submit, EP!Submit, E!Resume, EP!Resume, E!Requery, EP!Requery, E!Arrives,
      EP!Arrives, E!Live, EP!Live, E!TurnsOf, EP!TurnsOf, E!Free, EP!Free, E!Idle,
      EP!Idle, E!Over, EP!Over, E!Record, EP!Record, E!History, EP!History, E!Turn,
      EP!Turn, E!Kinds, EP!Kinds, E!Range, EP!Range, E!client, EP!client
<1>5. ASSUME NEW k PROVE /\ E!ReadHeader(k) => EP!ReadHeader(k)
                         /\ E!Reserve(k) => EP!Reserve(k)
  BY Zenon DEF E!ReadHeader, EP!ReadHeader, E!Reserve, EP!Reserve, E!Tell, EP!Tell, E!Live,
      EP!Live, E!TurnsOf, EP!TurnsOf, E!Free, EP!Free, E!Idle, EP!Idle, E!Over, EP!Over,
      E!Record, EP!Record, E!History, EP!History, E!Turn, EP!Turn, E!Kinds, EP!Kinds,
      E!Range, EP!Range, E!client, EP!client
<1>6. ASSUME NEW k PROVE E!Begin(k) => EP!Begin(k)
  BY Zenon DEF E!Begin, EP!Begin, E!Release, EP!Release, E!Previous, EP!Previous, E!Repeats,
      EP!Repeats, E!Tell, EP!Tell, E!ContextKnown, EP!ContextKnown, E!Insert, EP!Insert,
      E!NextTurn, EP!NextTurn, E!Live, EP!Live, E!TurnsOf, EP!TurnsOf, E!Free, EP!Free,
      E!Idle, EP!Idle, E!Over, EP!Over, E!Record, EP!Record, E!History, EP!History,
      E!Turn, EP!Turn, E!Kinds, EP!Kinds, E!Range, EP!Range, E!client, EP!client
<1>7. ASSUME NEW k PROVE E!BeginRequery(k) => EP!BeginRequery(k)
  BY Zenon DEF E!BeginRequery, EP!BeginRequery, E!ByOperation, EP!ByOperation, E!Previous,
      EP!Previous, E!Repeats, EP!Repeats, E!Tell, EP!Tell, E!Insert, EP!Insert,
      E!NextTurn, EP!NextTurn, E!Source, EP!Source, E!Live, EP!Live, E!TurnsOf,
      EP!TurnsOf, E!Free, EP!Free, E!Idle, EP!Idle, E!Over, EP!Over, E!Record, EP!Record,
      E!History, EP!History, E!Turn, EP!Turn, E!Kinds, EP!Kinds, E!Range, EP!Range,
      E!client, EP!client
<1>8. ASSUME NEW k PROVE /\ E!Work(k) => EP!Work(k)
                         /\ E!Finish(k) => EP!Finish(k)
                         /\ E!Answer(k) => EP!Answer(k)
  BY Zenon DEF E!Work, EP!Work, E!Finish, EP!Finish, E!Answer, EP!Answer, E!Finished, EP!Finished,
      E!Tell, EP!Tell, E!Live, EP!Live, E!TurnsOf, EP!TurnsOf, E!Free, EP!Free, E!Idle,
      EP!Idle, E!Over, EP!Over, E!Record, EP!Record, E!History, EP!History, E!Turn,
      EP!Turn, E!Kinds, EP!Kinds, E!Range, EP!Range, E!client, EP!client
<1>9. /\ E!Reconcile => EP!Reconcile
      /\ E!Restart => EP!Restart
      /\ E!Tick => EP!Tick
  BY Zenon DEF E!Reconcile, EP!Reconcile, E!Restart, EP!Restart, E!Tick, EP!Tick, E!GivenUp,
      EP!GivenUp, E!Unconfirmed, EP!Unconfirmed, E!Live, EP!Live, E!TurnsOf, EP!TurnsOf,
      E!Free, EP!Free, E!Idle, EP!Idle, E!Over, EP!Over, E!Record, EP!Record, E!History,
      EP!History, E!Turn, EP!Turn, E!Kinds, EP!Kinds, E!Range, EP!Range, E!client,
      EP!client
<1>10. /\ E!Look => EP!Look
       /\ E!RenameHistory => EP!RenameHistory
       /\ E!DeleteHistory => EP!DeleteHistory
  BY Zenon DEF E!Look, EP!Look, E!RenameHistory, EP!RenameHistory, E!DeleteHistory,
      EP!DeleteHistory, E!Header, EP!Header, E!Content, EP!Content, E!AsRead, EP!AsRead,
      E!Live, EP!Live, E!TurnsOf, EP!TurnsOf, E!Free, EP!Free, E!Idle, EP!Idle, E!Over,
      EP!Over, E!Record, EP!Record, E!History, EP!History, E!Turn, EP!Turn, E!Kinds,
      EP!Kinds, E!Range, EP!Range, E!client, EP!client
<1>11. /\ E!CopyResult => EP!CopyResult
       /\ E!DeleteSaved => EP!DeleteSaved
  BY Zenon DEF E!CopyResult, EP!CopyResult, E!DeleteSaved, EP!DeleteSaved, E!Cardinality,
      EP!Cardinality, E!Live, EP!Live, E!TurnsOf, EP!TurnsOf, E!Free, EP!Free, E!Idle,
      EP!Idle, E!Over, EP!Over, E!Record, EP!Record, E!History, EP!History, E!Turn,
      EP!Turn, E!Kinds, EP!Kinds, E!Range, EP!Range, E!client, EP!client
<1>12. E!ListPage => EP!ListPage
  BY Zenon DEF E!ListPage, EP!ListPage, E!Below, EP!Below, E!Newer, EP!Newer, E!FirstRows,
      EP!FirstRows, E!Last, EP!Last, E!Live, EP!Live, E!TurnsOf, EP!TurnsOf, E!Free,
      EP!Free, E!Idle, EP!Idle, E!Over, EP!Over, E!Record, EP!Record, E!History,
      EP!History, E!Turn, EP!Turn, E!Kinds, EP!Kinds, E!Range, EP!Range, E!client,
      EP!client
<1>13. E!Next => EP!Next
  BY Zenon, <1>3, <1>4, <1>5, <1>6, <1>7, <1>8, <1>9, <1>10, <1>11, <1>12 DEF E!Next, EP!Next
<1>14. UNCHANGED xs => UNCHANGED EP!vars
  BY DEF xs, EP!vars
<1>15. EP!HistoriesHold => E!HistoriesHold
  BY Zenon DEF E!HistoriesHold, EP!HistoriesHold, E!TypeOK, EP!TypeOK, E!AnswersStand,
      EP!AnswersStand, E!RevisionNamesContent, EP!RevisionNamesContent, E!SuccessesChain,
      EP!SuccessesChain, E!AsRead, EP!AsRead, E!Content, EP!Content, E!Live, EP!Live,
      E!TurnsOf, EP!TurnsOf, E!History, EP!History, E!Turn, EP!Turn, E!Kinds, EP!Kinds,
      E!Status, EP!Status, E!Range, EP!Range, E!Max, EP!Max, E!Cardinality, EP!Cardinality
<1> QED BY <1>1, <1>2, <1>13, <1>14, <1>15

LP == INSTANCE HistoryStore_proofs WITH
       Ids <- 3, Turns <- 1, Op <- {1}, Thread <- {1}, There <- <<"query", "query", "query">>,
       Acts <- {"submit", "list"}, Page <- 1, MaxSaved <- 0, MaxRename <- 0, MaxLives <- 2,
       MaxTime <- 2,
       hist <- x1, turns <- x2, saved <- x3, lease <- x4, epoch <- x5, thread <- x6, view <- x7,
       scan <- x8, told <- x9, now <- x10

\* The two spellings of the list of histories that go on.
LEMMA SamePages ==
  /\ LP!StoreAssumption /\ (L!Init => LP!Init) /\ (L!Next => LP!Next)
  /\ UNCHANGED xs => UNCHANGED LP!vars
  /\ LP!PagesComplete => L!PagesComplete
<1>1. LP!StoreAssumption
  BY ServicesAssumption DEF ServicesAssumption, L!StoreAssumption, LP!StoreAssumption, L!History, LP!History, L!Turn, LP!Turn,
      L!Kinds, LP!Kinds, L!Status, LP!Status, L!Request, LP!Request, L!HistoryRow,
      LP!HistoryRow, L!TurnRow, LP!TurnRow, L!Cursor, LP!Cursor, L!Range, LP!Range
<1>2. L!Init => LP!Init
  BY Zenon DEF L!Init, LP!Init, L!Record, LP!Record, L!Idle, LP!Idle, L!NoView, LP!NoView,
      L!NoScan, LP!NoScan, L!History, LP!History, L!Turn, LP!Turn
<1>3. L!Create => LP!Create
  BY Zenon DEF L!Create, LP!Create, L!ByOperation, LP!ByOperation, L!Live, LP!Live, L!TurnsOf,
      LP!TurnsOf, L!Free, LP!Free, L!Idle, LP!Idle, L!Over, LP!Over, L!Record, LP!Record,
      L!History, LP!History, L!Turn, LP!Turn, L!Kinds, LP!Kinds, L!Range, LP!Range,
      L!client, LP!client
<1>4. ASSUME NEW k PROVE /\ L!Submit(k) => LP!Submit(k)
                         /\ L!Resume(k) => LP!Resume(k)
                         /\ L!Requery(k) => LP!Requery(k)
  BY Zenon DEF L!Submit, LP!Submit, L!Resume, LP!Resume, L!Requery, LP!Requery, L!Arrives,
      LP!Arrives, L!Live, LP!Live, L!TurnsOf, LP!TurnsOf, L!Free, LP!Free, L!Idle,
      LP!Idle, L!Over, LP!Over, L!Record, LP!Record, L!History, LP!History, L!Turn,
      LP!Turn, L!Kinds, LP!Kinds, L!Range, LP!Range, L!client, LP!client
<1>5. ASSUME NEW k PROVE /\ L!ReadHeader(k) => LP!ReadHeader(k)
                         /\ L!Reserve(k) => LP!Reserve(k)
  BY Zenon DEF L!ReadHeader, LP!ReadHeader, L!Reserve, LP!Reserve, L!Tell, LP!Tell, L!Live,
      LP!Live, L!TurnsOf, LP!TurnsOf, L!Free, LP!Free, L!Idle, LP!Idle, L!Over, LP!Over,
      L!Record, LP!Record, L!History, LP!History, L!Turn, LP!Turn, L!Kinds, LP!Kinds,
      L!Range, LP!Range, L!client, LP!client
<1>6. ASSUME NEW k PROVE L!Begin(k) => LP!Begin(k)
  BY Zenon DEF L!Begin, LP!Begin, L!Release, LP!Release, L!Previous, LP!Previous, L!Repeats,
      LP!Repeats, L!Tell, LP!Tell, L!ContextKnown, LP!ContextKnown, L!Insert, LP!Insert,
      L!NextTurn, LP!NextTurn, L!Live, LP!Live, L!TurnsOf, LP!TurnsOf, L!Free, LP!Free,
      L!Idle, LP!Idle, L!Over, LP!Over, L!Record, LP!Record, L!History, LP!History,
      L!Turn, LP!Turn, L!Kinds, LP!Kinds, L!Range, LP!Range, L!client, LP!client
<1>7. ASSUME NEW k PROVE L!BeginRequery(k) => LP!BeginRequery(k)
  BY Zenon DEF L!BeginRequery, LP!BeginRequery, L!ByOperation, LP!ByOperation, L!Previous,
      LP!Previous, L!Repeats, LP!Repeats, L!Tell, LP!Tell, L!Insert, LP!Insert,
      L!NextTurn, LP!NextTurn, L!Source, LP!Source, L!Live, LP!Live, L!TurnsOf,
      LP!TurnsOf, L!Free, LP!Free, L!Idle, LP!Idle, L!Over, LP!Over, L!Record, LP!Record,
      L!History, LP!History, L!Turn, LP!Turn, L!Kinds, LP!Kinds, L!Range, LP!Range,
      L!client, LP!client
<1>8. ASSUME NEW k PROVE /\ L!Work(k) => LP!Work(k)
                         /\ L!Finish(k) => LP!Finish(k)
                         /\ L!Answer(k) => LP!Answer(k)
  BY Zenon DEF L!Work, LP!Work, L!Finish, LP!Finish, L!Answer, LP!Answer, L!Finished, LP!Finished,
      L!Tell, LP!Tell, L!Live, LP!Live, L!TurnsOf, LP!TurnsOf, L!Free, LP!Free, L!Idle,
      LP!Idle, L!Over, LP!Over, L!Record, LP!Record, L!History, LP!History, L!Turn,
      LP!Turn, L!Kinds, LP!Kinds, L!Range, LP!Range, L!client, LP!client
<1>9. /\ L!Reconcile => LP!Reconcile
      /\ L!Restart => LP!Restart
      /\ L!Tick => LP!Tick
  BY Zenon DEF L!Reconcile, LP!Reconcile, L!Restart, LP!Restart, L!Tick, LP!Tick, L!GivenUp,
      LP!GivenUp, L!Unconfirmed, LP!Unconfirmed, L!Live, LP!Live, L!TurnsOf, LP!TurnsOf,
      L!Free, LP!Free, L!Idle, LP!Idle, L!Over, LP!Over, L!Record, LP!Record, L!History,
      LP!History, L!Turn, LP!Turn, L!Kinds, LP!Kinds, L!Range, LP!Range, L!client,
      LP!client
<1>10. /\ L!Look => LP!Look
       /\ L!RenameHistory => LP!RenameHistory
       /\ L!DeleteHistory => LP!DeleteHistory
  BY Zenon DEF L!Look, LP!Look, L!RenameHistory, LP!RenameHistory, L!DeleteHistory,
      LP!DeleteHistory, L!Header, LP!Header, L!Content, LP!Content, L!AsRead, LP!AsRead,
      L!Live, LP!Live, L!TurnsOf, LP!TurnsOf, L!Free, LP!Free, L!Idle, LP!Idle, L!Over,
      LP!Over, L!Record, LP!Record, L!History, LP!History, L!Turn, LP!Turn, L!Kinds,
      LP!Kinds, L!Range, LP!Range, L!client, LP!client
<1>11. /\ L!CopyResult => LP!CopyResult
       /\ L!DeleteSaved => LP!DeleteSaved
  BY Zenon DEF L!CopyResult, LP!CopyResult, L!DeleteSaved, LP!DeleteSaved, L!Cardinality,
      LP!Cardinality, L!Live, LP!Live, L!TurnsOf, LP!TurnsOf, L!Free, LP!Free, L!Idle,
      LP!Idle, L!Over, LP!Over, L!Record, LP!Record, L!History, LP!History, L!Turn,
      LP!Turn, L!Kinds, LP!Kinds, L!Range, LP!Range, L!client, LP!client
<1>12. L!ListPage => LP!ListPage
  BY Zenon DEF L!ListPage, LP!ListPage, L!Below, LP!Below, L!Newer, LP!Newer, L!FirstRows,
      LP!FirstRows, L!Last, LP!Last, L!Live, LP!Live, L!TurnsOf, LP!TurnsOf, L!Free,
      LP!Free, L!Idle, LP!Idle, L!Over, LP!Over, L!Record, LP!Record, L!History,
      LP!History, L!Turn, LP!Turn, L!Kinds, LP!Kinds, L!Range, LP!Range, L!client,
      LP!client
<1>13. L!Next => LP!Next
  BY Zenon, <1>3, <1>4, <1>5, <1>6, <1>7, <1>8, <1>9, <1>10, <1>11, <1>12 DEF L!Next, LP!Next
<1>14. UNCHANGED xs => UNCHANGED LP!vars
  BY DEF xs, LP!vars
<1>15. LP!PagesComplete => L!PagesComplete
  BY Zenon DEF L!PagesComplete, LP!PagesComplete, L!History, LP!History, L!Range, LP!Range
<1> QED BY <1>1, <1>2, <1>13, <1>14, <1>15

MP == INSTANCE HistoryStore_proofs WITH
       Ids <- 3, Turns <- 0, Op <- {1}, Thread <- {}, There <- <<"query", "query">>,
       Acts <- {"create", "rename", "delete", "list"}, Page <- 1, MaxSaved <- 0, MaxRename <- 1,
       MaxLives <- 1, MaxTime <- 2,
       hist <- x1, turns <- x2, saved <- x3, lease <- x4, epoch <- x5, thread <- x6, view <- x7,
       scan <- x8, told <- x9, now <- x10

\* The two spellings of the list of histories that are edited.
LEMMA SameTitles ==
  /\ MP!StoreAssumption /\ (M!Init => MP!Init) /\ (M!Next => MP!Next)
  /\ UNCHANGED xs => UNCHANGED MP!vars
  /\ MP!PagesComplete => M!PagesComplete
<1>1. MP!StoreAssumption
  BY ServicesAssumption DEF ServicesAssumption, M!StoreAssumption, MP!StoreAssumption, M!History, MP!History, M!Turn, MP!Turn,
      M!Kinds, MP!Kinds, M!Status, MP!Status, M!Request, MP!Request, M!HistoryRow,
      MP!HistoryRow, M!TurnRow, MP!TurnRow, M!Cursor, MP!Cursor, M!Range, MP!Range
<1>2. M!Init => MP!Init
  BY Zenon DEF M!Init, MP!Init, M!Record, MP!Record, M!Idle, MP!Idle, M!NoView, MP!NoView,
      M!NoScan, MP!NoScan, M!History, MP!History, M!Turn, MP!Turn
<1>3. M!Create => MP!Create
  BY Zenon DEF M!Create, MP!Create, M!ByOperation, MP!ByOperation, M!Live, MP!Live, M!TurnsOf,
      MP!TurnsOf, M!Free, MP!Free, M!Idle, MP!Idle, M!Over, MP!Over, M!Record, MP!Record,
      M!History, MP!History, M!Turn, MP!Turn, M!Kinds, MP!Kinds, M!Range, MP!Range,
      M!client, MP!client
<1>4. ASSUME NEW k PROVE /\ M!Submit(k) => MP!Submit(k)
                         /\ M!Resume(k) => MP!Resume(k)
                         /\ M!Requery(k) => MP!Requery(k)
  BY Zenon DEF M!Submit, MP!Submit, M!Resume, MP!Resume, M!Requery, MP!Requery, M!Arrives,
      MP!Arrives, M!Live, MP!Live, M!TurnsOf, MP!TurnsOf, M!Free, MP!Free, M!Idle,
      MP!Idle, M!Over, MP!Over, M!Record, MP!Record, M!History, MP!History, M!Turn,
      MP!Turn, M!Kinds, MP!Kinds, M!Range, MP!Range, M!client, MP!client
<1>5. ASSUME NEW k PROVE /\ M!ReadHeader(k) => MP!ReadHeader(k)
                         /\ M!Reserve(k) => MP!Reserve(k)
  BY Zenon DEF M!ReadHeader, MP!ReadHeader, M!Reserve, MP!Reserve, M!Tell, MP!Tell, M!Live,
      MP!Live, M!TurnsOf, MP!TurnsOf, M!Free, MP!Free, M!Idle, MP!Idle, M!Over, MP!Over,
      M!Record, MP!Record, M!History, MP!History, M!Turn, MP!Turn, M!Kinds, MP!Kinds,
      M!Range, MP!Range, M!client, MP!client
<1>6. ASSUME NEW k PROVE M!Begin(k) => MP!Begin(k)
  BY Zenon DEF M!Begin, MP!Begin, M!Release, MP!Release, M!Previous, MP!Previous, M!Repeats,
      MP!Repeats, M!Tell, MP!Tell, M!ContextKnown, MP!ContextKnown, M!Insert, MP!Insert,
      M!NextTurn, MP!NextTurn, M!Live, MP!Live, M!TurnsOf, MP!TurnsOf, M!Free, MP!Free,
      M!Idle, MP!Idle, M!Over, MP!Over, M!Record, MP!Record, M!History, MP!History,
      M!Turn, MP!Turn, M!Kinds, MP!Kinds, M!Range, MP!Range, M!client, MP!client
<1>7. ASSUME NEW k PROVE M!BeginRequery(k) => MP!BeginRequery(k)
  BY Zenon DEF M!BeginRequery, MP!BeginRequery, M!ByOperation, MP!ByOperation, M!Previous,
      MP!Previous, M!Repeats, MP!Repeats, M!Tell, MP!Tell, M!Insert, MP!Insert,
      M!NextTurn, MP!NextTurn, M!Source, MP!Source, M!Live, MP!Live, M!TurnsOf,
      MP!TurnsOf, M!Free, MP!Free, M!Idle, MP!Idle, M!Over, MP!Over, M!Record, MP!Record,
      M!History, MP!History, M!Turn, MP!Turn, M!Kinds, MP!Kinds, M!Range, MP!Range,
      M!client, MP!client
<1>8. ASSUME NEW k PROVE /\ M!Work(k) => MP!Work(k)
                         /\ M!Finish(k) => MP!Finish(k)
                         /\ M!Answer(k) => MP!Answer(k)
  BY Zenon DEF M!Work, MP!Work, M!Finish, MP!Finish, M!Answer, MP!Answer, M!Finished, MP!Finished,
      M!Tell, MP!Tell, M!Live, MP!Live, M!TurnsOf, MP!TurnsOf, M!Free, MP!Free, M!Idle,
      MP!Idle, M!Over, MP!Over, M!Record, MP!Record, M!History, MP!History, M!Turn,
      MP!Turn, M!Kinds, MP!Kinds, M!Range, MP!Range, M!client, MP!client
<1>9. /\ M!Reconcile => MP!Reconcile
      /\ M!Restart => MP!Restart
      /\ M!Tick => MP!Tick
  BY Zenon DEF M!Reconcile, MP!Reconcile, M!Restart, MP!Restart, M!Tick, MP!Tick, M!GivenUp,
      MP!GivenUp, M!Unconfirmed, MP!Unconfirmed, M!Live, MP!Live, M!TurnsOf, MP!TurnsOf,
      M!Free, MP!Free, M!Idle, MP!Idle, M!Over, MP!Over, M!Record, MP!Record, M!History,
      MP!History, M!Turn, MP!Turn, M!Kinds, MP!Kinds, M!Range, MP!Range, M!client,
      MP!client
<1>10. /\ M!Look => MP!Look
       /\ M!RenameHistory => MP!RenameHistory
       /\ M!DeleteHistory => MP!DeleteHistory
  BY Zenon DEF M!Look, MP!Look, M!RenameHistory, MP!RenameHistory, M!DeleteHistory,
      MP!DeleteHistory, M!Header, MP!Header, M!Content, MP!Content, M!AsRead, MP!AsRead,
      M!Live, MP!Live, M!TurnsOf, MP!TurnsOf, M!Free, MP!Free, M!Idle, MP!Idle, M!Over,
      MP!Over, M!Record, MP!Record, M!History, MP!History, M!Turn, MP!Turn, M!Kinds,
      MP!Kinds, M!Range, MP!Range, M!client, MP!client
<1>11. /\ M!CopyResult => MP!CopyResult
       /\ M!DeleteSaved => MP!DeleteSaved
  BY Zenon DEF M!CopyResult, MP!CopyResult, M!DeleteSaved, MP!DeleteSaved, M!Cardinality,
      MP!Cardinality, M!Live, MP!Live, M!TurnsOf, MP!TurnsOf, M!Free, MP!Free, M!Idle,
      MP!Idle, M!Over, MP!Over, M!Record, MP!Record, M!History, MP!History, M!Turn,
      MP!Turn, M!Kinds, MP!Kinds, M!Range, MP!Range, M!client, MP!client
<1>12. M!ListPage => MP!ListPage
  BY Zenon DEF M!ListPage, MP!ListPage, M!Below, MP!Below, M!Newer, MP!Newer, M!FirstRows,
      MP!FirstRows, M!Last, MP!Last, M!Live, MP!Live, M!TurnsOf, MP!TurnsOf, M!Free,
      MP!Free, M!Idle, MP!Idle, M!Over, MP!Over, M!Record, MP!Record, M!History,
      MP!History, M!Turn, MP!Turn, M!Kinds, MP!Kinds, M!Range, MP!Range, M!client,
      MP!client
<1>13. M!Next => MP!Next
  BY Zenon, <1>3, <1>4, <1>5, <1>6, <1>7, <1>8, <1>9, <1>10, <1>11, <1>12 DEF M!Next, MP!Next
<1>14. UNCHANGED xs => UNCHANGED MP!vars
  BY DEF xs, MP!vars
<1>15. MP!PagesComplete => M!PagesComplete
  BY Zenon DEF M!PagesComplete, MP!PagesComplete, M!History, MP!History, M!Range, MP!Range
<1> QED BY <1>1, <1>2, <1>13, <1>14, <1>15

-----------------------------------------------------------------------------
(* The invariants of the histories, each where a behaviour is about it. *)
StoredInv ==
  /\ part = "requeried" => HP!HistoryInv
  /\ part = "resumed" => JP!HistoryInv
  /\ part = "edited" => EP!HistoryInv
  /\ part = "pages" => LP!HistoryInv
  /\ part = "titles" => MP!HistoryInv

\* The histories start in their invariants.
LEMMA StoredStarts == Init => StoredInv
<1> SUFFICES ASSUME Init PROVE StoredInv
  OBVIOUS
<1>1. part = "requeried" => HP!HistoryInv
  <2>1. part = "requeried" => H!Init BY DEF Init
  <2> QED BY <2>1, SameRequeried, HP!HistoryInit
<1>2. part = "resumed" => JP!HistoryInv
  <2>1. part = "resumed" => J!Init BY DEF Init
  <2> QED BY <2>1, SameResumed, JP!HistoryInit
<1>3. part = "edited" => EP!HistoryInv
  <2>1. part = "edited" => E!Init BY DEF Init
  <2> QED BY <2>1, SameEdited, EP!HistoryInit
<1>4. part = "pages" => LP!HistoryInv
  <2>1. part = "pages" => L!Init BY DEF Init
  <2> QED BY <2>1, SamePages, LP!HistoryInit
<1>5. part = "titles" => MP!HistoryInv
  <2>1. part = "titles" => M!Init BY DEF Init
  <2> QED BY <2>1, SameTitles, MP!HistoryInit
<1> QED BY <1>1, <1>2, <1>3, <1>4, <1>5 DEF StoredInv

\* The histories keep their invariants.
LEMMA StoredSteps == StoredInv /\ [Next]_all => StoredInv'
<1> SUFFICES ASSUME StoredInv, [Next]_all PROVE StoredInv'
  OBVIOUS
<1>0. UNCHANGED part BY DEF Next, all
<1>1. ASSUME part = "requeried" PROVE HP!HistoryInv'
  <2>1. [H!Next]_xs BY <1>1 DEF Next, all
  <2>2. HP!HistoryInv /\ [HP!Next]_(HP!vars) BY <1>1, <2>1, SameRequeried DEF StoredInv
  <2> QED BY <2>2, HP!HistoryNext
<1>2. ASSUME part = "resumed" PROVE JP!HistoryInv'
  <2>1. [J!Next]_xs BY <1>2 DEF Next, all
  <2>2. JP!HistoryInv /\ [JP!Next]_(JP!vars) BY <1>2, <2>1, SameResumed DEF StoredInv
  <2> QED BY <2>2, JP!HistoryNext
<1>3. ASSUME part = "edited" PROVE EP!HistoryInv'
  <2>1. [E!Next]_xs BY <1>3 DEF Next, all
  <2>2. EP!HistoryInv /\ [EP!Next]_(EP!vars) BY <1>3, <2>1, SameEdited DEF StoredInv
  <2> QED BY <2>2, EP!HistoryNext
<1>4. ASSUME part = "pages" PROVE LP!HistoryInv'
  <2>1. [L!Next]_xs BY <1>4 DEF Next, all
  <2>2. LP!HistoryInv /\ [LP!Next]_(LP!vars) BY <1>4, <2>1, SamePages DEF StoredInv
  <2> QED BY <2>2, LP!HistoryNext
<1>5. ASSUME part = "titles" PROVE MP!HistoryInv'
  <2>1. [M!Next]_xs BY <1>5 DEF Next, all
  <2>2. MP!HistoryInv /\ [MP!Next]_(MP!vars) BY <1>5, <2>1, SameTitles DEF StoredInv
  <2> QED BY <2>2, MP!HistoryNext
<1> QED BY <1>0, <1>1, <1>2, <1>3, <1>4, <1>5 DEF StoredInv

\* What the invariants of the histories say.
LEMMA StoredSay == StoredInv => HistoriesHold
<1>1. StoredInv => (part = "requeried" => H!HistoriesHold)
  BY SameRequeried, HP!HistoriesFollow DEF StoredInv
<1>2. StoredInv => (part = "resumed" => J!HistoriesHold)
  BY SameResumed, JP!HistoriesFollow DEF StoredInv
<1>3. StoredInv => (part = "edited" => E!HistoriesHold)
  BY SameEdited, EP!HistoriesFollow DEF StoredInv
<1>4. StoredInv => (part = "pages" => L!PagesComplete)
  BY SamePages, LP!PagesFollow DEF StoredInv
<1>5. StoredInv => (part = "titles" => M!PagesComplete)
  BY SameTitles, MP!PagesFollow DEF StoredInv
<1> QED BY <1>1, <1>2, <1>3, <1>4, <1>5 DEF HistoriesHold

(* The histories of the instances keep what was answered, are deleted only as they were
   read, chain their successes, and their list shows what nobody touched once (history.py):
   HistoriesAlwaysHold and PagesAlwaysComplete of HistoryStore_proofs. *)
THEOREM HistoriesHoldHere == Spec => []HistoriesHold
  BY StoredStarts, StoredSteps, StoredSay, PTL DEF Spec
=============================================================================
