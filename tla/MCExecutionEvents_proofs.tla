----------------------- MODULE MCExecutionEvents_proofs -----------------------
(***************************************************************************)
(* The theorems about ExecutionEvents, brought to the two instances that   *)
(* the run checks.  A behaviour is about one of them and takes the steps   *)
(* of no other, so it keeps the invariant of the component.                *)
(***************************************************************************)
EXTENDS MCExecutionEvents, TLAPS

PP == INSTANCE ExecutionEvents_proofs WITH
       Page <- {reader}, Conn <- {line}, TextField <- {}, ListField <- {"key_findings"}, MaxItems <- 2,
       MaxStage <- 1, Total <- 1, MaxEvents <- 2, MaxBytes <- 3, Overhead <- 1, MaxDelta <- 1,
       MaxDraft <- 4, MaxSubscribers <- 2, MaxText <- 2, MaxSequence <- 3, MaxReset <- 1, Outages <- 1,
       Happens <- {"stop", "outage", "restart"}, Outcome <- {"succeeded", "cancelled"}
SP == INSTANCE ExecutionEvents_proofs WITH
       Page <- {p1, p2}, Conn <- {c1, c2}, TextField <- {}, ListField <- {}, MaxItems <- 1,
       MaxStage <- 1, Total <- 0, MaxEvents <- 2, MaxBytes <- 4, Overhead <- 1, MaxDelta <- 2,
       MaxDraft <- 4, MaxSubscribers <- 1, MaxText <- 1, MaxSequence <- 1, MaxReset <- 0, Outages <- 1,
       Happens <- {"revoke", "leave"}, Outcome <- {"succeeded"}

-----------------------------------------------------------------------------
\* The two spellings of the instance with one page.
LEMMA SamePage ==
  /\ PP!EventsAssumption /\ (P!Init => PP!Init) /\ (P!Next => PP!Next)
  /\ UNCHANGED P!vars => UNCHANGED PP!vars
  /\ PP!TypeOK => P!TypeOK
  /\ PP!PageMirrorsChannel => P!PageMirrorsChannel
  /\ PP!ShownOutcomeIsPersisted => P!ShownOutcomeIsPersisted
  /\ PP!ReducerNeverRefuses => P!ReducerNeverRefuses
<1>1. PP!EventsAssumption
  BY EventsRunAssumption, Zenon DEF P!EventsAssumption, PP!EventsAssumption, P!StateType,
      PP!StateType, P!Active, PP!Active, P!Terminal, PP!Terminal, P!Confirmed, PP!Confirmed, P!Key,
      PP!Key
<1>2. P!Init => PP!Init
  BY Zenon DEF P!Init, PP!Init, P!InitialState, PP!InitialState, P!NoDraft, PP!NoDraft, P!Key,
      PP!Key, P!FreeConn, PP!FreeConn
<1>3. ASSUME NEW s PROVE P!Persist(s) => PP!Persist(s)
  BY Zenon DEF P!Persist, PP!Persist, P!Active, PP!Active, P!RowNext, PP!RowNext, P!channel,
      PP!channel, P!server, PP!server, P!client, PP!client
<1>4. P!Attach => PP!Attach
  BY Zenon DEF P!Attach, PP!Attach, P!server, PP!server, P!client, PP!client
<1>5. ASSUME NEW s PROVE P!SetStatus(s) => PP!SetStatus(s)
  BY Zenon DEF P!SetStatus, PP!SetStatus, P!Writing, PP!Writing, P!Done, PP!Done, P!Terminal,
      PP!Terminal, P!Confirmed, PP!Confirmed, P!Rank, PP!Rank, P!Active, PP!Active, P!Append_locked,
      PP!Append_locked, P!Last, PP!Last, P!Event, PP!Event, P!Evict, PP!Evict, P!Fits, PP!Fits, P!Bytes,
      PP!Bytes, P!FoldLeft, PP!FoldLeft, P!MapThenFoldSet, PP!MapThenFoldSet, P!Max, PP!Max, P!Size,
      PP!Size, P!server, PP!server, P!client, PP!client
<1>6. ASSUME NEW n PROVE P!SetStage(n) => PP!SetStage(n)
  BY Zenon DEF P!SetStage, PP!SetStage, P!Working, PP!Working, P!Writing, PP!Writing, P!Done,
      PP!Done, P!Terminal, PP!Terminal, P!Confirmed, PP!Confirmed, P!Append_locked, PP!Append_locked,
      P!Last, PP!Last, P!Event, PP!Event, P!Evict, PP!Evict, P!Fits, PP!Fits, P!Bytes, PP!Bytes,
      P!FoldLeft, PP!FoldLeft, P!MapThenFoldSet, PP!MapThenFoldSet, P!Max, PP!Max, P!Size, PP!Size,
      P!ProgressBody, PP!ProgressBody, P!server, PP!server, P!client, PP!client
<1>7. ASSUME NEW n PROVE P!SetTaskProgress(n) => PP!SetTaskProgress(n)
  BY Zenon DEF P!SetTaskProgress, PP!SetTaskProgress, P!Working, PP!Working, P!Writing, PP!Writing,
      P!Done, PP!Done, P!Terminal, PP!Terminal, P!Confirmed, PP!Confirmed, P!Append_locked,
      PP!Append_locked, P!Last, PP!Last, P!Event, PP!Event, P!Evict, PP!Evict, P!Fits, PP!Fits, P!Bytes,
      PP!Bytes, P!FoldLeft, PP!FoldLeft, P!MapThenFoldSet, PP!MapThenFoldSet, P!Max, PP!Max, P!Size,
      PP!Size, P!ProgressBody, PP!ProgressBody, P!server, PP!server, P!client, PP!client
<1>8. ASSUME NEW k, NEW n PROVE P!TextDelta(k, n) => PP!TextDelta(k, n)
  BY Zenon DEF P!TextDelta, PP!TextDelta, P!ChunkLimit, PP!ChunkLimit, P!Working, PP!Working,
      P!Writing, PP!Writing, P!Done, PP!Done, P!Terminal, PP!Terminal, P!Confirmed, PP!Confirmed,
      P!Items, PP!Items, P!Cardinality, PP!Cardinality, P!DraftBytes, PP!DraftBytes, P!MapThenSumSet,
      PP!MapThenSumSet, P!MapThenFoldSet, PP!MapThenFoldSet, P!Key, PP!Key, P!Append_locked,
      PP!Append_locked, P!Last, PP!Last, P!Event, PP!Event, P!Evict, PP!Evict, P!Fits, PP!Fits, P!Bytes,
      PP!Bytes, P!FoldLeft, PP!FoldLeft, P!Max, PP!Max, P!Size, PP!Size, P!server, PP!server, P!client,
      PP!client
<1>9. P!Reset => PP!Reset
  BY Zenon DEF P!Reset, PP!Reset, P!Working, PP!Working, P!Writing, PP!Writing, P!Done, PP!Done,
      P!Terminal, PP!Terminal, P!Confirmed, PP!Confirmed, P!Append_locked, PP!Append_locked, P!Last,
      PP!Last, P!Event, PP!Event, P!Evict, PP!Evict, P!Fits, PP!Fits, P!Bytes, PP!Bytes, P!FoldLeft,
      PP!FoldLeft, P!MapThenFoldSet, PP!MapThenFoldSet, P!Max, PP!Max, P!Size, PP!Size, P!NoBody,
      PP!NoBody, P!NoDraft, PP!NoDraft, P!Key, PP!Key, P!server, PP!server, P!client, PP!client
<1>10. ASSUME NEW s PROVE P!Finish(s) => PP!Finish(s)
  BY Zenon DEF P!Finish, PP!Finish, P!Done, PP!Done, P!Terminal, PP!Terminal, P!Confirmed,
      PP!Confirmed, P!Append_locked, PP!Append_locked, P!Last, PP!Last, P!Event, PP!Event, P!Evict,
      PP!Evict, P!Fits, PP!Fits, P!Bytes, PP!Bytes, P!FoldLeft, PP!FoldLeft, P!MapThenFoldSet,
      PP!MapThenFoldSet, P!Max, PP!Max, P!Size, PP!Size, P!NoDraft, PP!NoDraft, P!Key, PP!Key, P!server,
      PP!server, P!client, PP!client
<1>11. P!DropChannel => PP!DropChannel
  BY Zenon DEF P!DropChannel, PP!DropChannel, P!Done, PP!Done, P!Terminal, PP!Terminal, P!Confirmed,
      PP!Confirmed, P!server, PP!server, P!client, PP!client
<1>12. P!Reconcile => PP!Reconcile
  BY Zenon DEF P!Reconcile, PP!Reconcile, P!Active, PP!Active, P!channel, PP!channel, P!server,
      PP!server, P!client, PP!client
<1>13. P!Revoke => PP!Revoke
  BY Zenon DEF P!Revoke, PP!Revoke, P!channel, PP!channel, P!server, PP!server, P!client, PP!client
<1>14. P!Restart => PP!Restart
  BY Zenon DEF P!Restart, PP!Restart, P!Active, PP!Active, P!FreeConn, PP!FreeConn
<1>15. ASSUME NEW c PROVE P!Subscribe(c) => PP!Subscribe(c)
  BY Zenon DEF P!Subscribe, PP!Subscribe, P!PersistedSnapshot, PP!PersistedSnapshot, P!Event,
      PP!Event, P!InitialState, PP!InitialState, P!NoDraft, PP!NoDraft, P!Key, PP!Key, P!CanSubscribe,
      PP!CanSubscribe, P!Snapshot, PP!Snapshot, P!channel, PP!channel, P!client, PP!client
<1>16. ASSUME NEW c PROVE P!Check(c) => PP!Check(c)
  BY Zenon DEF P!Check, PP!Check, P!Deliver, PP!Deliver, P!AuthLost, PP!AuthLost, P!Event, PP!Event,
      P!NoBody, PP!NoBody, P!channel, PP!channel
<1>17. ASSUME NEW c PROVE P!Send(c) => PP!Send(c)
  BY Zenon DEF P!Send, PP!Send, P!Deliver, PP!Deliver, P!EndsStream, PP!EndsStream, P!Terminal,
      PP!Terminal, P!Confirmed, PP!Confirmed, P!channel, PP!channel
<1>18. ASSUME NEW c PROVE P!Loop(c) => PP!Loop(c)
  BY Zenon DEF P!Loop, PP!Loop, P!channel, PP!channel, P!client, PP!client
<1>19. ASSUME NEW c PROVE P!Read(c) => PP!Read(c)
  BY Zenon DEF P!Read, PP!Read, P!ReadAfter, PP!ReadAfter, P!Snapshot, PP!Snapshot, P!Event,
      PP!Event, P!Newer, PP!Newer, P!Last, PP!Last, P!channel, PP!channel, P!client, PP!client
<1>20. ASSUME NEW c PROVE P!Heartbeat(c) => PP!Heartbeat(c)
  BY Zenon DEF P!Heartbeat, PP!Heartbeat, P!ReadAfter, PP!ReadAfter, P!Snapshot, PP!Snapshot,
      P!Event, PP!Event, P!Newer, PP!Newer, P!Deliver, PP!Deliver, P!AuthLost, PP!AuthLost, P!NoBody,
      PP!NoBody, P!channel, PP!channel
<1>21. ASSUME NEW c PROVE P!Close(c) => PP!Close(c)
  BY Zenon DEF P!Close, PP!Close, P!FreeConn, PP!FreeConn, P!channel, PP!channel, P!client,
      PP!client
<1>22. ASSUME NEW p, NEW c PROVE P!Connect(p, c) => PP!Connect(p, c)
  BY Zenon DEF P!Connect, PP!Connect, P!FreeConn, PP!FreeConn, P!GoPage, PP!GoPage, P!channel,
      PP!channel
<1>23. ASSUME NEW p PROVE P!Receive(p) => PP!Receive(p)
  BY Zenon DEF P!Receive, PP!Receive, P!Reduce, PP!Reduce, P!ReduceSnapshot, PP!ReduceSnapshot,
      P!Terminal, PP!Terminal, P!Confirmed, PP!Confirmed, P!Accept, PP!Accept, P!Keep, PP!Keep, P!Again,
      PP!Again, P!Regresses, PP!Regresses, P!Rank, PP!Rank, P!Active, PP!Active, P!ReduceIncrement,
      PP!ReduceIncrement, P!NoDraft, PP!NoDraft, P!Key, PP!Key, P!Or, PP!Or, P!Continues, PP!Continues,
      P!Items, PP!Items, P!Cardinality, PP!Cardinality, P!Drop, PP!Drop, P!FreeConn, PP!FreeConn,
      P!GoPage, PP!GoPage, P!channel, PP!channel
<1>24. ASSUME NEW p PROVE P!EndOfStream(p) => PP!EndOfStream(p)
  BY Zenon DEF P!EndOfStream, PP!EndOfStream, P!Drop, PP!Drop, P!FreeConn, PP!FreeConn, P!GoPage,
      PP!GoPage, P!channel, PP!channel
<1>25. ASSUME NEW p PROVE P!Outage(p) => PP!Outage(p)
  BY Zenon DEF P!Outage, PP!Outage, P!Drop, PP!Drop, P!FreeConn, PP!FreeConn, P!GoPage, PP!GoPage,
      P!channel, PP!channel
<1>26. ASSUME NEW p PROVE P!Leave(p) => PP!Leave(p)
  BY Zenon DEF P!Leave, PP!Leave, P!Drop, PP!Drop, P!FreeConn, PP!FreeConn, P!GoPage, PP!GoPage,
      P!channel, PP!channel
<1>27. P!AtRest => PP!AtRest
  BY Zenon DEF P!AtRest, PP!AtRest, P!Ended, PP!Ended, P!FreeConn, PP!FreeConn, P!vars, PP!vars
<1>28. P!Next => PP!Next
  BY Zenon, <1>3, <1>4, <1>5, <1>6, <1>7, <1>8, <1>9, <1>10, <1>11, <1>12, <1>13, <1>14, <1>15,
      <1>16, <1>17, <1>18, <1>19, <1>20, <1>21, <1>22, <1>23, <1>24, <1>25, <1>26, <1>27 DEF P!Next,
      PP!Next, P!Worker, PP!Worker, P!Active, PP!Active, P!Confirmed, PP!Confirmed, P!Terminal,
      PP!Terminal, P!Key, PP!Key, P!Conclude, PP!Conclude, P!Stream, PP!Stream, P!Observe, PP!Observe
<1>29. UNCHANGED P!vars => UNCHANGED PP!vars
  BY Zenon DEF P!vars, PP!vars
<1>30. PP!TypeOK => P!TypeOK
  BY Zenon DEF P!TypeOK, PP!TypeOK, P!Active, PP!Active, P!Terminal, PP!Terminal, P!Confirmed,
      PP!Confirmed, P!StateType, PP!StateType, P!Key, PP!Key, P!Last, PP!Last, P!Fits, PP!Fits, P!Bytes,
      PP!Bytes, P!FoldLeft, PP!FoldLeft, P!MapThenFoldSet, PP!MapThenFoldSet, P!Max, PP!Max, P!Size,
      PP!Size
<1>31. PP!PageMirrorsChannel => P!PageMirrorsChannel
  BY Zenon DEF P!PageMirrorsChannel, PP!PageMirrorsChannel, P!Terminal, PP!Terminal, P!Confirmed,
      PP!Confirmed
<1>32. PP!ShownOutcomeIsPersisted => P!ShownOutcomeIsPersisted
  BY Zenon DEF P!ShownOutcomeIsPersisted, PP!ShownOutcomeIsPersisted, P!Confirmed, PP!Confirmed
<1>33. PP!ReducerNeverRefuses => P!ReducerNeverRefuses
  BY Zenon DEF P!ReducerNeverRefuses, PP!ReducerNeverRefuses, P!Reduce, PP!Reduce, P!ReduceSnapshot,
      PP!ReduceSnapshot, P!Terminal, PP!Terminal, P!Confirmed, PP!Confirmed, P!Accept, PP!Accept,
      P!Keep, PP!Keep, P!Again, PP!Again, P!Regresses, PP!Regresses, P!Rank, PP!Rank, P!Active,
      PP!Active, P!ReduceIncrement, PP!ReduceIncrement, P!NoDraft, PP!NoDraft, P!Key, PP!Key, P!Or,
      PP!Or, P!Continues, PP!Continues, P!Items, PP!Items, P!Cardinality, PP!Cardinality
<1> QED BY <1>1, <1>2, <1>28, <1>29, <1>30, <1>31, <1>32, <1>33

\* The two spellings of the instance with two pages.
LEMMA SameSubscribers ==
  /\ SP!EventsAssumption /\ (S!Init => SP!Init) /\ (S!Next => SP!Next)
  /\ UNCHANGED S!vars => UNCHANGED SP!vars
  /\ SP!SubscribersCounted => S!SubscribersCounted
  /\ SP!AtMostOneFrameLate => S!AtMostOneFrameLate
<1>1. SP!EventsAssumption
  BY EventsRunAssumption, Zenon DEF S!EventsAssumption, SP!EventsAssumption, S!StateType,
      SP!StateType, S!Active, SP!Active, S!Terminal, SP!Terminal, S!Confirmed, SP!Confirmed, S!Key,
      SP!Key
<1>2. S!Init => SP!Init
  BY Zenon DEF S!Init, SP!Init, S!InitialState, SP!InitialState, S!NoDraft, SP!NoDraft, S!Key,
      SP!Key, S!FreeConn, SP!FreeConn
<1>3. ASSUME NEW s PROVE S!Persist(s) => SP!Persist(s)
  BY Zenon DEF S!Persist, SP!Persist, S!Active, SP!Active, S!RowNext, SP!RowNext, S!channel,
      SP!channel, S!server, SP!server, S!client, SP!client
<1>4. S!Attach => SP!Attach
  BY Zenon DEF S!Attach, SP!Attach, S!server, SP!server, S!client, SP!client
<1>5. ASSUME NEW s PROVE S!SetStatus(s) => SP!SetStatus(s)
  BY Zenon DEF S!SetStatus, SP!SetStatus, S!Writing, SP!Writing, S!Done, SP!Done, S!Terminal,
      SP!Terminal, S!Confirmed, SP!Confirmed, S!Rank, SP!Rank, S!Active, SP!Active, S!Append_locked,
      SP!Append_locked, S!Last, SP!Last, S!Event, SP!Event, S!Evict, SP!Evict, S!Fits, SP!Fits, S!Bytes,
      SP!Bytes, S!FoldLeft, SP!FoldLeft, S!MapThenFoldSet, SP!MapThenFoldSet, S!Max, SP!Max, S!Size,
      SP!Size, S!server, SP!server, S!client, SP!client
<1>6. ASSUME NEW n PROVE S!SetStage(n) => SP!SetStage(n)
  BY Zenon DEF S!SetStage, SP!SetStage, S!Working, SP!Working, S!Writing, SP!Writing, S!Done,
      SP!Done, S!Terminal, SP!Terminal, S!Confirmed, SP!Confirmed, S!Append_locked, SP!Append_locked,
      S!Last, SP!Last, S!Event, SP!Event, S!Evict, SP!Evict, S!Fits, SP!Fits, S!Bytes, SP!Bytes,
      S!FoldLeft, SP!FoldLeft, S!MapThenFoldSet, SP!MapThenFoldSet, S!Max, SP!Max, S!Size, SP!Size,
      S!ProgressBody, SP!ProgressBody, S!server, SP!server, S!client, SP!client
<1>7. ASSUME NEW n PROVE S!SetTaskProgress(n) => SP!SetTaskProgress(n)
  BY Zenon DEF S!SetTaskProgress, SP!SetTaskProgress, S!Working, SP!Working, S!Writing, SP!Writing,
      S!Done, SP!Done, S!Terminal, SP!Terminal, S!Confirmed, SP!Confirmed, S!Append_locked,
      SP!Append_locked, S!Last, SP!Last, S!Event, SP!Event, S!Evict, SP!Evict, S!Fits, SP!Fits, S!Bytes,
      SP!Bytes, S!FoldLeft, SP!FoldLeft, S!MapThenFoldSet, SP!MapThenFoldSet, S!Max, SP!Max, S!Size,
      SP!Size, S!ProgressBody, SP!ProgressBody, S!server, SP!server, S!client, SP!client
<1>8. ASSUME NEW k, NEW n PROVE S!TextDelta(k, n) => SP!TextDelta(k, n)
  BY Zenon DEF S!TextDelta, SP!TextDelta, S!ChunkLimit, SP!ChunkLimit, S!Working, SP!Working,
      S!Writing, SP!Writing, S!Done, SP!Done, S!Terminal, SP!Terminal, S!Confirmed, SP!Confirmed,
      S!Items, SP!Items, S!Cardinality, SP!Cardinality, S!DraftBytes, SP!DraftBytes, S!MapThenSumSet,
      SP!MapThenSumSet, S!MapThenFoldSet, SP!MapThenFoldSet, S!Key, SP!Key, S!Append_locked,
      SP!Append_locked, S!Last, SP!Last, S!Event, SP!Event, S!Evict, SP!Evict, S!Fits, SP!Fits, S!Bytes,
      SP!Bytes, S!FoldLeft, SP!FoldLeft, S!Max, SP!Max, S!Size, SP!Size, S!server, SP!server, S!client,
      SP!client
<1>9. S!Reset => SP!Reset
  BY Zenon DEF S!Reset, SP!Reset, S!Working, SP!Working, S!Writing, SP!Writing, S!Done, SP!Done,
      S!Terminal, SP!Terminal, S!Confirmed, SP!Confirmed, S!Append_locked, SP!Append_locked, S!Last,
      SP!Last, S!Event, SP!Event, S!Evict, SP!Evict, S!Fits, SP!Fits, S!Bytes, SP!Bytes, S!FoldLeft,
      SP!FoldLeft, S!MapThenFoldSet, SP!MapThenFoldSet, S!Max, SP!Max, S!Size, SP!Size, S!NoBody,
      SP!NoBody, S!NoDraft, SP!NoDraft, S!Key, SP!Key, S!server, SP!server, S!client, SP!client
<1>10. ASSUME NEW s PROVE S!Finish(s) => SP!Finish(s)
  BY Zenon DEF S!Finish, SP!Finish, S!Done, SP!Done, S!Terminal, SP!Terminal, S!Confirmed,
      SP!Confirmed, S!Append_locked, SP!Append_locked, S!Last, SP!Last, S!Event, SP!Event, S!Evict,
      SP!Evict, S!Fits, SP!Fits, S!Bytes, SP!Bytes, S!FoldLeft, SP!FoldLeft, S!MapThenFoldSet,
      SP!MapThenFoldSet, S!Max, SP!Max, S!Size, SP!Size, S!NoDraft, SP!NoDraft, S!Key, SP!Key, S!server,
      SP!server, S!client, SP!client
<1>11. S!DropChannel => SP!DropChannel
  BY Zenon DEF S!DropChannel, SP!DropChannel, S!Done, SP!Done, S!Terminal, SP!Terminal, S!Confirmed,
      SP!Confirmed, S!server, SP!server, S!client, SP!client
<1>12. S!Reconcile => SP!Reconcile
  BY Zenon DEF S!Reconcile, SP!Reconcile, S!Active, SP!Active, S!channel, SP!channel, S!server,
      SP!server, S!client, SP!client
<1>13. S!Revoke => SP!Revoke
  BY Zenon DEF S!Revoke, SP!Revoke, S!channel, SP!channel, S!server, SP!server, S!client, SP!client
<1>14. S!Restart => SP!Restart
  BY Zenon DEF S!Restart, SP!Restart, S!Active, SP!Active, S!FreeConn, SP!FreeConn
<1>15. ASSUME NEW c PROVE S!Subscribe(c) => SP!Subscribe(c)
  BY Zenon DEF S!Subscribe, SP!Subscribe, S!PersistedSnapshot, SP!PersistedSnapshot, S!Event,
      SP!Event, S!InitialState, SP!InitialState, S!NoDraft, SP!NoDraft, S!Key, SP!Key, S!CanSubscribe,
      SP!CanSubscribe, S!Snapshot, SP!Snapshot, S!channel, SP!channel, S!client, SP!client
<1>16. ASSUME NEW c PROVE S!Check(c) => SP!Check(c)
  BY Zenon DEF S!Check, SP!Check, S!Deliver, SP!Deliver, S!AuthLost, SP!AuthLost, S!Event, SP!Event,
      S!NoBody, SP!NoBody, S!channel, SP!channel
<1>17. ASSUME NEW c PROVE S!Send(c) => SP!Send(c)
  BY Zenon DEF S!Send, SP!Send, S!Deliver, SP!Deliver, S!EndsStream, SP!EndsStream, S!Terminal,
      SP!Terminal, S!Confirmed, SP!Confirmed, S!channel, SP!channel
<1>18. ASSUME NEW c PROVE S!Loop(c) => SP!Loop(c)
  BY Zenon DEF S!Loop, SP!Loop, S!channel, SP!channel, S!client, SP!client
<1>19. ASSUME NEW c PROVE S!Read(c) => SP!Read(c)
  BY Zenon DEF S!Read, SP!Read, S!ReadAfter, SP!ReadAfter, S!Snapshot, SP!Snapshot, S!Event,
      SP!Event, S!Newer, SP!Newer, S!Last, SP!Last, S!channel, SP!channel, S!client, SP!client
<1>20. ASSUME NEW c PROVE S!Heartbeat(c) => SP!Heartbeat(c)
  BY Zenon DEF S!Heartbeat, SP!Heartbeat, S!ReadAfter, SP!ReadAfter, S!Snapshot, SP!Snapshot,
      S!Event, SP!Event, S!Newer, SP!Newer, S!Deliver, SP!Deliver, S!AuthLost, SP!AuthLost, S!NoBody,
      SP!NoBody, S!channel, SP!channel
<1>21. ASSUME NEW c PROVE S!Close(c) => SP!Close(c)
  BY Zenon DEF S!Close, SP!Close, S!FreeConn, SP!FreeConn, S!channel, SP!channel, S!client,
      SP!client
<1>22. ASSUME NEW p, NEW c PROVE S!Connect(p, c) => SP!Connect(p, c)
  BY Zenon DEF S!Connect, SP!Connect, S!FreeConn, SP!FreeConn, S!GoPage, SP!GoPage, S!channel,
      SP!channel
<1>23. ASSUME NEW p PROVE S!Receive(p) => SP!Receive(p)
  BY Zenon DEF S!Receive, SP!Receive, S!Reduce, SP!Reduce, S!ReduceSnapshot, SP!ReduceSnapshot,
      S!Terminal, SP!Terminal, S!Confirmed, SP!Confirmed, S!Accept, SP!Accept, S!Keep, SP!Keep, S!Again,
      SP!Again, S!Regresses, SP!Regresses, S!Rank, SP!Rank, S!Active, SP!Active, S!ReduceIncrement,
      SP!ReduceIncrement, S!NoDraft, SP!NoDraft, S!Key, SP!Key, S!Or, SP!Or, S!Continues, SP!Continues,
      S!Items, SP!Items, S!Cardinality, SP!Cardinality, S!Drop, SP!Drop, S!FreeConn, SP!FreeConn,
      S!GoPage, SP!GoPage, S!channel, SP!channel
<1>24. ASSUME NEW p PROVE S!EndOfStream(p) => SP!EndOfStream(p)
  BY Zenon DEF S!EndOfStream, SP!EndOfStream, S!Drop, SP!Drop, S!FreeConn, SP!FreeConn, S!GoPage,
      SP!GoPage, S!channel, SP!channel
<1>25. ASSUME NEW p PROVE S!Outage(p) => SP!Outage(p)
  BY Zenon DEF S!Outage, SP!Outage, S!Drop, SP!Drop, S!FreeConn, SP!FreeConn, S!GoPage, SP!GoPage,
      S!channel, SP!channel
<1>26. ASSUME NEW p PROVE S!Leave(p) => SP!Leave(p)
  BY Zenon DEF S!Leave, SP!Leave, S!Drop, SP!Drop, S!FreeConn, SP!FreeConn, S!GoPage, SP!GoPage,
      S!channel, SP!channel
<1>27. S!AtRest => SP!AtRest
  BY Zenon DEF S!AtRest, SP!AtRest, S!Ended, SP!Ended, S!FreeConn, SP!FreeConn, S!vars, SP!vars
<1>28. S!Next => SP!Next
  BY Zenon, <1>3, <1>4, <1>5, <1>6, <1>7, <1>8, <1>9, <1>10, <1>11, <1>12, <1>13, <1>14, <1>15,
      <1>16, <1>17, <1>18, <1>19, <1>20, <1>21, <1>22, <1>23, <1>24, <1>25, <1>26, <1>27 DEF S!Next,
      SP!Next, S!Worker, SP!Worker, S!Active, SP!Active, S!Confirmed, SP!Confirmed, S!Terminal,
      SP!Terminal, S!Key, SP!Key, S!Conclude, SP!Conclude, S!Stream, SP!Stream, S!Observe, SP!Observe
<1>29. UNCHANGED S!vars => UNCHANGED SP!vars
  BY Zenon DEF S!vars, SP!vars
<1>30. SP!SubscribersCounted => S!SubscribersCounted
  BY Zenon DEF S!SubscribersCounted, SP!SubscribersCounted, S!Cardinality, SP!Cardinality
<1>31. SP!AtMostOneFrameLate => S!AtMostOneFrameLate
  BY Zenon DEF S!AtMostOneFrameLate, SP!AtMostOneFrameLate
<1> QED BY <1>1, <1>2, <1>28, <1>29, <1>30, <1>31

-----------------------------------------------------------------------------
(* The invariant of the component, where a behaviour is about an instance. *)
StreamsInv ==
  /\ part = "page" => PP!EventsInv
  /\ part = "subscribers" => SP!EventsInv

\* A step of an instance is a step of the component.
LEMMA StreamsStep ==
  [Next]_all => /\ UNCHANGED part
                /\ part = "page" => [PP!Next]_(PP!vars)
                /\ part = "subscribers" => [SP!Next]_(SP!vars)
<1>1. ASSUME [Next]_all
      PROVE  /\ UNCHANGED part
             /\ part = "page" => [P!Next]_(P!vars)
             /\ part = "subscribers" => [S!Next]_(S!vars)
  <2>1. CASE Next BY <2>1 DEF Next
  <2>2. CASE UNCHANGED all BY <2>2 DEF all, P!vars, S!vars, P!channel, S!channel, P!server, S!server, P!client, S!client
  <2> QED BY <1>1, <2>1, <2>2
<1> QED BY <1>1, SamePage, SameSubscribers

\* The instances start in the invariant and keep it.
LEMMA StreamsHold == (Init => StreamsInv) /\ (StreamsInv /\ [Next]_all => StreamsInv')
<1>1. Init => StreamsInv
  <2>1. Init => (part = "page" /\ P!Init) \/ (part = "subscribers" /\ S!Init)
    BY DEF Init
  <2> QED BY <2>1, SamePage, SameSubscribers, PP!EventsInit, SP!EventsInit DEF StreamsInv
<1>2. ASSUME StreamsInv, [Next]_all PROVE StreamsInv'
  <2>1. ASSUME part = "page" PROVE PP!EventsInv'
    <3>1. PP!EventsInv /\ [PP!Next]_(PP!vars) BY <1>2, <2>1, StreamsStep DEF StreamsInv
    <3> QED BY <3>1, PP!EventsNext
  <2>2. ASSUME part = "subscribers" PROVE SP!EventsInv'
    <3>1. SP!EventsInv /\ [SP!Next]_(SP!vars) BY <1>2, <2>2, StreamsStep DEF StreamsInv
    <3> QED BY <3>1, SP!EventsNext
  <2>3. UNCHANGED part BY <1>2, StreamsStep
  <2> QED BY <2>1, <2>2, <2>3 DEF StreamsInv
<1> QED BY <1>1, <1>2

\* What the invariants of the instances say.
LEMMA StreamsSay ==
  StreamsInv => PageMirrorsChannel /\ ShownOutcomeIsPersisted /\ ReducerNeverRefuses /\ StreamsAccounted
<1>1. ASSUME StreamsInv, part = "page"
      PROVE  P!TypeOK /\ P!PageMirrorsChannel /\ P!ShownOutcomeIsPersisted /\ P!ReducerNeverRefuses
  <2>1. PP!EventsInv BY <1>1 DEF StreamsInv
  <2> QED BY <2>1, SamePage, PP!EventsImply
<1>2. ASSUME StreamsInv, part = "subscribers" PROVE S!SubscribersCounted /\ S!AtMostOneFrameLate
  <2>1. SP!EventsInv BY <1>2 DEF StreamsInv
  <2> QED BY <2>1, SameSubscribers, SP!EventsImply
<1> QED BY <1>1, <1>2 DEF PageMirrorsChannel, ShownOutcomeIsPersisted, ReducerNeverRefuses, StreamsAccounted

(* What the page of the instance shows is what the channel held at that event, whatever the
   ring evicts and the connection loses (reduceExecutionEvent, _read_after): PagesMirror of
   ExecutionEvents_proofs. *)
THEOREM PagesMirrorHere == Spec => []PageMirrorsChannel
  BY StreamsHold, StreamsSay, PTL DEF Spec

(* A definite outcome on the page of the instance is the persisted one (finish, set after the
   row is saved): OutcomesPersisted of ExecutionEvents_proofs. *)
THEOREM OutcomesPersistedHere == Spec => []ShownOutcomeIsPersisted
  BY StreamsHold, StreamsSay, PTL DEF Spec

(* The reducer of the instance refuses no frame the server sends (reduceExecutionEvent):
   ReducerTakesAll of ExecutionEvents_proofs. *)
THEOREM ReducerTakesAllHere == Spec => []ReducerNeverRefuses
  BY StreamsHold, StreamsSay, PTL DEF Spec

(* The streams of the instance are counted, within the limit, and send one frame at most to
   an account that lost its rights (subscribe, close, authorized_now): SubscribersAlwaysCounted
   and OneFrameLate of ExecutionEvents_proofs. *)
THEOREM StreamsAccountedHere == Spec => []StreamsAccounted
  BY StreamsHold, StreamsSay, PTL DEF Spec
=============================================================================
