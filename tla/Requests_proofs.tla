-------------------------- MODULE Requests_proofs --------------------------
(***************************************************************************)
(* Proofs about a question: how its execution is kept, how its answer is   *)
(* made, and which account asks.  Three models share this module and no    *)
(* state.                                                                  *)
(*                                                                         *)
(* The first part is about ExecutionLifecycle, for every set of jobs,      *)
(* histories, accounts and operations, every number of processes and of    *)
(* failures.  Every action moves the rows by one of a few row steps        *)
(* (RowStep) and the threads by a step of the shape MemStep: one lemma per *)
(* action shows so.  The inductive invariant IInv is then preserved by row *)
(* steps, not by thirty actions one by one.                                *)
(*                                                                         *)
(* The second part is about the memory of the API processes: the history   *)
(* lease, the capacity lease with its counters, and the status an event    *)
(* channel shows.  A lease has one holder at a time although two threads   *)
(* may release it: MInv says who still owes it.  Every action takes,       *)
(* returns or keeps a lease (LeaseStep) and shows nothing it has not read  *)
(* (ShowStep); one lemma per action shows so.                              *)
(*                                                                         *)
(* The third part is about QueryPipeline: a stop always wins, and what an  *)
(* answer is computed from is what retrieval found and the guard accepted. *)
(* The last part is about Accounts.                                        *)
(***************************************************************************)
EXTENDS ExecutionLifecycle, QueryPipeline, Accounts, FiniteSetTheorems, TLAPS

-----------------------------------------------------------------------------
(***************************************************************************)
(* The inductive invariant.                                                *)
(***************************************************************************)

\* A request before its row is inserted, and before its worker is scheduled.
FreshPc == {"idle", "looked", "capped", "reserved"}
EarlyPc == FreshPc \cup {"begun", "attached", "bound"}

\* A request past its first step knows its process, history and operation.
Placed ==
    \A j \in Job : req[j].pc # "idle" =>
        req[j].epoch \in Epoch /\ req[j].hist \in History /\ req[j].op \in Operation

Behind == \A j \in bound : req[j].pc # "idle"
Fresh == \A j \in Job : req[j].pc \in FreshPc => exec[j].status = "none"
Early == \A j \in Job : req[j].pc \in EarlyPc => worker[j].pc = "none"

\* A worker on its way to persist a stop has a reason to write.
StoppedKnowsWhy ==
    \A j \in Job : (worker[j].pc = "stopped" /\ exec[j].status \in Open) => why[j] \in Reason

\* A worker that saved its result has one to show.
SavedKnowsResult == \A j \in Job : worker[j].pc = "saved" => worker[j].result # "error"

IInv ==
    /\ TypeOK
    /\ Placed
    /\ Behind
    /\ Fresh
    /\ Early
    /\ SavedKnowsResult
    /\ StoppedKnowsWhy
    /\ RowsAgree
    /\ FirstReasonDecides
    /\ OneExecutionPerOperation
    /\ ContextStandsStill
-----------------------------------------------------------------------------
(***************************************************************************)
(* What a step does to the rows: every action is one of these row steps.   *)
(***************************************************************************)

RowsKept == UNCHANGED <<rec, deleted, turn, exec, dbEpoch>>

RowsInserted(j) ==
    /\ req[j].pc = "reserved"
    /\ CanBegin(j)
    /\ ExecutionOf(HistOf(j), req[j].op) = {}
    /\ InsertRows(j)
    /\ req'[j].pc \notin FreshPc

RowsMarked(j) ==
    /\ exec[j].status = "accepted"
    /\ exec' = [exec EXCEPT ![j].status = "running"]
    /\ UNCHANGED <<rec, deleted, turn, dbEpoch>>

RowsStopped(j) == CanStop(j) /\ \E r \in Reason : StopRow(j, r)

RowsFinished(j) == CanFinish(j) /\ \E s \in {"succeeded", "failed"} : FinishRows(j, s)

RowsConcluded(j) == exec[j].status = "stopping" /\ Current(j) /\ FinishStopRows(j)

RowsReconciled(h) ==
    /\ rec[h].active # None
    /\ h \notin Running(exec[rec[h].active].epoch)
    /\ UnconfirmRows({rec[h].active}, {h})
    /\ UNCHANGED dbEpoch

RowsRestarted == UnconfirmRows(Job, History) /\ dbEpoch' \in Epoch /\ dbEpoch' = dbEpoch + 1

RowsDeleted(h) ==
    /\ rec[h].active = None
    /\ deleted' = deleted \cup {h}
    /\ rec' = [rec EXCEPT ![h].gen = @ + 1]
    /\ turn' = [j \in Job |-> IF HistOf(j) = h THEN "none" ELSE turn[j]]
    /\ exec' = [j \in Job |-> IF HistOf(j) = h /\ exec[j].status # "none"
                              THEN [exec[j] EXCEPT !.status = "gone"] ELSE exec[j]]
    /\ UNCHANGED dbEpoch

RowStep ==
    \/ RowsKept
    \/ \E j \in Job : \/ RowsInserted(j) \/ RowsMarked(j) \/ RowsStopped(j)
                      \/ RowsFinished(j) \/ RowsConcluded(j)
    \/ \E h \in History : RowsReconciled(h) \/ RowsDeleted(h)
    \/ RowsRestarted
-----------------------------------------------------------------------------
(***************************************************************************)
(* What a step does to the threads.                                        *)
(***************************************************************************)

\* A submitted request keeps its parameters and never goes back.
ReqStep ==
    /\ req' \in [Job -> ReqType]
    /\ Placed'
    /\ \A k \in Job : req[k].pc # "idle" =>
          /\ req'[k].pc # "idle"
          /\ req'[k].hist = req[k].hist
          /\ req'[k].epoch = req[k].epoch
          /\ req'[k].op = req[k].op
          /\ req'[k].rev = req[k].rev
    /\ \A k \in Job : req'[k].pc \in FreshPc => req[k].pc \in FreshPc
    /\ \A k \in Job : req'[k].pc \in EarlyPc => req[k].pc \in EarlyPc

WorkerStep == worker' \in [Job -> WorkerType] /\ Early' /\ SavedKnowsResult'

\* A worker is sent to persist a stop only with a reason, or when the row is no
\* longer open.
WhyStep ==
    \A k \in Job : worker'[k].pc = "stopped" =>
        \/ why'[k] \in Reason
        \/ worker[k].pc = "stopped" /\ why'[k] = why[k]
        \/ worker[k].pc # "none" /\ exec[k].status \notin Open

DbOK ==
    /\ rec \in [History -> RecType]
    /\ deleted \subseteq History
    /\ turn \in [Job -> TurnType]
    /\ exec \in [Job -> ExecType]
    /\ dbEpoch \in Epoch

RuntimeOK ==
    /\ leased \subseteq Job
    /\ capped \subseteq Job
    /\ released \subseteq Job
    /\ bound \subseteq Job
    /\ why \in [Job -> Reason \cup {None}]
    /\ chan \in [Job -> ChanType]
    /\ sig \subseteq SigType
    /\ total \in [Epoch -> Int]
    /\ active \in [Epoch -> [Owner -> Int]]

EnvOK ==
    /\ proc \in [Epoch -> {"off", "up", "closing", "down"}]
    /\ guarded \subseteq Epoch
    /\ expired \subseteq Job
    /\ faults \in Nat

MemStep == ReqStep /\ WorkerStep /\ WhyStep /\ Behind' /\ RuntimeOK' /\ EnvOK'
LifeStep == RowStep /\ MemStep
-----------------------------------------------------------------------------


\* A live row belongs to a submitted request and is the active one.
LEMMA LiveFacts ==
  ASSUME IInv, NEW k \in Job, exec[k].status \in Live
  PROVE  /\ req[k].pc # "idle"
         /\ HistOf(k) \in History
         /\ req[k].epoch \in Epoch
         /\ rec[HistOf(k)].active = k
         /\ turn[k] = "accepted"
<1>1. req[k].pc # "idle" BY DEF IInv, Fresh, FreshPc, Live, Open
<1> QED BY <1>1 DEF IInv, Placed, HistOf, RowsAgree, LiveIsActive

\* A row that is stopping has a reason, and the reason a verdict.
LEMMA VerdictOfStopping ==
  ASSUME IInv, NEW k \in Job, exec[k].status = "stopping"
  PROVE  exec[k].reason \in Reason /\ Verdict[exec[k].reason] \in Confirmed
<1>1. exec[k].reason \in Reason
  BY DEF IInv, TypeOK, ExecType, FirstReasonDecides
<1> QED BY <1>1 DEF Reason, Verdict, Confirmed

\* Every row step keeps the types of the rows.
LEMMA RowTypes ==
  ASSUME IInv, RowStep
  PROVE  DbOK'
<1>0. DbOK BY DEF IInv, TypeOK, DbOK
<1>1. CASE RowsKept BY <1>0, <1>1 DEF RowsKept, DbOK
<1>2. ASSUME NEW j \in Job, RowsInserted(j) PROVE DbOK'
  <2>1. HistOf(j) \in History /\ req[j].epoch \in Epoch
    BY <1>2 DEF RowsInserted, IInv, Placed, HistOf
  <2>2. rec' \in [History -> RecType] BY <1>0, <1>2, <2>1 DEF RowsInserted, InsertRows, DbOK, RecType
  <2>3. exec' \in [Job -> ExecType]
    BY <1>0, <1>2, <2>1 DEF RowsInserted, InsertRows, DbOK, RecType, ExecType, RowStatus, Live, Open
  <2>4. turn' \in [Job -> TurnType] BY <1>0, <1>2 DEF RowsInserted, InsertRows, DbOK, TurnType
  <2> QED BY <1>0, <1>2, <2>2, <2>3, <2>4 DEF RowsInserted, InsertRows, DbOK
<1>3. ASSUME NEW j \in Job, RowsMarked(j) PROVE DbOK'
  BY <1>0, <1>3 DEF RowsMarked, DbOK, ExecType, RowStatus, Live, Open
<1>4. ASSUME NEW j \in Job, RowsStopped(j) PROVE DbOK'
  <2>1. PICK r \in Reason : StopRow(j, r) BY <1>4 DEF RowsStopped
  <2>2. exec' \in [Job -> ExecType] BY <1>0, <2>1 DEF StopRow, DbOK, ExecType, RowStatus, Live
  <2> QED BY <1>0, <2>1, <2>2 DEF StopRow, DbOK
<1>5. ASSUME NEW j \in Job, RowsFinished(j) PROVE DbOK'
  <2>1. PICK s \in {"succeeded", "failed"} : FinishRows(j, s) BY <1>5 DEF RowsFinished
  <2>2. HistOf(j) \in History BY <1>5, LiveFacts DEF RowsFinished, CanFinish, Live
  <2> DEFINE c == IF s = "succeeded" THEN rec[HistOf(j)].ctx + 1 ELSE rec[HistOf(j)].ctx
             r == [rec[HistOf(j)] EXCEPT !.active = None, !.ctx = c]
  <2>a. c \in Nat BY <1>0, <2>2 DEF DbOK, RecType
  <2>b. rec' = [rec EXCEPT ![HistOf(j)] = r] BY <1>0, <2>1, <2>2 DEF FinishRows, DbOK, RecType
  <2> HIDE DEF c
  <2>c. r \in RecType BY <1>0, <2>a, <2>2 DEF DbOK, RecType
  <2> HIDE DEF r
  <2>3. rec' \in [History -> RecType] BY <1>0, <2>b, <2>c DEF DbOK
  <2>4. exec' \in [Job -> ExecType]
    BY <1>0, <2>1 DEF FinishRows, DbOK, ExecType, RowStatus, Terminal, Confirmed
  <2>5. turn' \in [Job -> TurnType] BY <1>0, <2>1 DEF FinishRows, DbOK, TurnType
  <2> QED BY <1>0, <2>1, <2>3, <2>4, <2>5 DEF FinishRows, DbOK
<1>6. ASSUME NEW j \in Job, RowsConcluded(j) PROVE DbOK'
  <2>1. HistOf(j) \in History BY <1>6, LiveFacts DEF RowsConcluded, Live
  <2>2. Verdict[exec[j].reason] \in RowStatus
    BY <1>6, VerdictOfStopping DEF RowsConcluded, RowStatus, Terminal
  <2>3. rec' \in [History -> RecType]
    BY <1>0, <1>6, <2>1 DEF RowsConcluded, FinishStopRows, DbOK, RecType
  <2>4. exec' \in [Job -> ExecType]
    BY <1>0, <1>6, <2>2 DEF RowsConcluded, FinishStopRows, DbOK, ExecType
  <2>5. turn' \in [Job -> TurnType] BY <1>0, <1>6 DEF RowsConcluded, FinishStopRows, DbOK, TurnType
  <2> QED BY <1>0, <1>6, <2>3, <2>4, <2>5 DEF RowsConcluded, FinishStopRows, DbOK
<1>7. ASSUME NEW lost, NEW hs, UnconfirmRows(lost, hs), dbEpoch' \in Epoch PROVE DbOK'
  <2>1. rec' \in [History -> RecType]
    <3>1. ASSUME NEW h \in History PROVE rec'[h] \in RecType
      <4> DEFINE r == [rec[h] EXCEPT !.active = None, !.gen = @ + 1]
      <4>0. rec[h] \in RecType BY <1>0 DEF DbOK
      <4> DEFINE g == rec[h].gen + 1
      <4>g. g \in Nat BY <4>0 DEF RecType
      <4> HIDE DEF g
      <4>r. [rec[h] EXCEPT !.active = None, !.gen = g] \in RecType BY <4>0, <4>g DEF RecType
      <4>1. r \in RecType BY <4>r DEF g
      <4>2. rec'[h] = r \/ rec'[h] = rec[h] BY <1>7 DEF UnconfirmRows
      <4> HIDE DEF r
      <4> QED BY <4>0, <4>1, <4>2
    <3>2. rec' = [h \in History |-> rec'[h]] BY <1>7 DEF UnconfirmRows
    <3> QED BY <3>1, <3>2
  <2>2. exec' \in [Job -> ExecType]
    BY <1>0, <1>7 DEF UnconfirmRows, DbOK, ExecType, RowStatus, Terminal
  <2>3. turn' \in [Job -> TurnType] BY <1>0, <1>7 DEF UnconfirmRows, DbOK, TurnType
  <2> QED BY <1>0, <1>7, <2>1, <2>2, <2>3 DEF UnconfirmRows, DbOK
<1>8. ASSUME NEW h \in History, RowsDeleted(h) PROVE DbOK'
  <2>1. rec' \in [History -> RecType] BY <1>0, <1>8 DEF RowsDeleted, DbOK, RecType
  <2>2. exec' \in [Job -> ExecType] BY <1>0, <1>8 DEF RowsDeleted, DbOK, ExecType, RowStatus
  <2>3. turn' \in [Job -> TurnType] BY <1>0, <1>8 DEF RowsDeleted, DbOK, TurnType
  <2> QED BY <1>0, <1>8, <2>1, <2>2, <2>3 DEF RowsDeleted, DbOK
<1>9. ASSUME NEW h \in History, RowsReconciled(h) PROVE DbOK'
  BY <1>0, <1>7, <1>9 DEF RowsReconciled, DbOK
<1>10. CASE RowsRestarted BY <1>7, <1>10 DEF RowsRestarted
<1> QED
  BY <1>1, <1>2, <1>3, <1>4, <1>5, <1>6, <1>8, <1>9, <1>10 DEF RowStep

\* HistOf of a live row does not change.
LEMMA HistKept ==
  ASSUME IInv, ReqStep, NEW k \in Job, exec[k].status \in Live
  PROVE  HistOf(k)' = HistOf(k)
BY LiveFacts DEF ReqStep, HistOf

\* Every row step keeps record, turn and execution rows in agreement: the
\* transactions of history.py move the three together.
LEMMA RowsAgreeKept ==
  ASSUME IInv, RowStep, ReqStep
  PROVE  RowsAgree'
<1>1. ASSUME /\ \A k \in Job : exec'[k].status \in Live =>
                   /\ exec[k].status \in Live
                   /\ rec'[HistOf(k)].active = rec[HistOf(k)].active
                   /\ turn'[k] = turn[k]
             /\ \A h \in History : rec'[h].active # None =>
                   /\ rec'[h].active = rec[h].active
                   /\ rec'[h].gen = rec[h].gen
                   /\ h \in deleted' => h \in deleted
                   /\ dbEpoch' = dbEpoch
                   /\ LET k == rec[h].active IN
                      exec'[k].status \in Live /\ exec'[k].gen = exec[k].gen
                        /\ exec'[k].epoch = exec[k].epoch /\ turn'[k] = turn[k]
      PROVE  RowsAgree'
  <2>1. LiveIsActive'
    BY <1>1, LiveFacts, HistKept DEF LiveIsActive
  <2>2. ActiveIsLive'
    <3> SUFFICES ASSUME NEW h \in History, rec'[h].active # None
                 PROVE  LET k == rec'[h].active IN
                        /\ exec'[k].status \in Live
                        /\ turn'[k] = "accepted"
                        /\ req'[k].hist = h
                        /\ exec'[k].gen = rec'[h].gen
                        /\ exec'[k].epoch = dbEpoch'
                        /\ h \notin deleted'
      BY DEF ActiveIsLive, HistOf
    <3> DEFINE k == rec[h].active
    <3>1. rec'[h].active = k /\ k # None BY <1>1
    <3>2. k \in Job BY <3>1 DEF IInv, TypeOK, RecType
    <3>3. /\ exec[k].status \in Live /\ turn[k] = "accepted" /\ HistOf(k) = h
          /\ exec[k].gen = rec[h].gen /\ exec[k].epoch = dbEpoch /\ h \notin deleted
      BY <3>1 DEF IInv, RowsAgree, ActiveIsLive
    <3>4. req'[k].hist = h BY <3>2, <3>3, HistKept DEF HistOf
    <3> QED BY <1>1, <3>1, <3>2, <3>3, <3>4
  <2> QED BY <2>1, <2>2 DEF RowsAgree
<1>2. CASE RowsKept
  BY <1>1, <1>2 DEF RowsKept, IInv, RowsAgree, ActiveIsLive
<1>3. ASSUME NEW j \in Job, RowsInserted(j) PROVE RowsAgree'
  <2> DEFINE h == HistOf(j)
  <2>1. /\ req[j].pc = "reserved" /\ rec[h].active = None /\ h \notin deleted
        /\ dbEpoch = req[j].epoch /\ InsertRows(j)
    BY <1>3 DEF RowsInserted, CanBegin, Exists
  <2>2. h \in History /\ req'[j].hist = h
    BY <2>1 DEF IInv, Placed, HistOf, ReqStep
  <2>3. \A k \in Job : exec[k].status \in Live => HistOf(k) # h
    BY <2>1, LiveFacts, ConstantsAssumption
  <2>4. LiveIsActive'
    <3> SUFFICES ASSUME NEW k \in Job, exec'[k].status \in Live
                 PROVE  /\ req'[k].hist \in History
                        /\ rec'[req'[k].hist].active = k
                        /\ turn'[k] = "accepted"
      BY DEF LiveIsActive, HistOf
    <3>1. CASE k = j
      BY <2>1, <2>2, <3>1 DEF InsertRows, IInv, TypeOK, RecType
    <3>2. CASE k # j
      <4>1. exec'[k] = exec[k] /\ turn'[k] = turn[k]
        BY <2>1, <3>2 DEF InsertRows, IInv, TypeOK
      <4>2. req'[k].hist = HistOf(k) /\ HistOf(k) \in History /\ HistOf(k) # h
        BY <4>1, <2>3, LiveFacts, HistKept DEF HistOf
      <4>3. rec'[HistOf(k)] = rec[HistOf(k)] BY <2>1, <4>2 DEF InsertRows, IInv, TypeOK
      <4> QED BY <4>1, <4>2, <4>3, LiveFacts
    <3> QED BY <3>1, <3>2
  <2>5. ActiveIsLive'
    <3> SUFFICES ASSUME NEW g \in History, rec'[g].active # None
                 PROVE  LET k == rec'[g].active IN
                        /\ exec'[k].status \in Live
                        /\ turn'[k] = "accepted"
                        /\ req'[k].hist = g
                        /\ exec'[k].gen = rec'[g].gen
                        /\ exec'[k].epoch = dbEpoch'
                        /\ g \notin deleted'
      BY DEF ActiveIsLive, HistOf
    <3>1. CASE g = h
      BY <2>1, <2>2, <3>1 DEF InsertRows, IInv, TypeOK, RecType, Live, Open
    <3>2. CASE g # h
      <4> DEFINE k == rec[g].active
      <4>1. rec'[g] = rec[g] /\ deleted' = deleted /\ dbEpoch' = dbEpoch
        BY <2>1, <3>2 DEF InsertRows, IInv, TypeOK
      <4>2. k \in Job BY <4>1 DEF IInv, TypeOK, RecType
      <4>3. /\ exec[k].status \in Live /\ turn[k] = "accepted" /\ HistOf(k) = g
            /\ exec[k].gen = rec[g].gen /\ exec[k].epoch = dbEpoch /\ g \notin deleted
        BY <4>1 DEF IInv, RowsAgree, ActiveIsLive
      <4>4. k # j BY <4>2, <4>3, <3>2
      <4>5. exec'[k] = exec[k] /\ turn'[k] = turn[k]
        BY <2>1, <4>2, <4>4 DEF InsertRows, IInv, TypeOK
      <4>6. req'[k].hist = g BY <4>2, <4>3, HistKept DEF HistOf
      <4> QED BY <4>1, <4>3, <4>5, <4>6
    <3> QED BY <3>1, <3>2
  <2> QED BY <2>4, <2>5 DEF RowsAgree
<1>4. ASSUME NEW j \in Job, RowsMarked(j) PROVE RowsAgree'
  BY <1>1, <1>4 DEF RowsMarked, IInv, TypeOK, RowsAgree, ActiveIsLive, ExecType, RecType, Live, Open
<1>5. ASSUME NEW j \in Job, RowsStopped(j) PROVE RowsAgree'
  <2>1. PICK r \in Reason : StopRow(j, r) BY <1>5 DEF RowsStopped
  <2>2. exec[j].status \in Live BY <1>5 DEF RowsStopped, CanStop, Live
  <2> QED BY <1>1, <2>1, <2>2
      DEF StopRow, IInv, TypeOK, RowsAgree, ActiveIsLive, ExecType, RecType, Live
<1>6. ASSUME NEW j \in Job, exec[j].status \in Live,
             exec'[j].status \notin Live,
             rec'[HistOf(j)].active = None,
             \A k \in Job \ {j} : exec'[k] = exec[k] /\ turn'[k] = turn[k],
             \A g \in History \ {HistOf(j)} : rec'[g] = rec[g],
             UNCHANGED <<deleted, dbEpoch>>
      PROVE  RowsAgree'
  <2>1. HistOf(j) \in History /\ rec[HistOf(j)].active = j BY <1>6, LiveFacts
  <2>2. ASSUME NEW k \in Job, exec'[k].status \in Live
        PROVE  /\ exec[k].status \in Live
               /\ rec'[HistOf(k)].active = rec[HistOf(k)].active
               /\ turn'[k] = turn[k]
    <3>1. k # j /\ exec[k].status \in Live /\ turn'[k] = turn[k] BY <1>6, <2>2
    <3>2. HistOf(k) \in History /\ HistOf(k) # HistOf(j) BY <2>1, <3>1, LiveFacts
    <3> QED BY <1>6, <3>1, <3>2
  <2>3. ASSUME NEW g \in History, rec'[g].active # None
        PROVE  /\ rec'[g].active = rec[g].active
               /\ rec'[g].gen = rec[g].gen
               /\ g \in deleted' => g \in deleted
               /\ dbEpoch' = dbEpoch
               /\ LET k == rec[g].active IN
                  exec'[k].status \in Live /\ exec'[k].gen = exec[k].gen
                    /\ exec'[k].epoch = exec[k].epoch /\ turn'[k] = turn[k]
    <3> DEFINE k == rec[g].active
    <3>1. g # HistOf(j) /\ rec'[g] = rec[g] BY <1>6, <2>3
    <3>2. k \in Job BY <2>3, <3>1 DEF IInv, TypeOK, RecType
    <3>3. exec[k].status \in Live /\ HistOf(k) = g
      BY <2>3, <3>1 DEF IInv, RowsAgree, ActiveIsLive
    <3>4. k # j BY <3>1, <3>3
    <3>5. exec'[k] = exec[k] /\ turn'[k] = turn[k] BY <1>6, <3>2, <3>4
    <3> QED BY <1>6, <3>1, <3>3, <3>5
  <2> QED BY <1>1, <2>2, <2>3
<1>7. ASSUME NEW j \in Job, RowsFinished(j) PROVE RowsAgree'
  <2>1. PICK s \in {"succeeded", "failed"} : FinishRows(j, s) BY <1>7 DEF RowsFinished
  <2>2. exec[j].status \in Live BY <1>7 DEF RowsFinished, CanFinish, Live
  <2>3. HistOf(j) \in History BY <2>2, LiveFacts
  <2>4. exec'[j].status \notin Live BY <2>1 DEF FinishRows, IInv, TypeOK, ExecType, Live, Open
  <2>5. rec'[HistOf(j)].active = None BY <2>1, <2>3 DEF FinishRows, IInv, TypeOK, RecType
  <2>6. /\ \A k \in Job \ {j} : exec'[k] = exec[k] /\ turn'[k] = turn[k]
        /\ \A g \in History \ {HistOf(j)} : rec'[g] = rec[g]
        /\ UNCHANGED <<deleted, dbEpoch>>
    BY <2>1 DEF FinishRows, IInv, TypeOK
  <2> QED BY <1>6, <2>2, <2>4, <2>5, <2>6
<1>8. ASSUME NEW j \in Job, RowsConcluded(j) PROVE RowsAgree'
  <2>1. FinishStopRows(j) /\ exec[j].status = "stopping" BY <1>8 DEF RowsConcluded
  <2>2. exec[j].status \in Live BY <2>1 DEF Live
  <2>3. HistOf(j) \in History BY <2>2, LiveFacts
  <2>4. exec'[j].status \notin Live
    <3>1. Verdict[exec[j].reason] \in Confirmed BY <2>1, VerdictOfStopping
    <3>2. exec'[j].status = Verdict[exec[j].reason]
      BY <2>1 DEF FinishStopRows, IInv, TypeOK, ExecType
    <3> QED BY <3>1, <3>2 DEF Confirmed, Live, Open
  <2>5. rec'[HistOf(j)].active = None BY <2>1, <2>3 DEF FinishStopRows, IInv, TypeOK, RecType
  <2>6. /\ \A k \in Job \ {j} : exec'[k] = exec[k] /\ turn'[k] = turn[k]
        /\ \A g \in History \ {HistOf(j)} : rec'[g] = rec[g]
        /\ UNCHANGED <<deleted, dbEpoch>>
    BY <2>1 DEF FinishStopRows, IInv, TypeOK
  <2> QED BY <1>6, <2>2, <2>4, <2>5, <2>6
<1>9. ASSUME NEW h \in History, RowsReconciled(h) PROVE RowsAgree'
  <2> DEFINE j == rec[h].active
  <2>1. j # None /\ UnconfirmRows({j}, {h}) /\ UNCHANGED dbEpoch BY <1>9 DEF RowsReconciled
  <2>2. j \in Job BY <2>1 DEF IInv, TypeOK, RecType
  <2>3. exec[j].status \in Live /\ HistOf(j) = h BY <2>1 DEF IInv, RowsAgree, ActiveIsLive
  <2> HIDE DEF j
  <2>4. exec'[j].status \notin Live
    BY <2>1, <2>2, <2>3 DEF UnconfirmRows, IInv, TypeOK, ExecType, Live, Open
  <2>5. rec'[h].active = None BY <2>1 DEF UnconfirmRows, IInv, TypeOK, RecType, j
  <2>6. /\ \A k \in Job \ {j} : exec'[k] = exec[k] /\ turn'[k] = turn[k]
        /\ \A g \in History \ {h} : rec'[g] = rec[g]
        /\ UNCHANGED <<deleted, dbEpoch>>
    BY <2>1 DEF UnconfirmRows
  <2> QED BY <1>6, <2>2, <2>3, <2>4, <2>5, <2>6
<1>10. CASE RowsRestarted
  <2>1. UnconfirmRows(Job, History) BY <1>10 DEF RowsRestarted
  <2>2. \A k \in Job : exec'[k].status \notin Live
    BY <2>1 DEF UnconfirmRows, IInv, TypeOK, ExecType, Live, Open
  <2>3. \A h \in History : rec'[h].active = None
    BY <2>1 DEF UnconfirmRows, IInv, TypeOK, RecType
  <2> QED BY <2>2, <2>3 DEF RowsAgree, LiveIsActive, ActiveIsLive
<1>11. ASSUME NEW h \in History, RowsDeleted(h) PROVE RowsAgree'
  <2>1. rec[h].active = None /\ deleted' = deleted \cup {h} /\ UNCHANGED dbEpoch
    BY <1>11 DEF RowsDeleted
  <2>2. \A g \in History : rec'[g].active = rec[g].active /\ (g # h => rec'[g] = rec[g])
    BY <1>11 DEF RowsDeleted, IInv, TypeOK, RecType
  <2>3. \A k \in Job : /\ exec'[k].status \in Live => exec[k].status \in Live
                       /\ HistOf(k) # h => exec'[k] = exec[k] /\ turn'[k] = turn[k]
    BY <1>11 DEF RowsDeleted, IInv, TypeOK, ExecType, Live, Open
  <2>4. \A k \in Job : exec[k].status \in Live => HistOf(k) # h
    BY <2>1, LiveFacts, ConstantsAssumption
  <2>5. ASSUME NEW k \in Job, exec'[k].status \in Live
        PROVE  /\ exec[k].status \in Live
               /\ rec'[HistOf(k)].active = rec[HistOf(k)].active
               /\ turn'[k] = turn[k]
    BY <2>2, <2>3, <2>4, <2>5, LiveFacts
  <2>6. ASSUME NEW g \in History, rec'[g].active # None
        PROVE  /\ rec'[g].active = rec[g].active
               /\ rec'[g].gen = rec[g].gen
               /\ g \in deleted' => g \in deleted
               /\ dbEpoch' = dbEpoch
               /\ LET k == rec[g].active IN
                  exec'[k].status \in Live /\ exec'[k].gen = exec[k].gen
                    /\ exec'[k].epoch = exec[k].epoch /\ turn'[k] = turn[k]
    <3> DEFINE k == rec[g].active
    <3>1. g # h /\ rec'[g] = rec[g] BY <2>1, <2>2, <2>6
    <3>2. k \in Job BY <2>6, <3>1 DEF IInv, TypeOK, RecType
    <3>3. exec[k].status \in Live /\ HistOf(k) = g
      BY <2>6, <3>1 DEF IInv, RowsAgree, ActiveIsLive
    <3>5. exec'[k] = exec[k] /\ turn'[k] = turn[k] BY <2>3, <3>1, <3>2, <3>3
    <3> QED BY <2>1, <3>1, <3>3, <3>5
  <2> QED BY <1>1, <2>5, <2>6
<1> QED
  BY <1>2, <1>3, <1>4, <1>5, <1>7, <1>8, <1>9, <1>10, <1>11 DEF RowStep

(* One row: which statuses and reasons a step may write. *)
RowMove(k) ==
    \/ exec'[k].status = exec[k].status /\ exec'[k].reason = exec[k].reason
    \/ /\ req[k].pc = "reserved" /\ req'[k].pc \notin FreshPc
       /\ exec'[k].status = "accepted" /\ exec'[k].reason = None
    \/ /\ exec[k].status = "accepted"
       /\ exec'[k].status = "running" /\ exec'[k].reason = exec[k].reason
    \/ /\ exec[k].status \in Open
       /\ exec'[k].status = "stopping" /\ exec'[k].reason \in Reason
    \/ /\ exec[k].status \in Open
       /\ exec'[k].status \in {"succeeded", "failed"} /\ exec'[k].reason = exec[k].reason
    \/ /\ exec[k].status = "stopping"
       /\ exec'[k].status = Verdict[exec[k].reason] /\ exec'[k].reason = exec[k].reason
    \/ /\ exec[k].status \in Live
       /\ exec'[k].status = "unconfirmed" /\ exec'[k].reason = exec[k].reason
    \/ /\ exec[k].status \notin {"none"} \cup Live
       /\ exec'[k].status = "gone" /\ exec'[k].reason = exec[k].reason

\* The status and reason of one row move only as the transactions allow.
LEMMA RowMoves ==
  ASSUME IInv, RowStep, NEW k \in Job
  PROVE  RowMove(k)
<1> USE DEF RowMove
<1>0. exec \in [Job -> ExecType] BY DEF IInv, TypeOK
<1>1. CASE RowsKept BY <1>1 DEF RowsKept
<1>2. ASSUME NEW j \in Job, RowsInserted(j) PROVE RowMove(k)
  BY <1>0, <1>2 DEF RowsInserted, InsertRows
<1>3. ASSUME NEW j \in Job, RowsMarked(j) PROVE RowMove(k)
  BY <1>0, <1>3 DEF RowsMarked, ExecType
<1>4. ASSUME NEW j \in Job, RowsStopped(j) PROVE RowMove(k)
  <2>1. PICK r \in Reason : StopRow(j, r) BY <1>4 DEF RowsStopped
  <2> QED BY <1>0, <1>4, <2>1 DEF RowsStopped, CanStop, StopRow, ExecType
<1>5. ASSUME NEW j \in Job, RowsFinished(j) PROVE RowMove(k)
  <2>1. PICK s \in {"succeeded", "failed"} : FinishRows(j, s) BY <1>5 DEF RowsFinished
  <2> QED BY <1>0, <1>5, <2>1 DEF RowsFinished, CanFinish, FinishRows, ExecType
<1>6. ASSUME NEW j \in Job, RowsConcluded(j) PROVE RowMove(k)
  BY <1>0, <1>6 DEF RowsConcluded, FinishStopRows, ExecType
<1>7. ASSUME NEW lost, NEW hs, UnconfirmRows(lost, hs) PROVE RowMove(k)
  BY <1>0, <1>7 DEF UnconfirmRows, ExecType
<1>8. ASSUME NEW h \in History, RowsDeleted(h) PROVE RowMove(k)
  <2>1. exec[k].status \in Live => HistOf(k) # h
    BY <1>8, LiveFacts, ConstantsAssumption DEF RowsDeleted
  <2> QED BY <1>0, <1>8, <2>1 DEF RowsDeleted, ExecType
<1> QED
  BY <1>1, <1>2, <1>3, <1>4, <1>5, <1>6, <1>7, <1>8
  DEF RowStep, RowsReconciled, RowsRestarted

\* A row step never saves a result over a stop, and never invents a stop.
LEMMA FirstReasonKept ==
  ASSUME IInv, RowStep, ReqStep
  PROVE  FirstReasonDecides' /\ Fresh'
<1>1. ASSUME NEW k \in Job
      PROVE  /\ exec'[k].reason # None =>
                  exec'[k].status \in {"stopping", Verdict[exec'[k].reason], "unconfirmed", "gone"}
             /\ exec'[k].reason = None =>
                  exec'[k].status \notin {"stopping", "cancelled", "timed_out"}
  <2>1. RowMove(k) BY RowMoves
  <2>2. /\ exec[k].reason # None =>
             exec[k].status \in {"stopping", Verdict[exec[k].reason], "unconfirmed", "gone"}
        /\ exec[k].reason = None =>
             exec[k].status \notin {"stopping", "cancelled", "timed_out"}
        /\ exec[k].reason \in Reason \cup {None}
    BY DEF IInv, FirstReasonDecides, TypeOK, ExecType
  <2>3. exec[k].reason # None => Verdict[exec[k].reason] \notin Open
    BY <2>2 DEF Reason, Verdict, Open
  <2>4. None \notin Reason BY ConstantsAssumption DEF Reason
  <2> QED BY <2>1, <2>2, <2>3, <2>4 DEF RowMove, Open, Live
<1>2. ASSUME NEW k \in Job, req'[k].pc \in FreshPc PROVE exec'[k].status = "none"
  <2>1. req[k].pc \in FreshPc BY <1>2 DEF ReqStep
  <2>2. exec[k].status = "none" BY <2>1 DEF IInv, Fresh
  <2>3. RowMove(k) BY RowMoves
  <2> QED BY <1>2, <2>2, <2>3 DEF RowMove, Open, Live
<1> QED BY <1>1, <1>2 DEF FirstReasonDecides, Fresh

\* A worker sent to _persist_stopped has a reason while the row is open.
LEMMA StoppedKept ==
  ASSUME IInv, RowStep, ReqStep, WhyStep
  PROVE  StoppedKnowsWhy'
<1> SUFFICES ASSUME NEW k \in Job, worker'[k].pc = "stopped", exec'[k].status \in Open
             PROVE  why'[k] \in Reason
  BY DEF StoppedKnowsWhy
<1>1. RowMove(k) BY RowMoves
<1>2. exec[k].status \in Open \/ req[k].pc = "reserved"
  <2>1. exec[k].status = "stopping" => Verdict[exec[k].reason] \notin Open
    BY VerdictOfStopping DEF Confirmed, Open
  <2> QED BY <1>1, <2>1 DEF RowMove, Open, Live
<1>3. req[k].pc = "reserved" => worker[k].pc = "none" BY DEF IInv, Early, EarlyPc, FreshPc
<1>4. CASE why'[k] \in Reason BY <1>4
<1>5. CASE worker[k].pc = "stopped" /\ why'[k] = why[k]
  BY <1>2, <1>3, <1>5 DEF IInv, StoppedKnowsWhy
<1>6. CASE worker[k].pc # "none" /\ exec[k].status \notin Open
  BY <1>2, <1>3, <1>6
<1> QED BY <1>4, <1>5, <1>6 DEF WhyStep

\* The lookup inside begin_execution_attempt's transaction keeps operation ids
\* unique per account.
LEMMA OneExecutionKept ==
  ASSUME IInv, RowStep, ReqStep
  PROVE  OneExecutionPerOperation'
<1> DEFINE Own(k) == OwnerOf[HistOf(k)]
<1>1. ASSUME NEW k \in Job, HasRow(k)'
      PROVE  HasRow(k) \/ RowsInserted(k)
  <2>1. exec'[k].status \notin {"none", "gone"} BY <1>1 DEF HasRow
  <2>2. CASE \E j \in Job : RowsInserted(j)
    <3>1. PICK j \in Job : RowsInserted(j) BY <2>2
    <3>2. CASE k = j BY <3>1, <3>2
    <3>3. CASE k # j
      BY <2>1, <3>1, <3>3 DEF RowsInserted, InsertRows, HasRow, IInv, TypeOK
    <3> QED BY <3>2, <3>3
  <2>3. CASE ~\E j \in Job : RowsInserted(j)
    <3>0. exec \in [Job -> ExecType] BY DEF IInv, TypeOK
    <3>1. CASE RowsKept BY <2>1, <3>1 DEF RowsKept, HasRow
    <3>2. ASSUME NEW j \in Job, RowsMarked(j) PROVE HasRow(k)
      BY <2>1, <3>0, <3>2 DEF RowsMarked, HasRow, ExecType
    <3>3. ASSUME NEW j \in Job, RowsStopped(j) PROVE HasRow(k)
      <4>1. PICK r \in Reason : StopRow(j, r) BY <3>3 DEF RowsStopped
      <4> QED BY <2>1, <3>0, <3>3, <4>1 DEF RowsStopped, CanStop, StopRow, HasRow, ExecType, Open
    <3>4. ASSUME NEW j \in Job, RowsFinished(j) PROVE HasRow(k)
      <4>1. PICK s \in {"succeeded", "failed"} : FinishRows(j, s) BY <3>4 DEF RowsFinished
      <4> QED BY <2>1, <3>0, <3>4, <4>1 DEF RowsFinished, CanFinish, FinishRows, HasRow, ExecType, Open
    <3>5. ASSUME NEW j \in Job, RowsConcluded(j) PROVE HasRow(k)
      BY <2>1, <3>0, <3>5 DEF RowsConcluded, FinishStopRows, HasRow, ExecType
    <3>6. ASSUME NEW lost, NEW hs, UnconfirmRows(lost, hs) PROVE HasRow(k)
      BY <2>1, <3>0, <3>6 DEF UnconfirmRows, HasRow, ExecType, Live, Open
    <3>7. ASSUME NEW h \in History, RowsDeleted(h) PROVE HasRow(k)
      BY <2>1, <3>0, <3>7 DEF RowsDeleted, HasRow, ExecType
    <3> QED BY <2>3, <3>1, <3>2, <3>3, <3>4, <3>5, <3>6, <3>7
        DEF RowStep, RowsReconciled, RowsRestarted
  <2> QED BY <2>2, <2>3
<1>2. ASSUME NEW k \in Job, HasRow(k)'
      PROVE  req'[k].op = req[k].op /\ OwnerOf[req'[k].hist] = Own(k)
  BY <1>1, <1>2 DEF HasRow, RowsInserted, IInv, Fresh, FreshPc, ReqStep, HistOf
<1>3. ASSUME NEW j \in Job, NEW k \in Job, RowsInserted(j), HasRow(k)
      PROVE  ~(req[j].op = req[k].op /\ Own(j) = Own(k))
  BY <1>3 DEF RowsInserted, ExecutionOf
<1>4. ASSUME NEW j \in Job, NEW k \in Job, RowsInserted(j), RowsInserted(k)
      PROVE  j = k
  BY <1>4 DEF RowsInserted, InsertRows, IInv, TypeOK, Fresh, FreshPc
<1> SUFFICES ASSUME NEW j \in Job, NEW k \in Job, HasRow(j)', HasRow(k)',
                    req'[j].op = req'[k].op,
                    OwnerOf[req'[j].hist] = OwnerOf[req'[k].hist]
             PROVE  j = k
  BY DEF OneExecutionPerOperation, HistOf
<1>5. req[j].op = req[k].op /\ Own(j) = Own(k) BY <1>2
<1>6. CASE HasRow(j) /\ HasRow(k) BY <1>5, <1>6 DEF IInv, OneExecutionPerOperation
<1> QED BY <1>1, <1>3, <1>4, <1>5, <1>6

\* The context of a live execution is not moved by anyone else.
LEMMA ContextKept ==
  ASSUME IInv, RowStep, ReqStep
  PROVE  ContextStandsStill'
<1>0. rec \in [History -> RecType] /\ exec \in [Job -> ExecType] BY DEF IInv, TypeOK
<1>1. ASSUME \A h \in History : rec'[h].ctx = rec[h].ctx,
             \A k \in Job : exec'[k].status \in Live => exec[k].status \in Live
      PROVE  ContextStandsStill'
  <2> SUFFICES ASSUME NEW k \in Job, exec'[k].status \in Live
               PROVE  rec'[req'[k].hist].ctx = req'[k].rev
    BY DEF ContextStandsStill, HistOf
  <2>1. exec[k].status \in Live BY <1>1
  <2>2. req'[k].hist = HistOf(k) /\ req'[k].rev = req[k].rev /\ HistOf(k) \in History
    BY <2>1, LiveFacts DEF ReqStep, HistOf
  <2> QED BY <1>1, <2>1, <2>2 DEF IInv, ContextStandsStill
<1>2. CASE RowsKept BY <1>1, <1>2 DEF RowsKept
<1>3. ASSUME NEW j \in Job, RowsInserted(j) PROVE ContextStandsStill'
  <2>1. /\ req[j].pc = "reserved" /\ rec[HistOf(j)].ctx = req[j].rev /\ InsertRows(j)
    BY <1>3 DEF RowsInserted, CanBegin
  <2>2. HistOf(j) \in History /\ req'[j].hist = HistOf(j) /\ req'[j].rev = req[j].rev
    BY <2>1 DEF IInv, Placed, ReqStep, HistOf
  <2>3. \A h \in History : rec'[h].ctx = rec[h].ctx BY <1>0, <2>1 DEF InsertRows, RecType
  <2> SUFFICES ASSUME NEW k \in Job, exec'[k].status \in Live
               PROVE  rec'[req'[k].hist].ctx = req'[k].rev
    BY DEF ContextStandsStill, HistOf
  <2>4. CASE k = j BY <2>1, <2>2, <2>3, <2>4
  <2>5. CASE k # j
    <3>1. exec[k].status \in Live BY <1>0, <2>1, <2>5 DEF InsertRows
    <3>2. req'[k].hist = HistOf(k) /\ req'[k].rev = req[k].rev /\ HistOf(k) \in History
      BY <3>1, LiveFacts DEF ReqStep, HistOf
    <3> QED BY <2>3, <3>1, <3>2 DEF IInv, ContextStandsStill
  <2> QED BY <2>4, <2>5
<1>4. ASSUME NEW j \in Job, RowsMarked(j) PROVE ContextStandsStill'
  BY <1>0, <1>1, <1>4 DEF RowsMarked, ExecType, Live, Open
<1>5. ASSUME NEW j \in Job, RowsStopped(j) PROVE ContextStandsStill'
  <2>1. PICK r \in Reason : StopRow(j, r) BY <1>5 DEF RowsStopped
  <2> QED BY <1>0, <1>1, <1>5, <2>1 DEF RowsStopped, CanStop, StopRow, ExecType, Live
<1>6. ASSUME NEW j \in Job, RowsFinished(j) PROVE ContextStandsStill'
  <2>1. PICK s \in {"succeeded", "failed"} : FinishRows(j, s) BY <1>6 DEF RowsFinished
  <2>2. exec[j].status \in Live BY <1>6 DEF RowsFinished, CanFinish, Live
  <2>3. /\ \A k \in Job : k # j => exec'[k] = exec[k]
        /\ exec'[j].status \notin Live
        /\ \A h \in History : h # HistOf(j) => rec'[h] = rec[h]
    BY <1>0, <2>1 DEF FinishRows, ExecType, Live, Open
  <2> SUFFICES ASSUME NEW k \in Job, exec'[k].status \in Live
               PROVE  rec'[req'[k].hist].ctx = req'[k].rev
    BY DEF ContextStandsStill, HistOf
  <2>4. k # j /\ exec[k].status \in Live BY <2>3
  <2>5. req'[k].hist = HistOf(k) /\ req'[k].rev = req[k].rev /\ HistOf(k) \in History
    BY <2>4, LiveFacts DEF ReqStep, HistOf
  <2>6. HistOf(k) # HistOf(j) BY <2>2, <2>4, LiveFacts
  <2> QED BY <2>3, <2>4, <2>5, <2>6 DEF IInv, ContextStandsStill
<1>7. ASSUME NEW j \in Job, RowsConcluded(j) PROVE ContextStandsStill'
  <2>1. FinishStopRows(j) /\ exec[j].status = "stopping" BY <1>7 DEF RowsConcluded
  <2>2. exec[j].status \in Live BY <2>1 DEF Live
  <2>3. \A k \in Job : exec'[k].status \in Live => exec[k].status \in Live
    BY <1>0, <2>1, <2>2 DEF FinishStopRows
  <2>4. \A h \in History : rec'[h].ctx = rec[h].ctx
    BY <1>0, <2>1 DEF FinishStopRows, RecType
  <2> QED BY <1>1, <2>3, <2>4
<1>8. ASSUME NEW lost, NEW hs, UnconfirmRows(lost, hs) PROVE ContextStandsStill'
  <2>1. \A k \in Job : exec'[k].status \in Live => exec[k].status \in Live
    BY <1>0, <1>8 DEF UnconfirmRows, ExecType
  <2>2. \A h \in History : rec'[h].ctx = rec[h].ctx
    BY <1>0, <1>8 DEF UnconfirmRows, RecType
  <2> QED BY <1>1, <2>1, <2>2
<1>9. ASSUME NEW h \in History, RowsDeleted(h) PROVE ContextStandsStill'
  <2>1. \A k \in Job : exec'[k].status \in Live => exec[k].status \in Live
    BY <1>0, <1>9 DEF RowsDeleted, ExecType, Live, Open
  <2>2. \A g \in History : rec'[g].ctx = rec[g].ctx
    BY <1>0, <1>9 DEF RowsDeleted, RecType
  <2> QED BY <1>1, <2>1, <2>2
<1> QED
  BY <1>2, <1>3, <1>4, <1>5, <1>6, <1>7, <1>8, <1>9
  DEF RowStep, RowsReconciled, RowsRestarted

\* Row step and thread step together preserve the invariant.
LEMMA Invariance ==
  ASSUME IInv, RowStep, MemStep
  PROVE  IInv'
<1>1. DbOK' BY RowTypes
<1>2. RowsAgree' BY RowsAgreeKept DEF MemStep
<1>3. FirstReasonDecides' /\ Fresh' BY FirstReasonKept DEF MemStep
<1>4. StoppedKnowsWhy' BY StoppedKept DEF MemStep
<1>5. TypeOK' BY <1>1 DEF MemStep, TypeOK, DbOK, RuntimeOK, EnvOK, ReqStep, WorkerStep
<1>6. OneExecutionPerOperation' BY OneExecutionKept DEF MemStep
<1>7. ContextStandsStill' BY ContextKept DEF MemStep
<1> QED BY <1>2, <1>3, <1>4, <1>5, <1>6, <1>7 DEF IInv, MemStep, ReqStep, WorkerStep
-----------------------------------------------------------------------------
(***************************************************************************)
(* The pieces of MemStep for the ways an action moves its thread.          *)
(***************************************************************************)

\* A request that does not move keeps its parameters.
LEMMA ReqKept == ASSUME IInv, UNCHANGED req PROVE ReqStep
BY DEF IInv, TypeOK, ReqStep, Placed

\* A request that moves on keeps its parameters.
LEMMA ReqMoveStep ==
  ASSUME IInv, NEW j \in Job, NEW next, NEW seen,
         req' = [req EXCEPT ![j].pc = next, ![j].seen = seen],
         next \in RequestPc, next # "idle", seen \in Reason \cup {None},
         req[j].pc # "idle",
         next \in FreshPc => req[j].pc \in FreshPc,
         next \in EarlyPc => req[j].pc \in EarlyPc
  PROVE  ReqStep /\ req'[j].pc = next
<1>0. req \in [Job -> ReqType] BY DEF IInv, TypeOK
<1>1. req' \in [Job -> ReqType] /\ req'[j].pc = next BY <1>0 DEF ReqType
<1>2. \A k \in Job : req'[k].hist = req[k].hist /\ req'[k].epoch = req[k].epoch
                     /\ req'[k].op = req[k].op /\ req'[k].rev = req[k].rev
  BY <1>0 DEF ReqType
<1>3. \A k \in Job : k # j => req'[k] = req[k] BY <1>0
<1>4. Placed' BY <1>1, <1>2, <1>3 DEF IInv, Placed
<1> QED BY <1>1, <1>2, <1>3, <1>4 DEF ReqStep

\* The same for GoReq.
LEMMA GoReqStep ==
  ASSUME IInv, NEW j \in Job, NEW next \in RequestPc \ {"idle"}, GoReq(j, next),
         req[j].pc # "idle",
         next \in FreshPc => req[j].pc \in FreshPc,
         next \in EarlyPc => req[j].pc \in EarlyPc
  PROVE  ReqStep /\ req'[j].pc = next
<1>1. req[j].seen \in Reason \cup {None} BY DEF IInv, TypeOK, ReqType
<1>2. req' = [req EXCEPT ![j].pc = next, ![j].seen = req[j].seen]
  BY DEF GoReq, IInv, TypeOK, ReqType
<1> QED BY <1>1, <1>2, ReqMoveStep

\* Workers that do not move stay behind their requests.
LEMMA WorkerKept == ASSUME IInv, ReqStep, UNCHANGED worker PROVE WorkerStep
BY DEF IInv, TypeOK, ReqStep, WorkerStep, Early, SavedKnowsResult

\* A worker that moves is past the early part of its request.
LEMMA GoWorkerStep ==
  ASSUME IInv, ReqStep, NEW j \in Job, NEW next \in WorkerPc, GoWorker(j, next),
         req'[j].pc \notin EarlyPc, next = "saved" => worker[j].result # "error"
  PROVE  /\ WorkerStep
         /\ worker'[j].pc = next
         /\ \A k \in Job : k # j => worker'[k] = worker[k]
<1>1. /\ worker' \in [Job -> WorkerType] /\ worker'[j].pc = next
      /\ worker'[j].result = worker[j].result
  BY DEF IInv, TypeOK, WorkerType, GoWorker
<1>2. \A k \in Job : k # j => worker'[k] = worker[k] BY DEF IInv, TypeOK, GoWorker
<1>3. Early' BY <1>2 DEF IInv, Early, ReqStep
<1>4. SavedKnowsResult' BY <1>1, <1>2 DEF IInv, SavedKnowsResult
<1> QED BY <1>1, <1>2, <1>3, <1>4 DEF WorkerStep

\* A thread that has a worker is past the early part.
LEMMA WorkerNotEarly ==
  ASSUME IInv, ReqStep, NEW j \in Job, worker[j].pc # "none"
  PROVE  /\ req[j].pc # "idle" /\ req[j].pc \notin EarlyPc /\ req'[j].pc \notin EarlyPc
BY DEF IInv, Early, ReqStep, EarlyPc, FreshPc

\* Nobody is sent to persist a stop without a reason.
LEMMA WhyKept ==
  ASSUME UNCHANGED why,
         \A k \in Job : worker'[k].pc = "stopped" =>
             \/ worker[k].pc = "stopped"
             \/ why[k] \in Reason
             \/ worker[k].pc # "none" /\ exec[k].status \notin Open
  PROVE  WhyStep
BY DEF WhyStep

\* Stop controls belong to submitted requests.
LEMMA BehindKept == ASSUME IInv, ReqStep, bound' \subseteq bound PROVE Behind'
BY DEF IInv, TypeOK, ReqStep, Behind

\* The failure counter stays a number.
LEMMA FaultsOK == ASSUME IInv, Fault \/ NoFault PROVE faults' \in Nat
BY DEF IInv, TypeOK, Fault, NoFault

\* The environment keeps its types.
LEMMA EnvKept == ASSUME IInv, UNCHANGED env, faults' \in Nat PROVE EnvOK'
BY DEF IInv, TypeOK, EnvOK, env

\* The runtime keeps its types.
LEMMA RuntimeKept == ASSUME IInv, UNCHANGED runtime PROVE RuntimeOK' /\ UNCHANGED <<why, bound>>
BY DEF IInv, TypeOK, RuntimeOK, runtime, leases, control, counters

\* Leaving the rows alone is a row step.
LEMMA DbKept == ASSUME UNCHANGED db PROVE RowStep
BY DEF db, RowStep, RowsKept

\* ExecutionEventChannel.finish shows a status.
LEMMA FinishChannelType ==
  ASSUME IInv, NEW j \in Job, NEW st \in ChanType, FinishChannel(j, st)
  PROVE  chan' \in [Job -> ChanType]
BY DEF IInv, TypeOK, FinishChannel

\* _ExecutionStopControl.signal leaves a reason.
LEMMA SignalType ==
  ASSUME IInv, NEW j \in Job, NEW r \in Reason \cup {None}, Signal(j, r)
  PROVE  /\ chan' \in [Job -> ChanType]
         /\ why' \in [Job -> Reason \cup {None}]
         /\ \A k \in Job : why'[k] = why[k] \/ why'[k] = r
         /\ why'[j] = None => r = None
<1>1. "stopping" \in ChanType BY DEF ChanType, Live
<1>2. chan' \in [Job -> ChanType] BY <1>1 DEF IInv, TypeOK, Signal
<1> QED BY <1>2 DEF IInv, TypeOK, Signal

\* reserve_owner and _release_owner keep the counters integers.
LEMMA CapacityType ==
  ASSUME IInv, NEW j \in Job, req[j].pc # "idle", TakeCapacity(j) \/ GiveCapacity(j)
  PROVE  total' \in [Epoch -> Int] /\ active' \in [Epoch -> [Owner -> Int]]
<1> DEFINE p == req[j].epoch
           o == OwnerOf[HistOf(j)]
           more == [active[p] EXCEPT ![o] = @ + 1]
           less == [active[p] EXCEPT ![o] = @ - 1]
<1>1. p \in Epoch /\ o \in Owner BY ConstantsAssumption DEF IInv, Placed, HistOf
<1>2. total \in [Epoch -> Int] /\ active \in [Epoch -> [Owner -> Int]] BY DEF IInv, TypeOK
<1>3. more \in [Owner -> Int] /\ less \in [Owner -> Int] BY <1>1, <1>2
<1>4. \/ total' = [total EXCEPT ![p] = @ + 1] /\ active' = [active EXCEPT ![p] = more]
      \/ total' = [total EXCEPT ![p] = @ - 1] /\ active' = [active EXCEPT ![p] = less]
  BY DEF TakeCapacity, GiveCapacity
<1> HIDE DEF more, less
<1>5. active' \in [Epoch -> [Owner -> Int]] BY <1>2, <1>3, <1>4
<1>6. total' \in [Epoch -> Int] BY <1>2, <1>4
<1> QED BY <1>5, <1>6
-----------------------------------------------------------------------------
(***************************************************************************)
(* One lemma per action.                                                   *)
(***************************************************************************)

\* Submit is such a step.
LEMMA SubmitStep ==
  ASSUME IInv, NEW j \in Job, NEW p \in Epoch, NEW h \in History, NEW o \in Operation,
         NEW rev \in 0..rec[h].ctx, Submit(j, p, h, o, rev)
  PROVE  LifeStep
<1>1. /\ req[j].pc = "idle"
      /\ UNCHANGED <<db, worker, runtime, env, faults>>
  BY DEF Submit
<1>2. PICK next \in {"looked", "done"} :
         req' = [req EXCEPT ![j] = [pc |-> next, epoch |-> p, hist |-> h, op |-> o,
                                    rev |-> rev, seen |-> None]]
  BY DEF Submit
<1>3. rev \in Nat BY DEF IInv, TypeOK, RecType
<1>4. req \in [Job -> ReqType] BY DEF IInv, TypeOK
<1>5. req' \in [Job -> ReqType] BY <1>2, <1>3, <1>4 DEF ReqType, RequestPc
<1>6. \A k \in Job : k # j => req'[k] = req[k] BY <1>2, <1>4
<1>7. /\ req'[j].epoch \in Epoch /\ req'[j].hist \in History /\ req'[j].op \in Operation
  BY <1>2, <1>4
<1>8. Placed' BY <1>6, <1>7 DEF IInv, Placed
<1>9. ReqStep BY <1>1, <1>5, <1>6, <1>8 DEF ReqStep, EarlyPc, FreshPc
<1>10. WorkerStep BY <1>1, <1>9, WorkerKept
<1>11. RuntimeOK' /\ UNCHANGED <<why, bound>> BY <1>1, RuntimeKept
<1>12. WhyStep BY <1>1, <1>11, WhyKept
<1>13. Behind' BY <1>9, <1>11, BehindKept
<1>14. EnvOK' BY <1>1, EnvKept DEF IInv, TypeOK
<1> QED BY <1>1, <1>9, <1>10, <1>11, <1>12, <1>13, <1>14, DbKept DEF LifeStep, MemStep

\* A request thread moves on and leaves worker and environment alone.
LEMMA RequestMoves ==
  ASSUME IInv, NEW j \in Job, NEW next \in RequestPc \ {"idle"}, GoReq(j, next),
         req[j].pc # "idle",
         next \in FreshPc => req[j].pc \in FreshPc,
         next \in EarlyPc => req[j].pc \in EarlyPc,
         UNCHANGED <<worker, why, env>>, bound' \subseteq bound, faults' \in Nat, RuntimeOK'
  PROVE  MemStep /\ req'[j].pc = next
<1>1. ReqStep /\ req'[j].pc = next BY GoReqStep
<1>2. WorkerStep BY <1>1, WorkerKept
<1>3. WhyStep BY WhyKept
<1>4. Behind' BY <1>1, BehindKept
<1>5. EnvOK' BY EnvKept
<1> QED BY <1>1, <1>2, <1>3, <1>4, <1>5 DEF MemStep

\* ReserveOwner is such a step.
LEMMA ReserveOwnerStep ==
  ASSUME IInv, NEW j \in Job, ReserveOwner(j) PROVE LifeStep
<1>1. /\ req[j].pc = "looked"
      /\ UNCHANGED <<db, worker, leased, released, bound, why, chan, sig, env, faults>>
  BY DEF ReserveOwner, control
<1>2. faults' \in Nat BY <1>1 DEF IInv, TypeOK
<1>3. CASE CanReserveOwner(j)
  <2>1. TakeCapacity(j) /\ capped' = capped \cup {j} /\ GoReq(j, "capped")
    BY <1>3 DEF ReserveOwner
  <2>2. total' \in [Epoch -> Int] /\ active' \in [Epoch -> [Owner -> Int]]
    BY <1>1, <2>1, CapacityType
  <2>3. RuntimeOK' BY <1>1, <2>1, <2>2 DEF RuntimeOK, IInv, TypeOK
  <2>4. "capped" \in RequestPc \ {"idle"} BY DEF RequestPc
  <2>5. MemStep BY <1>1, <1>2, <2>1, <2>3, <2>4, RequestMoves DEF EarlyPc, FreshPc
  <2> QED BY <1>1, <2>5, DbKept DEF LifeStep
<1>4. CASE ~CanReserveOwner(j)
  <2>1. GoReq(j, "done") /\ UNCHANGED <<total, active, capped>>
    BY <1>4 DEF ReserveOwner, counters
  <2>2. RuntimeOK' BY <1>1, <2>1 DEF RuntimeOK, IInv, TypeOK
  <2>3. "done" \in RequestPc \ {"idle"} BY DEF RequestPc
  <2>4. MemStep BY <1>1, <1>2, <2>1, <2>2, <2>3, RequestMoves DEF EarlyPc, FreshPc
  <2> QED BY <1>1, <2>4, DbKept DEF LifeStep
<1> QED BY <1>3, <1>4

\* ReserveHistory is such a step.
LEMMA ReserveHistoryStep ==
  ASSUME IInv, NEW j \in Job, ReserveHistory(j) PROVE LifeStep
<1>1. /\ req[j].pc = "capped"
      /\ UNCHANGED <<db, worker, released, bound, why, chan, sig, env, faults>>
  BY DEF ReserveHistory, control
<1>2. faults' \in Nat BY <1>1 DEF IInv, TypeOK
<1>3. CASE CanReserveHistory(j)
  <2>1. leased' = leased \cup {j} /\ GoReq(j, "reserved") /\ UNCHANGED <<total, active, capped>>
    BY <1>3 DEF ReserveHistory, counters
  <2>3. RuntimeOK' BY <1>1, <2>1 DEF RuntimeOK, IInv, TypeOK
  <2>4. "reserved" \in RequestPc \ {"idle"} BY DEF RequestPc
  <2>5. MemStep BY <1>1, <1>2, <2>1, <2>3, <2>4, RequestMoves DEF EarlyPc, FreshPc
  <2> QED BY <1>1, <2>5, DbKept DEF LifeStep
<1>4. CASE ~CanReserveHistory(j)
  <2>1. GoReq(j, "done") /\ GiveCapacity(j) /\ capped' = capped \ {j} /\ UNCHANGED leased
    BY <1>4 DEF ReserveHistory, ReleaseCapacity
  <2>2. total' \in [Epoch -> Int] /\ active' \in [Epoch -> [Owner -> Int]]
    BY <1>1, <2>1, CapacityType
  <2>3. RuntimeOK' BY <1>1, <2>1, <2>2 DEF RuntimeOK, IInv, TypeOK
  <2>4. "done" \in RequestPc \ {"idle"} BY DEF RequestPc
  <2>5. MemStep BY <1>1, <1>2, <2>1, <2>3, <2>4, RequestMoves DEF EarlyPc, FreshPc
  <2> QED BY <1>1, <2>5, DbKept DEF LifeStep
<1> QED BY <1>3, <1>4

\* BeginAttempt is such a step.
LEMMA BeginAttemptStep ==
  ASSUME IInv, NEW j \in Job, BeginAttempt(j) PROVE LifeStep
<1> DEFINE Begins == ExecutionOf(HistOf(j), req[j].op) = {} /\ CanBegin(j)
<1>1. req[j].pc = "reserved" /\ UNCHANGED <<worker, runtime, env>>
  BY DEF BeginAttempt
<1>2. PICK next \in {"begun", "release"} :
        GoReq(j, next) /\ (UNCHANGED db \/ (Begins /\ InsertRows(j)))
  <2>1. /\ GoReq(j, "begun") \/ GoReq(j, "release")
        /\ UNCHANGED db \/ (Begins /\ InsertRows(j))
    BY DEF BeginAttempt
  <2> QED BY <2>1
<1>3. faults' \in Nat BY FaultsOK DEF BeginAttempt
<1>4. RuntimeOK' /\ UNCHANGED <<why, bound>> BY <1>1, RuntimeKept
<1>5. next \in RequestPc \ {"idle"} BY DEF RequestPc
<1>6. MemStep /\ req'[j].pc = next
  BY <1>1, <1>2, <1>3, <1>4, <1>5, RequestMoves DEF EarlyPc, FreshPc
<1>7. RowStep
  <2>1. CASE UNCHANGED db BY <2>1, DbKept
  <2>2. CASE Begins /\ InsertRows(j)
    BY <1>1, <1>6, <2>2 DEF RowStep, RowsInserted, FreshPc
  <2> QED BY <1>2, <2>1, <2>2
<1> QED BY <1>6, <1>7 DEF LifeStep

\* AttachProgress is such a step.
LEMMA AttachProgressStep ==
  ASSUME IInv, NEW j \in Job, AttachProgress(j) PROVE LifeStep
<1>1. /\ req[j].pc = "begun"
      /\ chan' = [chan EXCEPT ![j] = "accepted"]
      /\ UNCHANGED <<db, leased, capped, released, bound, why, sig, total, active, env>>
  BY DEF AttachProgress, leases, control, counters
<1>2. faults' \in Nat BY FaultsOK DEF AttachProgress
<1>3. "accepted" \in ChanType BY DEF ChanType, Live, Open
<1>4. RuntimeOK' BY <1>1, <1>3 DEF RuntimeOK, IInv, TypeOK
<1>5. EnvOK' BY <1>1, <1>2, EnvKept
<1>6. CASE /\ req' = [req EXCEPT ![j].pc = "attached", ![j].seen = exec[j].reason]
           /\ UNCHANGED worker
  <2>1. exec[j].reason \in Reason \cup {None} BY DEF IInv, TypeOK, ExecType
  <2> DEFINE r == exec[j].reason
  <2>a. /\ "attached" \in RequestPc /\ "attached" # "idle" /\ r \in Reason \cup {None}
        /\ req[j].pc # "idle" /\ "attached" \notin FreshPc /\ req[j].pc \in EarlyPc
        /\ req' = [req EXCEPT ![j].pc = "attached", ![j].seen = r]
    BY <1>1, <1>6, <2>1 DEF RequestPc, EarlyPc, FreshPc
  <2> HIDE DEF r
  <2>2. ReqStep BY <2>a, ReqMoveStep
  <2>3. WorkerStep BY <1>6, <2>2, WorkerKept
  <2>4. WhyStep BY <1>1, <1>6, WhyKept
  <2>5. Behind' BY <1>1, <2>2, BehindKept
  <2> QED BY <1>1, <1>4, <1>5, <2>2, <2>3, <2>4, <2>5, DbKept DEF LifeStep, MemStep
<1>7. CASE GoReq(j, "closing") /\ GoWorker(j, "fail")
  <2>1. "closing" \in RequestPc \ {"idle"} /\ "fail" \in WorkerPc BY DEF RequestPc, WorkerPc
  <2>2. ReqStep /\ req'[j].pc = "closing"
    BY <1>1, <1>7, <2>1, GoReqStep DEF EarlyPc, FreshPc
  <2>3. WorkerStep /\ worker'[j].pc = "fail" /\ \A k \in Job : k # j => worker'[k] = worker[k]
    BY <1>7, <2>1, <2>2, GoWorkerStep DEF EarlyPc, FreshPc
  <2>4. WhyStep BY <1>1, <2>3, WhyKept
  <2>5. Behind' BY <1>1, <2>2, BehindKept
  <2> QED BY <1>1, <1>4, <1>5, <2>2, <2>3, <2>4, <2>5, DbKept DEF LifeStep, MemStep
<1> QED BY <1>6, <1>7 DEF AttachProgress

\* BindStopControl is such a step.
LEMMA BindStopControlStep ==
  ASSUME IInv, NEW j \in Job, BindStopControl(j) PROVE LifeStep
<1>1. /\ req[j].pc = "attached"
      /\ bound' = bound \cup {j}
      /\ why' = [why EXCEPT ![j] = req[j].seen]
      /\ chan' = [chan EXCEPT ![j] = IF req[j].seen # None THEN "stopping" ELSE @]
      /\ req' = [req EXCEPT ![j].pc = "bound", ![j].seen = None]
      /\ UNCHANGED <<db, worker, leased, capped, released, sig, total, active, env, faults>>
  BY DEF BindStopControl, leases, counters
<1>2. faults' \in Nat BY <1>1 DEF IInv, TypeOK
<1>3. "stopping" \in ChanType BY DEF ChanType, Live
<1>4. chan' \in [Job -> ChanType] BY <1>1, <1>3 DEF IInv, TypeOK
<1>5. req[j].seen \in Reason \cup {None} BY DEF IInv, TypeOK, ReqType
<1>6. why' \in [Job -> Reason \cup {None}] /\ \A k \in Job : k # j => why'[k] = why[k]
  BY <1>1, <1>5 DEF IInv, TypeOK
<1>7. RuntimeOK' BY <1>1, <1>4, <1>6 DEF RuntimeOK, IInv, TypeOK
<1>8. EnvOK' BY <1>1, <1>2, EnvKept
<1>9. ReqStep /\ req'[j].pc = "bound" BY <1>1, ReqMoveStep DEF RequestPc, EarlyPc, FreshPc
<1>10. WorkerStep BY <1>1, <1>9, WorkerKept
<1>11. worker'[j].pc = "none" BY <1>1 DEF IInv, Early, EarlyPc
<1>12. WhyStep BY <1>1, <1>6, <1>11 DEF WhyStep
<1>13. Behind' BY <1>1, <1>9 DEF Behind, IInv, TypeOK, ReqStep
<1> QED BY <1>1, <1>7, <1>8, <1>9, <1>10, <1>12, <1>13, DbKept DEF LifeStep, MemStep

\* Schedule is such a step.
LEMMA ScheduleStep ==
  ASSUME IInv, NEW j \in Job, Schedule(j) PROVE LifeStep
<1>1. req[j].pc = "bound" /\ UNCHANGED <<db, runtime, env>> BY DEF Schedule
<1>2. faults' \in Nat BY FaultsOK DEF Schedule
<1>3. PICK a \in {"view", "closing"}, b \in {"queued", "fail"} : GoReq(j, a) /\ GoWorker(j, b)
  BY DEF Schedule
<1>4. RuntimeOK' /\ UNCHANGED <<why, bound>> BY <1>1, RuntimeKept
<1>5. EnvOK' BY <1>1, <1>2, EnvKept
<1>6. a \in RequestPc \ {"idle"} /\ b \in WorkerPc BY DEF RequestPc, WorkerPc
<1>7. ReqStep /\ req'[j].pc = a BY <1>1, <1>3, <1>6, GoReqStep DEF EarlyPc, FreshPc
<1>8. WorkerStep /\ worker'[j].pc = b /\ \A k \in Job : k # j => worker'[k] = worker[k]
  BY <1>3, <1>6, <1>7, GoWorkerStep DEF EarlyPc, FreshPc
<1>9. WhyStep BY <1>4, <1>8, WhyKept
<1>10. Behind' BY <1>4, <1>7, BehindKept
<1> QED BY <1>1, <1>4, <1>5, <1>7, <1>8, <1>9, <1>10, DbKept DEF LifeStep, MemStep

\* View is such a step.
LEMMA ViewStep ==
  ASSUME IInv, NEW j \in Job, View(j) PROVE LifeStep
<1>1. req[j].pc = "view" /\ UNCHANGED <<db, worker, runtime, env>> BY DEF View
<1>2. faults' \in Nat BY FaultsOK DEF View
<1>3. PICK a \in {"done", "release"} : GoReq(j, a) BY DEF View
<1>4. RuntimeOK' /\ UNCHANGED <<why, bound>> BY <1>1, RuntimeKept
<1>5. a \in RequestPc \ {"idle"} BY DEF RequestPc
<1>6. MemStep BY <1>1, <1>2, <1>3, <1>4, <1>5, RequestMoves DEF EarlyPc, FreshPc
<1> QED BY <1>1, <1>6, DbKept DEF LifeStep

\* Both threads return a lease in the same way.
LEMMA ReleaseHistoryType ==
  ASSUME IInv, NEW j \in Job,
         ReleaseHistory(j) \/ UNCHANGED <<leased, released, bound, chan>>,
         UNCHANGED <<capped, why, sig, total, active>>
  PROVE  RuntimeOK' /\ bound' \subseteq bound
<1>1. "unconfirmed" \in ChanType BY DEF ChanType, Terminal
<1>2. CASE ReleaseHistory(j)
  <2>1. chan' \in [Job -> ChanType]
    BY <1>1, <1>2, FinishChannelType DEF ReleaseHistory, IInv, TypeOK
  <2> QED BY <1>2, <2>1 DEF ReleaseHistory, RuntimeOK, IInv, TypeOK
<1>3. CASE UNCHANGED <<leased, released, bound, chan>>
  BY <1>3 DEF RuntimeOK, IInv, TypeOK
<1> QED BY <1>2, <1>3

\* The capacity half of a release keeps the runtime's types.
LEMMA ReleaseCapacityType ==
  ASSUME IInv, NEW j \in Job, req[j].pc # "idle", ReleaseCapacity(j),
         UNCHANGED <<leased, released, bound, why, chan, sig>>
  PROVE  RuntimeOK'
<1>1. total' \in [Epoch -> Int] /\ active' \in [Epoch -> [Owner -> Int]]
  BY CapacityType DEF ReleaseCapacity
<1> QED BY <1>1 DEF ReleaseCapacity, RuntimeOK, IInv, TypeOK

\* RequestRelease is such a step.
LEMMA RequestReleaseStep ==
  ASSUME IInv, NEW j \in Job, RequestRelease(j) PROVE LifeStep
<1>1. /\ req[j].pc = "release"
      /\ ReleaseHistory(j) \/ UNCHANGED <<leased, released, bound, chan>>
      /\ UNCHANGED <<db, worker, capped, why, sig, total, active, env, faults>>
  BY DEF RequestRelease, counters
<1>2. faults' \in Nat BY <1>1 DEF IInv, TypeOK
<1>3. PICK a \in {"relcap", "done"} : GoReq(j, a) BY DEF RequestRelease
<1>4. RuntimeOK' /\ bound' \subseteq bound BY <1>1, ReleaseHistoryType
<1>5. a \in RequestPc \ {"idle"} BY DEF RequestPc
<1>6. MemStep BY <1>1, <1>2, <1>3, <1>4, <1>5, RequestMoves DEF EarlyPc, FreshPc
<1> QED BY <1>1, <1>6, DbKept DEF LifeStep

\* RequestReleaseCapacity is such a step.
LEMMA RequestReleaseCapacityStep ==
  ASSUME IInv, NEW j \in Job, RequestReleaseCapacity(j) PROVE LifeStep
<1>1. /\ req[j].pc = "relcap" /\ ReleaseCapacity(j) /\ GoReq(j, "done")
      /\ UNCHANGED <<db, worker, leased, released, bound, why, chan, sig, env, faults>>
  BY DEF RequestReleaseCapacity, control
<1>2. faults' \in Nat BY <1>1 DEF IInv, TypeOK
<1>3. RuntimeOK' BY <1>1, ReleaseCapacityType
<1>4. "done" \in RequestPc \ {"idle"} BY DEF RequestPc
<1>5. MemStep BY <1>1, <1>2, <1>3, <1>4, RequestMoves DEF EarlyPc, FreshPc
<1> QED BY <1>1, <1>5, DbKept DEF LifeStep

\* A worker thread moves on and leaves its request and the environment alone.
LEMMA WorkerMoves ==
  ASSUME IInv, NEW j \in Job, NEW next \in WorkerPc, GoWorker(j, next), worker[j].pc # "none",
         next = "stopped" => why[j] \in Reason \/ exec[j].status \notin Open,
         next = "saved" => worker[j].result # "error",
         UNCHANGED <<req, why, env>>, bound' \subseteq bound, faults' \in Nat, RuntimeOK'
  PROVE  MemStep
<1>1. ReqStep BY ReqKept
<1>2. req'[j].pc \notin EarlyPc BY <1>1, WorkerNotEarly
<1>3. /\ WorkerStep /\ worker'[j].pc = next
      /\ \A k \in Job : k # j => worker'[k] = worker[k]
  BY <1>1, <1>2, GoWorkerStep
<1>4. WhyStep BY <1>3, WhyKept
<1>5. Behind' BY <1>1, BehindKept
<1>6. EnvOK' BY EnvKept
<1> QED BY <1>1, <1>3, <1>4, <1>5, <1>6 DEF MemStep

\* MarkRunning is such a step.
LEMMA MarkRunningStep ==
  ASSUME IInv, NEW j \in Job, MarkRunning(j) PROVE LifeStep
<1>1. /\ worker[j].pc = "queued"
      /\ UNCHANGED <<rec, deleted, turn, dbEpoch, req, runtime, env>>
  BY DEF MarkRunning
<1>2. faults' \in Nat BY FaultsOK DEF MarkRunning
<1>3. RuntimeOK' /\ UNCHANGED <<why, bound>> BY <1>1, RuntimeKept
<1>4. PICK next \in {"marked", "stopped", "fail"} :
        GoWorker(j, next) /\ (next = "stopped" => exec[j].status \notin Open)
  BY DEF MarkRunning, Open
<1>5. next \in WorkerPc BY DEF WorkerPc
<1>6. MemStep BY <1>1, <1>2, <1>3, <1>4, <1>5, WorkerMoves
<1>7. RowsKept \/ RowsMarked(j) BY <1>1 DEF MarkRunning, RowsKept, RowsMarked
<1> QED BY <1>6, <1>7 DEF LifeStep, RowStep

\* ShowRunning is such a step.
LEMMA ShowRunningStep ==
  ASSUME IInv, NEW j \in Job, ShowRunning(j) PROVE LifeStep
<1>1. /\ worker[j].pc = "marked"
      /\ chan' = [chan EXCEPT ![j] = IF @ \in Open THEN "running" ELSE @]
      /\ UNCHANGED <<db, req, leased, capped, released, bound, why, sig, total, active, env, faults>>
  BY DEF ShowRunning, leases, control, counters
<1>2. faults' \in Nat BY <1>1 DEF IInv, TypeOK
<1>3. PICK next \in {"fail", "ready"} : GoWorker(j, next) BY DEF ShowRunning
<1>4. "running" \in ChanType BY DEF ChanType, Live, Open
<1>5. RuntimeOK' BY <1>1, <1>4 DEF RuntimeOK, IInv, TypeOK
<1>6. next \in WorkerPc BY DEF WorkerPc
<1>7. MemStep BY <1>1, <1>2, <1>3, <1>5, <1>6, WorkerMoves
<1> QED BY <1>1, <1>7, DbKept DEF LifeStep

\* The causes checkpoint and monitor find are stop reasons.
LEMMA StopCauseReason ==
  ASSUME NEW j, NEW r \in StopCause(j) PROVE r \in Reason
BY DEF StopCause, Reason

\* request_stop_in_transaction is a row step.
LEMMA StopRowStep ==
  ASSUME NEW j \in Job, NEW r \in Reason, CanStop(j), StopRow(j, r)
  PROVE  RowStep
BY DEF RowStep, RowsStopped

\* control.request_stop writes the row or not, and leaves the worker a reason.
LEMMA StopAndSignal ==
  ASSUME IInv, NEW j \in Job, NEW r \in Reason, RequestStopAndSignal(j, r)
  PROVE  /\ RowStep
         /\ chan' \in [Job -> ChanType]
         /\ why' \in [Job -> Reason \cup {None}]
         /\ \A k \in Job : why'[k] = why[k] \/ why'[k] \in Reason
         /\ exec[j].status \in Open => why'[j] \in Reason
         /\ faults' \in Nat
<1>1. faults' \in Nat BY FaultsOK DEF RequestStopAndSignal
<1>2. RowStep
  <2>1. UNCHANGED db \/ (CanStop(j) /\ StopRow(j, r)) BY DEF RequestStopAndSignal
  <2> QED BY <2>1, DbKept, StopRowStep
<1>3. \/ Signal(j, r)
      \/ exec[j].status = "stopping" /\ Signal(j, exec[j].reason)
      \/ exec[j].status \in Terminal /\ UNCHANGED <<why, chan>>
  BY DEF RequestStopAndSignal
<1>4. ASSUME NEW q \in Reason, Signal(j, q)
      PROVE  /\ chan' \in [Job -> ChanType]
             /\ why' \in [Job -> Reason \cup {None}]
             /\ \A k \in Job : why'[k] = why[k] \/ why'[k] \in Reason
             /\ why'[j] \in Reason
  BY <1>4, SignalType, ConstantsAssumption DEF Reason
<1>5. CASE Signal(j, r) BY <1>1, <1>2, <1>4, <1>5
<1>6. CASE exec[j].status = "stopping" /\ Signal(j, exec[j].reason)
  <2> DEFINE q == exec[j].reason
  <2>1. q \in Reason /\ Signal(j, q) BY <1>6, VerdictOfStopping
  <2> HIDE DEF q
  <2> QED BY <1>1, <1>2, <1>4, <2>1
<1>7. CASE exec[j].status \in Terminal /\ UNCHANGED <<why, chan>>
  BY <1>1, <1>2, <1>7 DEF IInv, TypeOK, Terminal, Confirmed, Open
<1> QED BY <1>3, <1>5, <1>6, <1>7

\* Checkpoint is such a step.
LEMMA CheckpointStep ==
  ASSUME IInv, NEW j \in Job, Checkpoint(j) PROVE LifeStep
<1>1. /\ worker[j].pc \in {"ready", "working"}
      /\ UNCHANGED <<req, leased, capped, released, bound, sig, total, active, env>>
  BY DEF Checkpoint, leases, counters
<1>2. worker[j].pc # "none" BY <1>1
<1>3. "stopped" \in WorkerPc /\ "working" \in WorkerPc BY DEF WorkerPc
<1>4. ASSUME NEW next \in {"stopped", "working"}, GoWorker(j, next), NoFault, UNCHANGED <<db, why, chan>>,
             next = "stopped" => why[j] # None
      PROVE  LifeStep
  <2>1. why[j] # None => why[j] \in Reason BY DEF IInv, TypeOK
  <2>2. faults' \in Nat BY <1>4, FaultsOK
  <2>3. RuntimeOK' BY <1>1, <1>4 DEF RuntimeOK, IInv, TypeOK
  <2>4. MemStep BY <1>1, <1>2, <1>3, <1>4, <2>1, <2>2, <2>3, WorkerMoves
  <2> QED BY <1>4, <2>4, DbKept DEF LifeStep
<1>5. ASSUME NEW r \in StopCause(j), RequestStopAndSignal(j, r), GoWorker(j, "stopped")
      PROVE  LifeStep
  <2>1. r \in Reason BY StopCauseReason
  <2>2. /\ RowStep
        /\ chan' \in [Job -> ChanType]
        /\ why' \in [Job -> Reason \cup {None}]
        /\ \A k \in Job : why'[k] = why[k] \/ why'[k] \in Reason
        /\ exec[j].status \in Open => why'[j] \in Reason
        /\ faults' \in Nat
    BY <1>5, <2>1, StopAndSignal
  <2>3. RuntimeOK' BY <1>1, <2>2 DEF RuntimeOK, IInv, TypeOK
  <2>4. ReqStep BY <1>1, ReqKept
  <2>5. req'[j].pc \notin EarlyPc BY <1>2, <2>4, WorkerNotEarly
  <2>6. /\ WorkerStep /\ worker'[j].pc = "stopped"
        /\ \A k \in Job : k # j => worker'[k] = worker[k]
    BY <1>3, <1>5, <2>4, <2>5, GoWorkerStep
  <2>7. WhyStep BY <1>2, <2>2, <2>6 DEF WhyStep
  <2>8. Behind' BY <1>1, <2>4, BehindKept
  <2>9. EnvOK' BY <1>1, <2>2, EnvKept
  <2> QED BY <2>2, <2>3, <2>4, <2>6, <2>7, <2>8, <2>9 DEF LifeStep, MemStep
<1> QED BY <1>4, <1>5 DEF Checkpoint

\* BusinessEnds is such a step.
LEMMA BusinessEndsStep ==
  ASSUME IInv, NEW j \in Job, BusinessEnds(j) PROVE LifeStep
<1>1. worker[j].pc = "working" /\ UNCHANGED <<db, req, runtime, env, faults>> BY DEF BusinessEnds
<1>2. faults' \in Nat BY <1>1 DEF IInv, TypeOK
<1>3. RuntimeOK' /\ UNCHANGED <<why, bound>> BY <1>1, RuntimeKept
<1>4. worker \in [Job -> WorkerType] BY DEF IInv, TypeOK
<1>5. CASE GoWorker(j, "fail")
  <2>1. "fail" \in WorkerPc BY DEF WorkerPc
  <2>2. MemStep BY <1>1, <1>2, <1>3, <1>5, <2>1, WorkerMoves
  <2> QED BY <1>1, <2>2, DbKept DEF LifeStep
<1>6. ASSUME NEW r \in Result,
             worker' = [worker EXCEPT ![j] = [pc |-> "saving", result |-> r]]
      PROVE  LifeStep
  <2>1. ReqStep BY <1>1, ReqKept
  <2>2. req'[j].pc \notin EarlyPc BY <1>1, <2>1, WorkerNotEarly
  <2>3. /\ worker' \in [Job -> WorkerType] /\ worker'[j].pc = "saving"
        /\ \A k \in Job : k # j => worker'[k] = worker[k]
    BY <1>4, <1>6 DEF WorkerType, WorkerPc
  <2>4. WorkerStep
    BY <2>1, <2>2, <2>3 DEF WorkerStep, IInv, Early, ReqStep, SavedKnowsResult
  <2>5. WhyStep BY <1>3, <2>3, WhyKept
  <2>6. Behind' BY <1>3, <2>1, BehindKept
  <2>7. EnvOK' BY <1>1, <1>2, EnvKept
  <2> QED BY <1>1, <1>3, <2>1, <2>4, <2>5, <2>6, <2>7, DbKept DEF LifeStep, MemStep
<1> QED BY <1>5, <1>6 DEF BusinessEnds, Result

\* SaveResult is such a step.
LEMMA SaveResultStep ==
  ASSUME IInv, NEW j \in Job, SaveResult(j) PROVE LifeStep
<1>1. worker[j].pc = "saving" /\ UNCHANGED <<req, runtime, env>> BY DEF SaveResult
<1>2. faults' \in Nat BY FaultsOK DEF SaveResult
<1>3. RuntimeOK' /\ UNCHANGED <<why, bound>> BY <1>1, RuntimeKept
<1>4. PICK next \in {"saved", "stopped", "fail"} :
        /\ GoWorker(j, next)
        /\ next = "stopped" => exec[j].status \notin Open
        /\ next = "saved" => worker[j].result # "error"
  BY DEF SaveResult, Open
<1>5. next \in WorkerPc BY DEF WorkerPc
<1>6. MemStep BY <1>1, <1>2, <1>3, <1>4, <1>5, WorkerMoves
<1>7. UNCHANGED db \/ RowsFinished(j)
  <2> DEFINE s == IF worker[j].result = "succeeded" THEN "succeeded" ELSE "failed"
  <2>1. s \in {"succeeded", "failed"} OBVIOUS
  <2>2. UNCHANGED db \/ (CanFinish(j) /\ FinishRows(j, s)) BY DEF SaveResult
  <2> HIDE DEF s
  <2> QED BY <2>1, <2>2 DEF RowsFinished
<1> QED BY <1>6, <1>7, DbKept DEF LifeStep, RowStep

\* ShowResult is such a step.
LEMMA ShowResultStep ==
  ASSUME IInv, NEW j \in Job, ShowResult(j) PROVE LifeStep
<1>1. /\ worker[j].pc = "saved" /\ FinishChannel(j, worker[j].result) /\ GoWorker(j, "exit")
      /\ UNCHANGED <<db, req, leased, capped, released, bound, why, sig, total, active, env, faults>>
  BY DEF ShowResult, leases, control, counters
<1>2. faults' \in Nat BY <1>1 DEF IInv, TypeOK
<1>3. worker[j].result \in ChanType
  BY <1>1 DEF IInv, TypeOK, WorkerType, Result, SavedKnowsResult, ChanType, Terminal, Confirmed
<1>4. chan' \in [Job -> ChanType] BY <1>1, <1>3, FinishChannelType
<1>5. RuntimeOK' BY <1>1, <1>4 DEF RuntimeOK, IInv, TypeOK
<1>6. "exit" \in WorkerPc BY DEF WorkerPc
<1>7. MemStep BY <1>1, <1>2, <1>5, <1>6, WorkerMoves
<1> QED BY <1>1, <1>7, DbKept DEF LifeStep

\* PersistFailure is such a step.
LEMMA PersistFailureStep ==
  ASSUME IInv, NEW j \in Job, PersistFailure(j) PROVE LifeStep
<1>1. worker[j].pc = "fail" /\ UNCHANGED <<req, runtime, env>> BY DEF PersistFailure
<1>2. faults' \in Nat BY FaultsOK DEF PersistFailure
<1>3. RuntimeOK' /\ UNCHANGED <<why, bound>> BY <1>1, RuntimeKept
<1>4. PICK next \in {"stopped", "conclude"} :
        GoWorker(j, next) /\ (next = "stopped" => exec[j].status \notin Open)
  BY DEF PersistFailure, Open
<1>5. next \in WorkerPc BY DEF WorkerPc
<1>6. MemStep BY <1>1, <1>2, <1>3, <1>4, <1>5, WorkerMoves
<1>7. UNCHANGED db \/ RowsFinished(j) BY DEF PersistFailure, RowsFinished
<1> QED BY <1>6, <1>7, DbKept DEF LifeStep, RowStep

\* PersistStop is such a step.
LEMMA PersistStopStep ==
  ASSUME IInv, NEW j \in Job, PersistStop(j) PROVE LifeStep
<1>1. worker[j].pc = "stopped" /\ UNCHANGED <<req, runtime, env>> BY DEF PersistStop
<1>2. faults' \in Nat BY FaultsOK DEF PersistStop
<1>3. RuntimeOK' /\ UNCHANGED <<why, bound>> BY <1>1, RuntimeKept
<1>4. PICK next \in {"verdict", "conclude"} : GoWorker(j, next) BY DEF PersistStop
<1>5. next \in WorkerPc BY DEF WorkerPc
<1>6. MemStep BY <1>1, <1>2, <1>3, <1>4, <1>5, WorkerMoves
<1>7. UNCHANGED db \/ RowsStopped(j)
  <2>1. UNCHANGED db \/ (CanStop(j) /\ StopRow(j, why[j])) BY DEF PersistStop
  <2>2. CanStop(j) => why[j] \in Reason BY <1>1 DEF CanStop, IInv, StoppedKnowsWhy
  <2> QED BY <2>1, <2>2 DEF RowsStopped
<1> QED BY <1>6, <1>7, DbKept DEF LifeStep, RowStep

\* PersistVerdict is such a step.
LEMMA PersistVerdictStep ==
  ASSUME IInv, NEW j \in Job, PersistVerdict(j) PROVE LifeStep
<1>1. worker[j].pc = "verdict" /\ GoWorker(j, "conclude") /\ UNCHANGED <<req, runtime, env>>
  BY DEF PersistVerdict
<1>2. faults' \in Nat BY FaultsOK DEF PersistVerdict
<1>3. RuntimeOK' /\ UNCHANGED <<why, bound>> BY <1>1, RuntimeKept
<1>4. "conclude" \in WorkerPc BY DEF WorkerPc
<1>5. MemStep BY <1>1, <1>2, <1>3, <1>4, WorkerMoves
<1>6. UNCHANGED db \/ RowsConcluded(j) BY DEF PersistVerdict, RowsConcluded
<1> QED BY <1>5, <1>6, DbKept DEF LifeStep, RowStep

\* FinishFromPersistence is such a step.
LEMMA FinishFromPersistenceStep ==
  ASSUME IInv, NEW j \in Job, FinishFromPersistence(j) PROVE LifeStep
<1>1. /\ worker[j].pc = "conclude"
      /\ UNCHANGED <<db, leased, capped, released, bound, why, sig, total, active, env>>
  BY DEF FinishFromPersistence, leases, control, counters
<1>2. faults' \in Nat BY FaultsOK DEF FinishFromPersistence
<1>3. chan' \in [Job -> ChanType]
  <2>1. PICK st \in Confirmed \cup {"unconfirmed"} : FinishChannel(j, st)
    BY DEF FinishFromPersistence
  <2>2. st \in ChanType BY DEF ChanType, Terminal
  <2> QED BY <2>1, <2>2, FinishChannelType
<1>4. RuntimeOK' BY <1>1, <1>3 DEF RuntimeOK, IInv, TypeOK
<1>5. "exit" \in WorkerPc /\ "exited" \in WorkerPc /\ "release" \in RequestPc \ {"idle"}
  BY DEF WorkerPc, RequestPc
<1>6. CASE UNCHANGED req /\ GoWorker(j, "exit")
  <2>1. MemStep BY <1>1, <1>2, <1>4, <1>5, <1>6, WorkerMoves
  <2> QED BY <1>1, <2>1, DbKept DEF LifeStep
<1>7. CASE req[j].pc = "closing" /\ GoWorker(j, "exited") /\ GoReq(j, "release")
  <2>1. ReqStep /\ req'[j].pc = "release" BY <1>5, <1>7, GoReqStep DEF EarlyPc, FreshPc
  <2>2. /\ WorkerStep /\ worker'[j].pc = "exited"
        /\ \A k \in Job : k # j => worker'[k] = worker[k]
    BY <1>5, <1>7, <2>1, GoWorkerStep DEF EarlyPc, FreshPc
  <2>3. WhyStep BY <1>1, <2>2, WhyKept
  <2>4. Behind' BY <1>1, <2>1, BehindKept
  <2>5. EnvOK' BY <1>1, <1>2, EnvKept
  <2> QED BY <1>1, <1>4, <2>1, <2>2, <2>3, <2>4, <2>5, DbKept DEF LifeStep, MemStep
<1> QED BY <1>6, <1>7 DEF FinishFromPersistence

\* WorkerRelease is such a step.
LEMMA WorkerReleaseStep ==
  ASSUME IInv, NEW j \in Job, WorkerRelease(j) PROVE LifeStep
<1>1. /\ worker[j].pc = "exit"
      /\ ReleaseHistory(j) \/ UNCHANGED <<leased, released, bound, chan>>
      /\ UNCHANGED <<db, req, capped, why, sig, total, active, env, faults>>
  BY DEF WorkerRelease, counters
<1>2. faults' \in Nat BY <1>1 DEF IInv, TypeOK
<1>3. PICK next \in {"relcap", "exited"} : GoWorker(j, next) BY DEF WorkerRelease
<1>4. RuntimeOK' /\ bound' \subseteq bound BY <1>1, ReleaseHistoryType
<1>5. next \in WorkerPc BY DEF WorkerPc
<1>6. MemStep BY <1>1, <1>2, <1>3, <1>4, <1>5, WorkerMoves
<1> QED BY <1>1, <1>6, DbKept DEF LifeStep

\* WorkerReleaseCapacity is such a step.
LEMMA WorkerReleaseCapacityStep ==
  ASSUME IInv, NEW j \in Job, WorkerReleaseCapacity(j) PROVE LifeStep
<1>1. /\ worker[j].pc = "relcap" /\ ReleaseCapacity(j) /\ GoWorker(j, "exited")
      /\ UNCHANGED <<db, req, leased, released, bound, why, chan, sig, env, faults>>
  BY DEF WorkerReleaseCapacity, control
<1>2. faults' \in Nat BY <1>1 DEF IInv, TypeOK
<1>3. req[j].pc # "idle" BY <1>1 DEF IInv, Early, EarlyPc, FreshPc
<1>4. RuntimeOK' BY <1>1, <1>3, ReleaseCapacityType
<1>5. "exited" \in WorkerPc BY DEF WorkerPc
<1>6. MemStep BY <1>1, <1>2, <1>4, <1>5, WorkerMoves
<1> QED BY <1>1, <1>6, DbKept DEF LifeStep

\* Steps that no thread of a job takes.
LEMMA ThreadsKept ==
  ASSUME IInv, UNCHANGED <<req, worker, bound>>,
         \A k \in Job : why'[k] = why[k] \/ why'[k] \in Reason
  PROVE  ReqStep /\ WorkerStep /\ WhyStep /\ Behind'
<1>1. ReqStep BY ReqKept
<1>2. WorkerStep BY <1>1, WorkerKept
<1>3. Behind' BY <1>1, BehindKept
<1> QED BY <1>1, <1>2, <1>3 DEF WhyStep

\* Cancel is such a step.
LEMMA CancelStep ==
  ASSUME IInv, NEW j \in Job, NEW p \in Epoch, Cancel(j, p) PROVE LifeStep
<1>1. UNCHANGED <<req, worker, leased, capped, released, bound, why, chan, total, active, env>>
  BY DEF Cancel, leases, control, counters
<1>2. faults' \in Nat BY FaultsOK DEF Cancel
<1>3. ASSUME NEW r \in Reason
      PROVE  [job |-> j, proc |-> p, by |-> "cancel", reason |-> r] \in SigType
  BY DEF SigType
<1>4. /\ exec[j].status = "stopping" => exec[j].reason \in Reason
      /\ "user" \in Reason
  BY VerdictOfStopping DEF Reason
<1>5. sig' \subseteq SigType
  <2>1. \/ UNCHANGED sig
        \/ sig' = sig \cup {[job |-> j, proc |-> p, by |-> "cancel", reason |-> "user"]}
        \/ /\ exec[j].status = "stopping"
           /\ sig' = sig \cup {[job |-> j, proc |-> p, by |-> "cancel", reason |-> exec[j].reason]}
    BY DEF Cancel
  <2>2. sig \subseteq SigType BY DEF IInv, TypeOK
  <2> QED BY <1>3, <1>4, <2>1, <2>2
<1>6. RuntimeOK' BY <1>1, <1>5 DEF RuntimeOK, IInv, TypeOK
<1>7. RowStep
  <2>1. UNCHANGED db \/ (CanStop(j) /\ StopRow(j, "user")) BY DEF Cancel
  <2> QED BY <1>4, <2>1, DbKept, StopRowStep
<1>8. ReqStep /\ WorkerStep /\ WhyStep /\ Behind' BY <1>1, ThreadsKept
<1>9. EnvOK' BY <1>1, <1>2, EnvKept
<1> QED BY <1>6, <1>7, <1>8, <1>9 DEF LifeStep, MemStep

\* Monitor is such a step.
LEMMA MonitorStep ==
  ASSUME IInv, NEW j \in Job, Monitor(j) PROVE LifeStep
<1>1. /\ j \in bound
      /\ UNCHANGED <<req, worker, leased, capped, released, bound, total, active, env>>
  BY DEF Monitor, leases, counters
<1>2. faults' \in Nat BY FaultsOK DEF Monitor
<1>3. req[j].epoch \in Epoch BY <1>1 DEF IInv, Behind, Placed
<1>4. ASSUME NEW r \in Reason
      PROVE  [job |-> j, proc |-> req[j].epoch, by |-> "monitor", reason |-> r] \in SigType
  BY <1>3 DEF SigType
<1>5. PICK r \in StopCause(j) :
        /\ UNCHANGED db \/ (CanStop(j) /\ StopRow(j, r))
        /\ UNCHANGED <<why, chan>> \/ Signal(j, r)
        /\ \/ UNCHANGED sig
           \/ sig' = sig \cup {[job |-> j, proc |-> req[j].epoch, by |-> "monitor", reason |-> r]}
           \/ /\ exec[j].status = "stopping"
              /\ sig' = sig \cup {[job |-> j, proc |-> req[j].epoch, by |-> "monitor",
                                   reason |-> exec[j].reason]}
  BY DEF Monitor
<1>6. r \in Reason BY StopCauseReason
<1>7. sig' \subseteq SigType
  <2>1. exec[j].status = "stopping" => exec[j].reason \in Reason BY VerdictOfStopping
  <2>2. sig \subseteq SigType BY DEF IInv, TypeOK
  <2> QED BY <1>4, <1>5, <1>6, <2>1, <2>2
<1>8. /\ chan' \in [Job -> ChanType] /\ why' \in [Job -> Reason \cup {None}]
      /\ \A k \in Job : why'[k] = why[k] \/ why'[k] \in Reason
  <2>1. CASE Signal(j, r) BY <1>6, <2>1, SignalType
  <2>2. CASE UNCHANGED <<why, chan>> BY <2>2 DEF IInv, TypeOK
  <2> QED BY <1>5, <2>1, <2>2
<1>9. RuntimeOK' BY <1>1, <1>7, <1>8 DEF RuntimeOK, IInv, TypeOK
<1>10. RowStep BY <1>5, <1>6, DbKept, StopRowStep
<1>11. ReqStep /\ WorkerStep /\ WhyStep /\ Behind' BY <1>1, <1>8, ThreadsKept
<1>12. EnvOK' BY <1>1, <1>2, EnvKept
<1> QED BY <1>9, <1>10, <1>11, <1>12 DEF LifeStep, MemStep

\* DeliverSignal is such a step.
LEMMA DeliverSignalStep ==
  ASSUME IInv, NEW m \in sig, DeliverSignal(m) PROVE LifeStep
<1>1. /\ sig' = sig \ {m}
      /\ Signal(m.job, m.reason) \/ UNCHANGED <<why, chan>>
      /\ UNCHANGED <<db, req, worker, leased, capped, released, bound, total, active, env, faults>>
  BY DEF DeliverSignal, leases, counters
<1>2. faults' \in Nat BY <1>1 DEF IInv, TypeOK
<1>3. m.job \in Job /\ m.reason \in Reason BY DEF IInv, TypeOK, SigType
<1>4. /\ chan' \in [Job -> ChanType] /\ why' \in [Job -> Reason \cup {None}]
      /\ \A k \in Job : why'[k] = why[k] \/ why'[k] \in Reason
  <2>1. CASE Signal(m.job, m.reason)
    <3> DEFINE a == m.job
               r == m.reason
    <3>1. a \in Job /\ r \in Reason /\ Signal(a, r) BY <1>3, <2>1
    <3> HIDE DEF a, r
    <3> QED BY <3>1, SignalType
  <2>2. CASE UNCHANGED <<why, chan>> BY <2>2 DEF IInv, TypeOK
  <2> QED BY <1>1, <2>1, <2>2
<1>5. RuntimeOK' BY <1>1, <1>4 DEF RuntimeOK, IInv, TypeOK
<1>6. ReqStep /\ WorkerStep /\ WhyStep /\ Behind' BY <1>1, <1>4, ThreadsKept
<1>7. EnvOK' BY <1>1, <1>2, EnvKept
<1> QED BY <1>1, <1>5, <1>6, <1>7, DbKept DEF LifeStep, MemStep

\* Steps that leave all of the memory alone.
LEMMA MemoryKept ==
  ASSUME IInv, UNCHANGED <<req, worker, runtime, faults>>, EnvOK'
  PROVE  MemStep
<1>1. RuntimeOK' /\ UNCHANGED <<why, bound>> BY RuntimeKept
<1>2. ReqStep /\ WorkerStep /\ WhyStep /\ Behind' BY <1>1, ThreadsKept
<1> QED BY <1>1, <1>2 DEF MemStep

\* Reconcile is such a step.
LEMMA ReconcileStep ==
  ASSUME IInv, NEW h \in History, NEW p \in Epoch, Reconcile(h, p) PROVE LifeStep
<1>1. /\ rec[h].active # None
      /\ h \notin Running(exec[rec[h].active].epoch)
      /\ UnconfirmRows({rec[h].active}, {h})
      /\ UNCHANGED <<dbEpoch, req, worker, runtime, env, faults>>
  BY DEF Reconcile
<1>2. EnvOK' BY <1>1, EnvKept DEF IInv, TypeOK
<1>3. MemStep BY <1>1, <1>2, MemoryKept
<1> QED BY <1>1, <1>3 DEF LifeStep, RowStep, RowsReconciled

\* DeleteHistory is such a step.
LEMMA DeleteHistoryStep ==
  ASSUME IInv, NEW h \in History, NEW p \in Epoch, DeleteHistory(h, p) PROVE LifeStep
<1>1. RowsDeleted(h) /\ UNCHANGED <<req, worker, runtime, env, faults>>
  BY DEF DeleteHistory, RowsDeleted
<1>2. EnvOK' BY <1>1, EnvKept DEF IInv, TypeOK
<1>3. MemStep BY <1>1, <1>2, MemoryKept
<1> QED BY <1>1, <1>3 DEF LifeStep, RowStep

\* StartProcess is such a step.
LEMMA StartProcessStep ==
  ASSUME IInv, NEW p \in Epoch, StartProcess(p) PROVE LifeStep
<1>1. RowsRestarted BY DEF StartProcess, RowsRestarted
<1>2. EnvOK' BY DEF StartProcess, EnvOK, IInv, TypeOK
<1>3. MemStep BY <1>2, MemoryKept DEF StartProcess
<1> QED BY <1>1, <1>3 DEF LifeStep, RowStep

\* The steps of processes and time that only change the environment.
LEMMA ProcessAndTimeStep ==
  ASSUME IInv,
         \/ \E p \in Epoch : LoseGuard(p) \/ CloseAdmission(p) \/ Drained(p)
         \/ \E j \in Job : Expire(j)
         \/ UNCHANGED vars
  PROVE  LifeStep
<1>1. EnvOK' BY DEF LoseGuard, CloseAdmission, Drained, Expire, vars, EnvOK, IInv, TypeOK
<1>2. UNCHANGED <<req, worker, runtime, faults>>
  BY DEF LoseGuard, CloseAdmission, Drained, Expire, vars, runtime, leases, control, counters
<1>3. UNCHANGED db BY DEF LoseGuard, CloseAdmission, Drained, Expire, vars, db
<1> QED BY <1>1, <1>2, <1>3, MemoryKept, DbKept DEF LifeStep

\* Crash is such a step.
LEMMA CrashStep ==
  ASSUME IInv, NEW p \in Epoch, Crash(p) PROVE LifeStep
<1>0. /\ req \in [Job -> ReqType] /\ worker \in [Job -> WorkerType]
  BY DEF IInv, TypeOK
<1>1. UNCHANGED <<db, released, why, expired, faults>> BY DEF Crash
<1>2. \A k \in Job :
        \/ req'[k] = req[k]
        \/ req[k].pc # "idle" /\ req'[k] = [req[k] EXCEPT !.pc = "dead"]
  BY DEF Crash, RequestRuns
<1>3. \A k \in Job : worker'[k] = worker[k] \/ worker'[k] = [worker[k] EXCEPT !.pc = "dead"]
  BY DEF Crash
<1>4. \A k \in Job : worker[k].pc = "none" => worker'[k] = worker[k]
  BY DEF Crash, WorkerRuns
<1>5. "dead" \in RequestPc /\ "dead" \in WorkerPc BY DEF RequestPc, WorkerPc
<1>6. req' \in [Job -> ReqType]
  <2>1. ASSUME NEW k \in Job PROVE req'[k] \in ReqType
    <3>1. req[k] \in ReqType /\ [req[k] EXCEPT !.pc = "dead"] \in ReqType
      BY <1>0, <1>5 DEF ReqType
    <3> QED BY <1>2, <3>1
  <2>2. req' = [k \in Job |-> req'[k]] BY DEF Crash
  <2> QED BY <2>1, <2>2
<1>7. worker' \in [Job -> WorkerType]
  <2>1. \A k \in Job : worker'[k] \in WorkerType BY <1>0, <1>3, <1>5 DEF WorkerType
  <2>2. worker' = [k \in Job |-> worker'[k]] BY DEF Crash
  <2> QED BY <2>1, <2>2
<1>8. \A k \in Job : /\ req'[k].hist = req[k].hist /\ req'[k].epoch = req[k].epoch
                     /\ req'[k].op = req[k].op /\ req'[k].rev = req[k].rev
                     /\ req'[k].pc = req[k].pc \/ (req[k].pc # "idle" /\ req'[k].pc = "dead")
  <2> SUFFICES ASSUME NEW k \in Job
               PROVE  /\ req'[k].hist = req[k].hist /\ req'[k].epoch = req[k].epoch
                      /\ req'[k].op = req[k].op /\ req'[k].rev = req[k].rev
                      /\ req'[k].pc = req[k].pc \/ (req[k].pc # "idle" /\ req'[k].pc = "dead")
    OBVIOUS
  <2>1. req[k] \in ReqType BY <1>0
  <2>2. CASE req'[k] = req[k] BY <2>2
  <2>3. CASE req[k].pc # "idle" /\ req'[k] = [req[k] EXCEPT !.pc = "dead"]
    BY <2>1, <2>3 DEF ReqType
  <2> QED BY <1>2, <2>2, <2>3
<1>9. \A k \in Job : worker'[k].pc \in {worker[k].pc, "dead"} /\ worker'[k].result = worker[k].result
  BY <1>0, <1>3 DEF WorkerType
<1>10. Placed' BY <1>8 DEF IInv, Placed
<1>11. ReqStep BY <1>6, <1>8, <1>10 DEF ReqStep, EarlyPc, FreshPc
<1>12. WorkerStep
  BY <1>4, <1>7, <1>9, <1>11 DEF WorkerStep, IInv, Early, ReqStep, SavedKnowsResult
<1>13. WhyStep BY <1>1, <1>9, WhyKept
<1>14. Behind' BY <1>11, BehindKept DEF Crash
<1>15. EnvOK' BY <1>1 DEF Crash, EnvOK, IInv, TypeOK
<1>16. RuntimeOK'
  <2>1. "none" \in ChanType BY DEF ChanType
  <2>2. chan' \in [Job -> ChanType] BY <2>1 DEF Crash, IInv, TypeOK
  <2>3. [o \in Owner |-> 0] \in [Owner -> Int] OBVIOUS
  <2>4. active' \in [Epoch -> [Owner -> Int]] BY <2>3 DEF Crash, IInv, TypeOK
  <2>5. total' \in [Epoch -> Int] BY DEF Crash, IInv, TypeOK
  <2> QED BY <1>1, <2>2, <2>4, <2>5 DEF Crash, RuntimeOK, IInv, TypeOK
<1> QED BY <1>1, <1>11, <1>12, <1>13, <1>14, <1>15, <1>16, DbKept DEF LifeStep, MemStep
-----------------------------------------------------------------------------
\* Every step of the system is a row step and a thread step.
LEMMA NextStep == ASSUME IInv, [Next]_vars PROVE LifeStep
<1>1. ASSUME NEW j \in Job, RequestThread(j) PROVE LifeStep
  BY <1>1, ReserveOwnerStep, ReserveHistoryStep, BeginAttemptStep, AttachProgressStep,
     BindStopControlStep, ScheduleStep, ViewStep, RequestReleaseStep, RequestReleaseCapacityStep
  DEF RequestThread
<1>2. ASSUME NEW j \in Job, WorkerThread(j) PROVE LifeStep
  BY <1>2, MarkRunningStep, ShowRunningStep, CheckpointStep, BusinessEndsStep, SaveResultStep,
     ShowResultStep, PersistFailureStep, PersistStopStep, PersistVerdictStep,
     FinishFromPersistenceStep, WorkerReleaseStep, WorkerReleaseCapacityStep
  DEF WorkerThread
<1>3. CASE \E j \in Job, p \in Epoch, h \in History, o \in Operation :
             \E rev \in 0..rec[h].ctx : Submit(j, p, h, o, rev)
  BY <1>3, SubmitStep
<1>4. CASE \E j \in Job : RequestThread(j) \/ WorkerThread(j) \/ Monitor(j) \/ Expire(j)
  BY <1>1, <1>2, <1>4, MonitorStep, ProcessAndTimeStep
<1>5. CASE \E j \in Job, p \in Epoch : Cancel(j, p) BY <1>5, CancelStep
<1>6. CASE \E m \in sig : DeliverSignal(m) BY <1>6, DeliverSignalStep
<1>7. CASE \E h \in History, p \in Epoch : Reconcile(h, p) \/ DeleteHistory(h, p)
  BY <1>7, ReconcileStep, DeleteHistoryStep
<1>8. CASE \E p \in Epoch : \/ StartProcess(p) \/ Crash(p) \/ LoseGuard(p)
                            \/ CloseAdmission(p) \/ Drained(p)
  BY <1>8, StartProcessStep, CrashStep, ProcessAndTimeStep
<1>9. CASE UNCHANGED vars BY <1>9, ProcessAndTimeStep
<1> QED BY <1>3, <1>4, <1>5, <1>6, <1>7, <1>8, <1>9 DEF Next, AtRest

\* The invariant holds at the start.
LEMMA InitIInv == ASSUME Init PROVE IInv
<1>1. TypeOK
  BY ConstantsAssumption
  DEF Init, TypeOK, RecType, TurnType, ExecType, ReqType, WorkerType, ChanType, SigType,
      RowStatus, RequestPc, WorkerPc, Result, Epoch
<1>2. Placed /\ Behind /\ Early /\ Fresh /\ SavedKnowsResult /\ StoppedKnowsWhy
  BY DEF Init, Placed, Behind, Early, Fresh, SavedKnowsResult, StoppedKnowsWhy
<1>3. RowsAgree BY DEF Init, RowsAgree, LiveIsActive, ActiveIsLive, Live, Open
<1>4. FirstReasonDecides BY DEF Init, FirstReasonDecides
<1>5. OneExecutionPerOperation BY DEF Init, OneExecutionPerOperation, HasRow
<1>6. ContextStandsStill BY DEF Init, ContextStandsStill, Live, Open
<1> QED BY <1>1, <1>2, <1>3, <1>4, <1>5, <1>6 DEF IInv

\* IInv holds in every reachable state.
THEOREM InductiveInvariant == Spec => []IInv
<1>1. Init => IInv BY InitIInv
<1>2. IInv /\ [Next]_vars => IInv' BY NextStep, Invariance DEF LifeStep
<1> QED BY <1>1, <1>2, PTL DEF Spec

\* Every variable of the execution machinery always has its type; in particular
\* a persisted status is never anything but one of the schema's values, because
\* _persist_stopped only ever writes the verdict of a real reason.
THEOREM TypeCorrect == Spec => []TypeOK
<1>1. IInv => TypeOK BY DEF IInv
<1> QED BY <1>1, InductiveInvariant, PTL

\* Record, turn and execution rows agree in every reachable state: a live
\* execution is the active turn of its record, with the record's generation and
\* the current epoch, whatever crashes, zombie workers and reconciliations do.
THEOREM RowsAlwaysAgree == Spec => []RowsAgree
<1>1. IInv => RowsAgree BY DEF IInv
<1> QED BY <1>1, InductiveInvariant, PTL

\* The first persisted stop reason decides: no execution that was asked to stop is
\* ever saved as a success, and none is cancelled or timed out unasked
\* (request_execution_stop, finish_attempt, _persist_stopped).
THEOREM FirstReasonAlwaysDecides == Spec => []FirstReasonDecides
<1>1. IInv => FirstReasonDecides BY DEF IInv
<1> QED BY <1>1, InductiveInvariant, PTL

\* An operation id has at most one execution per account, for any number of
\* repeated, concurrent or restarted submissions (begin_execution_attempt).
THEOREM OneExecution == Spec => []OneExecutionPerOperation
<1>1. IInv => OneExecutionPerOperation BY DEF IInv
<1> QED BY <1>1, InductiveInvariant, PTL

\* While an execution is live the context revision it was accepted against does
\* not move (_begin, finish_attempt).
THEOREM ContextStable == Spec => []ContextStandsStill
<1>1. IInv => ContextStandsStill BY DEF IInv
<1> QED BY <1>1, InductiveInvariant, PTL

\* A concluded execution never changes again except by deletion, and a persisted
\* stop reason is never replaced.
THEOREM ConclusionsAreFinal == Spec => ConclusionIsFinal
<1> DEFINE A == \A j \in Job :
         /\ exec[j].status \in Terminal => exec'[j].status \in {exec[j].status, "gone"}
         /\ exec[j].reason # None => exec'[j].reason = exec[j].reason
<1>1. ASSUME IInv, [Next]_vars PROVE A
  <2> SUFFICES ASSUME NEW k \in Job
               PROVE  /\ exec[k].status \in Terminal => exec'[k].status \in {exec[k].status, "gone"}
                      /\ exec[k].reason # None => exec'[k].reason = exec[k].reason
    OBVIOUS
  <2>1. RowMove(k) BY <1>1, NextStep, RowMoves DEF LifeStep
  <2>2. req[k].pc = "reserved" => exec[k].status = "none" BY <1>1 DEF IInv, Fresh, FreshPc
  <2>3. exec[k].reason # None =>
          exec[k].status \in {"stopping", Verdict[exec[k].reason], "unconfirmed", "gone"}
    BY <1>1 DEF IInv, FirstReasonDecides
  <2>4. exec[k].reason # None => Verdict[exec[k].reason] \in Confirmed
    BY <1>1 DEF IInv, TypeOK, ExecType, Reason, Verdict, Confirmed
  <2>5. CASE exec[k].status = "gone"
    BY <2>1, <2>2, <2>5 DEF RowMove, Open, Live, Terminal, Confirmed
  <2>6. CASE exec[k].status # "gone"
    BY <2>1, <2>2, <2>3, <2>4, <2>6 DEF RowMove, Open, Live, Terminal, Confirmed
  <2> QED BY <2>5, <2>6
<1>2. IInv /\ [Next]_vars => [A]_vars BY <1>1
<1> QED BY <1>2, InductiveInvariant, PTL DEF Spec, ConclusionIsFinal
-----------------------------------------------------------------------------
(***************************************************************************)
(* The rows implement ExecutionContract.                                   *)
(***************************************************************************)

\* The contract's variables as functions of the state.
StatusBar == [j \in Job |-> exec[j].status]
ReasonBar == [j \in Job |-> exec[j].reason]
HistBar == [j \in Job |-> IF exec[j].status = "none" THEN None ELSE HistOf(j)]
ContextBar == [h \in History |-> rec[h].ctx]

\* The initial rows are initial for the contract.
LEMMA RefInit == ASSUME Init PROVE Contract!Init
BY DEF Init, Contract!Init

\* Every row step is a step of the contract or changes nothing it sees.
LEMMA RefStep == ASSUME IInv, RowStep, ReqStep PROVE [Contract!Next]_(Contract!contractVars)
<1>0. /\ exec \in [Job -> ExecType] /\ rec \in [History -> RecType]
      /\ exec' \in [Job -> ExecType] /\ rec' \in [History -> RecType]
  BY RowTypes DEF IInv, TypeOK, DbOK
<1>1. \A k \in Job : exec[k].status # "none" => HistOf(k)' = HistOf(k)
  BY DEF IInv, Fresh, FreshPc, ReqStep, HistOf
<1>2. \A k \in Job : exec[k].status \in Live => HistOf(k) \in History
  BY LiveFacts
<1>3. CASE RowsKept
  <2>1. UNCHANGED Contract!contractVars
    BY <1>1, <1>3 DEF RowsKept, Contract!contractVars
  <2> QED BY <2>1
<1>4. ASSUME NEW j \in Job, RowsMarked(j) PROVE Contract!Start(j)
  BY <1>0, <1>1, <1>4 DEF RowsMarked, Contract!Start, ExecType
<1>5. ASSUME NEW j \in Job, RowsInserted(j) 
      PROVE  \E h \in History : Contract!Accept(j, h)
  <2>0. HistOf(j) \in History BY <1>5 DEF RowsInserted, IInv, Placed, HistOf
  <2>a. PICK h \in History : h = HistOf(j) BY <2>0
  <2>1. /\ req[j].pc = "reserved" /\ rec[h].active = None /\ InsertRows(j)
    BY <1>5, <2>a DEF RowsInserted, CanBegin
  <2>2. exec[j].status = "none" /\ exec[j].reason = None
    <3>1. exec[j].status = "none" BY <2>1 DEF IInv, Fresh, FreshPc
    <3>2. exec[j].reason \in Reason \cup {None} BY <1>0 DEF ExecType
    <3>3. exec[j].reason \in Reason => Verdict[exec[j].reason] # "none"
      BY DEF Reason, Verdict
    <3> QED BY <3>1, <3>2, <3>3, ConstantsAssumption DEF IInv, FirstReasonDecides, Reason
  <2>3. req'[j].hist = h BY <2>a, <2>1 DEF ReqStep, HistOf
  <2>4. \A k \in Job : exec[k].status \in Live => HistOf(k) # h
    BY <2>1, LiveFacts, ConstantsAssumption
  <2>5. Contract!LiveOn(h) = {}
    BY <2>4 DEF Contract!LiveOn, Contract!Live, Contract!Open, Live, Open
  <2>6. StatusBar' = [StatusBar EXCEPT ![j] = "accepted"]
    BY <1>0, <2>1 DEF StatusBar, InsertRows
  <2>7. ReasonBar' = ReasonBar
    BY <1>0, <2>1, <2>2 DEF ReasonBar, InsertRows
  <2>8. HistBar' = [HistBar EXCEPT ![j] = h]
    BY <1>0, <1>1, <2>1, <2>3 DEF HistBar, InsertRows, HistOf, ExecType
  <2>9. ContextBar' = ContextBar
    BY <1>0, <2>a, <2>1 DEF ContextBar, InsertRows, RecType
  <2> QED BY <2>2, <2>5, <2>6, <2>7, <2>8, <2>9 DEF Contract!Accept, StatusBar, ReasonBar, HistBar, ContextBar
<1>6. ASSUME NEW j \in Job, RowsStopped(j) PROVE \E r \in Reason : Contract!Stop(j, r)
  <2>1. PICK r \in Reason : StopRow(j, r) BY <1>6 DEF RowsStopped
  <2>2. exec[j].status \in Open BY <1>6 DEF RowsStopped, CanStop
  <2>3. StatusBar' = [StatusBar EXCEPT ![j] = "stopping"]
    BY <1>0, <2>1 DEF StatusBar, StopRow, ExecType
  <2>4. ReasonBar' = [ReasonBar EXCEPT ![j] = r]
    BY <1>0, <2>1 DEF ReasonBar, StopRow, ExecType
  <2>5. HistBar' = HistBar
    BY <1>0, <1>1, <2>1, <2>2 DEF HistBar, StopRow, ExecType, Open
  <2>6. ContextBar' = ContextBar BY <2>1 DEF ContextBar, StopRow
  <2> QED BY <2>2, <2>3, <2>4, <2>5, <2>6
      DEF Contract!Stop, Contract!Open, Open, StatusBar, ReasonBar, HistBar, ContextBar
<1>7. ASSUME NEW j \in Job, RowsFinished(j) PROVE Contract!Succeed(j) \/ Contract!Fail(j)
  <2>1. PICK s \in {"succeeded", "failed"} : FinishRows(j, s) BY <1>7 DEF RowsFinished
  <2>2. exec[j].status \in Open /\ exec[j].status # "none" BY <1>7 DEF RowsFinished, CanFinish, Open
  <2>3. HistOf(j) \in History BY <1>2, <2>2 DEF Live
  <2>4. StatusBar' = [StatusBar EXCEPT ![j] = s]
    BY <1>0, <2>1 DEF StatusBar, FinishRows, ExecType
  <2>5. ReasonBar' = ReasonBar BY <1>0, <2>1 DEF ReasonBar, FinishRows, ExecType
  <2>6. HistBar' = HistBar
    BY <1>0, <1>1, <2>1, <2>2 DEF HistBar, FinishRows, ExecType
  <2>7. s = "failed" => ContextBar' = ContextBar
    BY <1>0, <2>1, <2>3 DEF ContextBar, FinishRows, RecType
  <2>8. HistBar[j] = HistOf(j) BY <2>2 DEF HistBar
  <2>9. s = "succeeded" => ContextBar' = [ContextBar EXCEPT ![HistOf(j)] = @ + 1]
    BY <1>0, <2>1, <2>3 DEF ContextBar, FinishRows, RecType
  <2> QED BY <2>2, <2>4, <2>5, <2>6, <2>7, <2>8, <2>9
      DEF Contract!Succeed, Contract!Fail, Contract!Open, Open, StatusBar, ReasonBar, HistBar, ContextBar
<1>8. ASSUME NEW j \in Job, RowsConcluded(j) PROVE Contract!ConcludeStop(j)
  <2>1. FinishStopRows(j) /\ exec[j].status = "stopping" BY <1>8 DEF RowsConcluded
  <2>2. exec[j].reason \in Reason /\ Verdict[exec[j].reason] \in Confirmed
    BY <2>1, VerdictOfStopping
  <2>3. StatusBar' = [StatusBar EXCEPT ![j] = Verdict[exec[j].reason]]
    BY <1>0, <2>1 DEF StatusBar, FinishStopRows, ExecType
  <2>4. ReasonBar' = ReasonBar BY <1>0, <2>1 DEF ReasonBar, FinishStopRows, ExecType
  <2>5. HistBar' = HistBar
    BY <1>0, <1>1, <2>1, <2>2 DEF HistBar, FinishStopRows, ExecType, Confirmed
  <2>6. HistOf(j) \in History BY <1>2, <2>1 DEF Live
  <2>7. ContextBar' = ContextBar BY <1>0, <2>1, <2>6 DEF ContextBar, FinishStopRows, RecType
  <2>8. ReasonBar[j] = exec[j].reason BY DEF ReasonBar
  <2> QED BY <2>1, <2>3, <2>4, <2>5, <2>7, <2>8
      DEF Contract!ConcludeStop, Contract!Verdict, Verdict, StatusBar, ReasonBar, HistBar, ContextBar
<1>9. ASSUME NEW lost, NEW hs, UnconfirmRows(lost, hs)
      PROVE  UNCHANGED Contract!contractVars \/ \E l \in SUBSET Job : Contract!Unconfirm(l)
  <2> DEFINE l == {k \in Job : k \in lost /\ exec[k].status \in Live}
  <2>1. \A k \in Job : exec'[k].status = IF k \in l THEN "unconfirmed" ELSE exec[k].status
    BY <1>0, <1>9 DEF UnconfirmRows, ExecType
  <2>2. ReasonBar' = ReasonBar BY <1>0, <1>9 DEF ReasonBar, UnconfirmRows, ExecType
  <2>3. HistBar' = HistBar BY <1>1, <2>1 DEF HistBar, Live, Open
  <2>4. ContextBar' = ContextBar BY <1>0, <1>9 DEF ContextBar, UnconfirmRows, RecType
  <2>5. \A k \in l : StatusBar[k] \in Live BY DEF StatusBar
  <2>6. l \in SUBSET Job OBVIOUS
  <2> HIDE DEF l
  <2>7. StatusBar' = [k \in Job |-> IF k \in l THEN "unconfirmed" ELSE StatusBar[k]]
    BY <2>1 DEF StatusBar
  <2>8. CASE l = {}
    <3>1. StatusBar' = StatusBar BY <2>7, <2>8 DEF StatusBar
    <3> QED BY <2>2, <2>3, <2>4, <3>1
        DEF Contract!contractVars, StatusBar, ReasonBar, HistBar, ContextBar
  <2>9. CASE l # {}
    BY <2>2, <2>3, <2>4, <2>5, <2>6, <2>7, <2>9
    DEF Contract!Unconfirm, Contract!Live, Contract!Open, Live, Open,
        StatusBar, ReasonBar, HistBar, ContextBar
  <2> QED BY <2>8, <2>9
<1>10. ASSUME NEW h \in History, RowsDeleted(h) PROVE Contract!Forget(h)
  <2>1. \A k \in Job : exec[k].status \in Live => HistOf(k) # h
    BY <1>10, LiveFacts, ConstantsAssumption DEF RowsDeleted
  <2>2. Contract!LiveOn(h) = {}
    BY <2>1 DEF Contract!LiveOn, Contract!Live, Contract!Open, Live, Open
  <2>3. h # None BY ConstantsAssumption
  <2>4. StatusBar' = [k \in Job |-> IF HistBar[k] = h THEN "gone" ELSE StatusBar[k]]
    BY <1>0, <1>10, <2>3 DEF StatusBar, HistBar, RowsDeleted, ExecType
  <2>5. ReasonBar' = ReasonBar BY <1>0, <1>10 DEF ReasonBar, RowsDeleted, ExecType
  <2>6. HistBar' = HistBar BY <1>0, <1>1, <1>10 DEF HistBar, RowsDeleted, ExecType
  <2>7. ContextBar' = ContextBar BY <1>0, <1>10 DEF ContextBar, RowsDeleted, RecType
  <2> QED BY <2>2, <2>4, <2>5, <2>6, <2>7
      DEF Contract!Forget, StatusBar, ReasonBar, HistBar, ContextBar
<1>11. ASSUME NEW h \in History, RowsReconciled(h)
       PROVE  UNCHANGED Contract!contractVars \/ \E l \in SUBSET Job : Contract!Unconfirm(l)
  BY <1>9, <1>11 DEF RowsReconciled
<1>12. CASE RowsRestarted
  <2>1. UNCHANGED Contract!contractVars \/ \E l \in SUBSET Job : Contract!Unconfirm(l)
    BY <1>9, <1>12 DEF RowsRestarted
  <2> QED BY <2>1 DEF Contract!Next
<1>13. CASE \E h \in History : RowsReconciled(h) \/ RowsDeleted(h)
  BY <1>10, <1>11, <1>13 DEF Contract!Next
<1>14. CASE \E j \in Job : \/ RowsInserted(j) \/ RowsMarked(j) \/ RowsStopped(j)
                           \/ RowsFinished(j) \/ RowsConcluded(j)
  <2>1. Reason = Contract!Reason BY DEF Reason, Contract!Reason
  <2>2. PICK j \in Job : \/ RowsInserted(j) \/ RowsMarked(j) \/ RowsStopped(j)
                         \/ RowsFinished(j) \/ RowsConcluded(j)
    BY <1>14
  <2>3. CASE RowsInserted(j)
    BY <1>5, <2>3 DEF Contract!Next
  <2>4. CASE RowsStopped(j)
    <3>1. \E r \in Contract!Reason : Contract!Stop(j, r) BY <1>6, <2>1, <2>4
    <3> QED BY <3>1 DEF Contract!Next
  <2>5. CASE RowsMarked(j) \/ RowsFinished(j) \/ RowsConcluded(j)
    BY <1>4, <1>7, <1>8, <2>5 DEF Contract!Next
  <2> QED BY <2>2, <2>3, <2>4, <2>5
<1> QED BY <1>3, <1>12, <1>13, <1>14 DEF RowStep

\* The rows of ExecutionLifecycle implement ExecutionContract: whatever threads,
\* processes and failures do, the owner sees accept, start, stop and one conclusion.
THEOREM ImplementsContract == Spec => ContractSpec
<1>1. Init => Contract!Init BY RefInit
<1>2. IInv /\ [Next]_vars => [Contract!Next]_(Contract!contractVars)
  BY NextStep, RefStep DEF LifeStep, MemStep
<1> QED BY <1>1, <1>2, InductiveInvariant, PTL DEF Spec, ContractSpec, Contract!Spec

-----------------------------------------------------------------------------
(***************************************************************************)
(* The memory of the processes: the inductive invariant, on top of IInv.   *)
(***************************************************************************)

\* A thread of the job still has the lease to return.
OwingPc == {"capped", "reserved", "begun", "attached", "bound", "closing", "view", "release"}
OwesLease(k) ==
    \/ req[k].pc \in OwingPc
    \/ WorkerRuns(k) /\ worker[k].pc # "relcap"

\* The lease of one job:
\*   - while nobody has begun to release it, whoever owes it has the capacity;
\*   - release has not begun before there is something to release;
\*   - at most one of the two threads is between the halves of release;
\*   - a request that has not come that far has no lease.
LeaseOwed(k) ==
    /\ (k \notin released /\ OwesLease(k)) => k \in capped
    /\ req[k].pc \in EarlyPc => k \notin released
    /\ (req[k].pc = "relcap" \/ worker[k].pc = "relcap") => k \in capped \cap released
    /\ ~(req[k].pc = "relcap" /\ worker[k].pc = "relcap")
    /\ req[k].pc \in {"idle", "looked"} => k \notin capped
    /\ req[k].pc \in {"idle", "looked", "capped"} => k \notin leased

LeasesOwed == \A k \in Job : LeaseOwed(k)

\* A row has the epoch of its process, and no row is from the future.
RowEpoch ==
    \A k \in Job : /\ exec[k].epoch <= dbEpoch
                   /\ exec[k].status # "none" => exec[k].epoch = req[k].epoch

\* A worker about to show its result has it in the row.
SavedIsRow ==
    \A k \in Job : worker[k].pc = "saved" => exec[k].status \in {worker[k].result, "gone"}

CappedFinite == IsFiniteSet(capped)

MInv ==
    /\ LeasesOwed
    /\ RowEpoch
    /\ SavedIsRow
    /\ CappedFinite
    /\ LeaseGuardsHistory
    /\ ObserverSeesPersisted
    /\ CapacityAccounted
-----------------------------------------------------------------------------
(***************************************************************************)
(* What a step does to the leases.                                         *)
(***************************************************************************)

\* No thread but those of j moves.
OnlyJob(j) ==
    \A k \in Job : k # j => req'[k].pc = req[k].pc /\ worker'[k].pc = worker[k].pc

LeasesKept ==
    /\ UNCHANGED <<leased, capped, released, total, active>>
    /\ \A k \in Job :
          /\ OwesLease(k)' => OwesLease(k)
          /\ req'[k].pc = "relcap" => req[k].pc = "relcap"
          /\ worker'[k].pc = "relcap" => worker[k].pc = "relcap"
          /\ req'[k].pc = "capped" => req[k].pc = "capped"
          /\ req'[k].pc \in {"idle", "looked"} => req[k].pc \in {"idle", "looked"}

\* reserve_owner.
CapacityTaken(j) ==
    /\ req[j].pc = "looked" /\ req'[j].pc = "capped"
    /\ OnlyJob(j) /\ UNCHANGED worker
    /\ active[req[j].epoch][OwnerOf[HistOf(j)]] < MaxPerUser
    /\ total[req[j].epoch] < MaxTotal
    /\ TakeCapacity(j)
    /\ capped' = capped \cup {j}
    /\ UNCHANGED <<leased, released>>

\* HistoryRuntime.reserve.
HistoryTaken(j) ==
    /\ req[j].pc = "capped" /\ req'[j].pc = "reserved"
    /\ OnlyJob(j) /\ UNCHANGED worker
    /\ HistOf(j) \notin Running(req[j].epoch)
    /\ leased' = leased \cup {j}
    /\ UNCHANGED <<capped, released, total, active>>

\* The two halves of ExecutionLease.release, by either thread.
HistoryReturned(j) ==
    /\ OnlyJob(j)
    /\ \/ req[j].pc = "release" /\ req'[j].pc = "relcap" /\ worker'[j].pc = worker[j].pc
       \/ worker[j].pc = "exit" /\ worker'[j].pc = "relcap" /\ req'[j].pc = req[j].pc
    /\ j \notin released
    /\ released' = released \cup {j}
    /\ leased' = leased \ {j}
    /\ UNCHANGED <<capped, total, active>>

CapacityReturned(j) ==
    /\ OnlyJob(j)
    /\ \/ req[j].pc \in {"capped", "relcap"} /\ req'[j].pc = "done" /\ worker'[j].pc = worker[j].pc
       \/ worker[j].pc = "relcap" /\ worker'[j].pc = "exited" /\ req'[j].pc = req[j].pc
    /\ ReleaseCapacity(j)
    /\ UNCHANGED <<leased, released>>

LeaseStep ==
    \/ LeasesKept
    \/ \E j \in Job : CapacityTaken(j) \/ HistoryTaken(j) \/ HistoryReturned(j) \/ CapacityReturned(j)
    \/ \E p \in Epoch : Crash(p)

\* A channel is told a definite outcome by the row or by the worker that saved it.
ShowStep ==
    \A k \in Job : chan'[k] \in Confirmed =>
        \/ chan'[k] = chan[k]
        \/ worker[k].pc = "saved" /\ chan'[k] = worker[k].result
        \/ exec[k].status = chan'[k]

\* A worker is sent to show its result by the transaction that saved it.
SavedStep ==
    \A k \in Job : worker'[k].pc = "saved" =>
        \/ worker[k].pc = "saved" /\ worker'[k].result = worker[k].result
        \/ exec'[k].status = worker'[k].result

MemoryStep == LeaseStep /\ ShowStep /\ SavedStep
-----------------------------------------------------------------------------
(***************************************************************************)
(* The invariant is preserved by these steps.                              *)
(***************************************************************************)

LEMMA RowEpochKept ==
  ASSUME IInv, MInv, RowStep, ReqStep
  PROVE  RowEpoch'
<1>0. exec \in [Job -> ExecType] /\ RowEpoch /\ dbEpoch \in Epoch /\ \A k \in Job : exec[k].epoch \in Int
  BY DEF IInv, MInv, TypeOK, ExecType, Epoch
<1>1. \A k \in Job : exec[k].status # "none" => req'[k].epoch = req[k].epoch
  BY DEF IInv, Fresh, FreshPc, ReqStep
<1>2. ASSUME NEW k \in Job,
             exec'[k].epoch = exec[k].epoch, exec'[k].status # "none" => exec[k].status # "none",
             dbEpoch' \in Int, dbEpoch' >= dbEpoch
      PROVE  exec'[k].epoch <= dbEpoch' /\ (exec'[k].status # "none" => exec'[k].epoch = req'[k].epoch)
  BY <1>0, <1>1, <1>2 DEF RowEpoch, Epoch
<1> SUFFICES ASSUME NEW k \in Job
             PROVE  /\ exec'[k].epoch <= dbEpoch'
                    /\ exec'[k].status # "none" => exec'[k].epoch = req'[k].epoch
  BY DEF RowEpoch
<1>3. dbEpoch \in Int /\ dbEpoch >= dbEpoch BY <1>0 DEF Epoch
<1>4. CASE RowsKept BY <1>2, <1>3, <1>4 DEF RowsKept
<1>5. ASSUME NEW j \in Job, RowsInserted(j)
      PROVE  exec'[k].epoch <= dbEpoch' /\ (exec'[k].status # "none" => exec'[k].epoch = req'[k].epoch)
  <2>1. CASE k = j
    <3>1. exec'[k].epoch = dbEpoch' /\ exec'[k].epoch = req[k].epoch
      BY <1>0, <1>5, <2>1 DEF RowsInserted, InsertRows, CanBegin
    <3>2. req'[k].epoch = req[k].epoch BY <1>5, <2>1 DEF RowsInserted, ReqStep
    <3> QED BY <1>3, <1>5, <3>1, <3>2 DEF RowsInserted, InsertRows
  <2>2. CASE k # j
    <3>1. exec'[k] = exec[k] /\ dbEpoch' = dbEpoch BY <1>0, <1>5, <2>2 DEF RowsInserted, InsertRows
    <3> QED BY <1>2, <1>3, <3>1
  <2> QED BY <2>1, <2>2
<1>6. ASSUME NEW j \in Job, RowsMarked(j) \/ RowsStopped(j) \/ RowsFinished(j) \/ RowsConcluded(j)
      PROVE  exec'[k].epoch <= dbEpoch' /\ (exec'[k].status # "none" => exec'[k].epoch = req'[k].epoch)
  <2>1. exec[j].status # "none" /\ dbEpoch' = dbEpoch
    BY <1>6 DEF RowsMarked, RowsStopped, RowsFinished, RowsConcluded, CanStop, CanFinish, Open,
                StopRow, FinishRows, FinishStopRows
  <2>2. exec'[k].epoch = exec[k].epoch /\ (k # j => exec'[k] = exec[k])
    BY <1>0, <1>6 DEF RowsMarked, RowsStopped, RowsFinished, RowsConcluded,
                      StopRow, FinishRows, FinishStopRows, ExecType
  <2> QED BY <1>2, <1>3, <2>1, <2>2
<1>7. ASSUME NEW lost, NEW hs, UnconfirmRows(lost, hs), dbEpoch' \in Int, dbEpoch' >= dbEpoch
      PROVE  exec'[k].epoch <= dbEpoch' /\ (exec'[k].status # "none" => exec'[k].epoch = req'[k].epoch)
  <2>1. exec'[k].epoch = exec[k].epoch /\ (exec'[k].status # "none" => exec[k].status # "none")
    BY <1>0, <1>7 DEF UnconfirmRows, ExecType, Live, Open
  <2> QED BY <1>2, <1>7, <2>1
<1>8. ASSUME NEW h \in History, RowsDeleted(h)
      PROVE  exec'[k].epoch <= dbEpoch' /\ (exec'[k].status # "none" => exec'[k].epoch = req'[k].epoch)
  <2>1. exec'[k].epoch = exec[k].epoch /\ (exec'[k].status # "none" => exec[k].status # "none")
    BY <1>0, <1>8 DEF RowsDeleted, ExecType
  <2> QED BY <1>2, <1>3, <1>8, <2>1 DEF RowsDeleted
<1>9. ASSUME NEW h \in History, RowsReconciled(h)
      PROVE  exec'[k].epoch <= dbEpoch' /\ (exec'[k].status # "none" => exec'[k].epoch = req'[k].epoch)
  <2>1. UnconfirmRows({rec[h].active}, {h}) /\ dbEpoch' = dbEpoch BY <1>9 DEF RowsReconciled
  <2> QED BY <1>3, <1>7, <2>1
<1>10. CASE RowsRestarted
  <2>1. UnconfirmRows(Job, History) /\ dbEpoch' = dbEpoch + 1 BY <1>10 DEF RowsRestarted
  <2>2. dbEpoch' \in Int /\ dbEpoch' >= dbEpoch BY <1>3, <2>1
  <2> QED BY <1>7, <2>1, <2>2
<1> QED BY <1>4, <1>5, <1>6, <1>8, <1>9, <1>10 DEF RowStep

\* A crash takes the leases of its own process with it and no others.
CrashedOrKept(k) ==
    \/ /\ k \notin leased' /\ k \notin capped'
       /\ req'[k].pc \in {"idle", "done", "dead"} /\ worker'[k].pc \in {"none", "exited", "dead"}
       /\ req'[k].pc = "idle" => req[k].pc = "idle"
    \/ /\ k \in leased' <=> k \in leased
       /\ k \in capped' <=> k \in capped
       /\ req'[k].pc = req[k].pc /\ worker'[k].pc = worker[k].pc

\* Crash treats every job so.
LEMMA CrashLeases ==
  ASSUME IInv, NEW p \in Epoch, Crash(p), NEW k \in Job
  PROVE  CrashedOrKept(k) /\ UNCHANGED released
<1>0. req \in [Job -> ReqType] /\ worker \in [Job -> WorkerType] BY DEF IInv, TypeOK
<1>1. /\ k \in leased' <=> k \in leased /\ req[k].epoch # p
      /\ k \in capped' <=> k \in capped /\ req[k].epoch # p
      /\ UNCHANGED released
  BY DEF Crash
<1>2. /\ req[k].epoch = p /\ RequestRuns(k) => req'[k].pc = "dead"
      /\ ~(req[k].epoch = p /\ RequestRuns(k)) => req'[k] = req[k]
  BY <1>0 DEF Crash, ReqType
<1>3. /\ req[k].epoch = p /\ WorkerRuns(k) => worker'[k].pc = "dead"
      /\ ~(req[k].epoch = p /\ WorkerRuns(k)) => worker'[k] = worker[k]
  BY <1>0 DEF Crash, WorkerType
<1> QED BY <1>1, <1>2, <1>3 DEF CrashedOrKept, RequestRuns, WorkerRuns

\* Whoever owes a lease still owes it, and what is released is released once.
LEMMA LeasesOwedKept ==
  ASSUME IInv, MInv, ReqStep, LeaseStep
  PROVE  LeasesOwed'
<1> SUFFICES ASSUME NEW k \in Job PROVE LeaseOwed(k)' BY DEF LeasesOwed
<1>0. LeaseOwed(k) /\ (req[k].pc \in EarlyPc => worker[k].pc = "none")
  BY DEF IInv, Early, MInv, LeasesOwed
<1>1. req'[k].pc \in EarlyPc => req[k].pc \in EarlyPc BY DEF ReqStep
<1>2. CASE LeasesKept BY <1>0, <1>1, <1>2 DEF LeasesKept, LeaseOwed
<1>3. ASSUME NEW j \in Job, k # j,
             CapacityTaken(j) \/ HistoryTaken(j) \/ HistoryReturned(j) \/ CapacityReturned(j)
      PROVE  LeaseOwed(k)'
  <2>1. /\ OnlyJob(j) /\ (k \in leased' <=> k \in leased)
        /\ (k \in capped' <=> k \in capped) /\ (k \in released' <=> k \in released)
    BY <1>3 DEF CapacityTaken, HistoryTaken, HistoryReturned, CapacityReturned, ReleaseCapacity
  <2> QED BY <1>0, <1>3, <2>1 DEF OnlyJob, LeaseOwed, OwesLease, WorkerRuns
<1> USE DEF LeaseOwed, EarlyPc, FreshPc, OwesLease, OwingPc, WorkerRuns
<1>4. CASE CapacityTaken(k) BY <1>0, <1>4 DEF CapacityTaken
<1>5. CASE HistoryTaken(k) BY <1>0, <1>5 DEF HistoryTaken
<1>6. CASE HistoryReturned(k) BY <1>0, <1>6 DEF HistoryReturned
<1>7. CASE CapacityReturned(k) BY <1>0, <1>7 DEF CapacityReturned, ReleaseCapacity
<1>8. ASSUME NEW p \in Epoch, Crash(p) PROVE LeaseOwed(k)'
  <2>1. CrashedOrKept(k) /\ UNCHANGED released BY <1>8, CrashLeases
  <2> QED BY <1>0, <1>1, <2>1 DEF CrashedOrKept
<1> QED BY <1>2, <1>3, <1>4, <1>5, <1>6, <1>7, <1>8 DEF LeaseStep

\* Who has a lease after a step had it before, or takes it now.
LEMMA LeasedBefore ==
  ASSUME IInv, LeaseStep, NEW k \in Job, k \in leased'
  PROVE  k \in leased \/ HistoryTaken(k)
<1>1. CASE LeasesKept BY <1>1 DEF LeasesKept
<1>2. ASSUME NEW p \in Epoch, Crash(p) PROVE k \in leased BY <1>2 DEF Crash
<1> QED
  BY <1>1, <1>2
  DEF LeaseStep, CapacityTaken, HistoryTaken, HistoryReturned, CapacityReturned

\* A request that has a lease keeps its parameters.
LEMMA LeaseholderKept ==
  ASSUME IInv, MInv, ReqStep, NEW k \in Job, k \in leased \cup capped
  PROVE  req[k].pc # "idle" /\ req'[k].hist = req[k].hist /\ req'[k].epoch = req[k].epoch
BY DEF MInv, LeasesOwed, LeaseOwed, ReqStep

\* In one process a history has one leaseholder: reserve looks before it takes.
LEMMA HistoryLeasedOnceKept ==
  ASSUME IInv, MInv, ReqStep, LeaseStep
  PROVE  HistoryLeasedOnce'
<1> SUFFICES ASSUME NEW j \in leased', NEW k \in leased',
                    req'[j].epoch = req'[k].epoch, req'[j].hist = req'[k].hist, j # k
             PROVE  FALSE
  BY DEF HistoryLeasedOnce, HistOf
<1>0. leased \subseteq Job /\ HistoryLeasedOnce BY DEF IInv, TypeOK, MInv, LeaseGuardsHistory
<1>1. leased' \subseteq Job
  BY <1>0 DEF LeaseStep, LeasesKept, CapacityTaken, HistoryTaken, HistoryReturned,
              CapacityReturned, Crash
<1>2. ASSUME NEW i \in Job, i \in leased \/ HistoryTaken(i)
      PROVE  req'[i].hist = HistOf(i) /\ req'[i].epoch = req[i].epoch
  <2>1. req[i].pc # "idle" BY <1>2, LeaseholderKept DEF HistoryTaken
  <2> QED BY <2>1 DEF ReqStep, HistOf
<1>3. (j \in leased \/ HistoryTaken(j)) /\ (k \in leased \/ HistoryTaken(k))
  BY <1>1, LeasedBefore
<1>4. req[j].epoch = req[k].epoch /\ HistOf(j) = HistOf(k) BY <1>1, <1>2, <1>3
<1>5. ~(j \in leased /\ k \in leased) BY <1>0, <1>4 DEF HistoryLeasedOnce
<1>6. ASSUME NEW i \in Job, HistoryTaken(i), NEW l \in leased,
             req[i].epoch = req[l].epoch, HistOf(i) = HistOf(l)
      PROVE  FALSE
  BY <1>6 DEF HistoryTaken, Running
<1>7. ~(HistoryTaken(j) /\ HistoryTaken(k)) BY <1>1 DEF HistoryTaken, OnlyJob
<1> QED BY <1>1, <1>3, <1>4, <1>5, <1>6, <1>7

\* What has just become unconfirmed in the running process has no lease.
LEMMA NewlyUnconfirmed ==
  ASSUME IInv, MInv, RowStep, NEW k \in Job,
         exec'[k].status = "unconfirmed", exec'[k].epoch = dbEpoch'
  PROVE  k \notin leased \/ (exec[k].status = "unconfirmed" /\ exec[k].epoch = dbEpoch)
<1>0. /\ exec \in [Job -> ExecType] /\ dbEpoch \in Int /\ exec[k].epoch \in Int
      /\ exec[k].epoch <= dbEpoch
      /\ exec[k].status # "none" => exec[k].epoch = req[k].epoch
  BY DEF IInv, MInv, TypeOK, RowEpoch, ExecType, Epoch
<1>1. CASE RowsKept BY <1>1 DEF RowsKept
<1>2. ASSUME NEW j \in Job, RowsInserted(j) \/ RowsMarked(j) \/ RowsStopped(j)
                            \/ RowsFinished(j) \/ RowsConcluded(j)
      PROVE  exec[k].status = "unconfirmed" /\ exec[k].epoch = dbEpoch
  <2>1. j # k => exec'[k] = exec[k]
    BY <1>0, <1>2 DEF RowsInserted, RowsMarked, RowsStopped, RowsFinished, RowsConcluded,
                      InsertRows, StopRow, FinishRows, FinishStopRows
  <2>2. dbEpoch' = dbEpoch
    BY <1>2 DEF RowsInserted, RowsMarked, RowsStopped, RowsFinished, RowsConcluded,
                InsertRows, StopRow, FinishRows, FinishStopRows
  <2>3. CASE j = k
    <3>1. CASE RowsConcluded(k)
      <4>1. exec'[k].status \in Confirmed
        BY <1>0, <3>1, VerdictOfStopping DEF RowsConcluded, FinishStopRows, ExecType
      <4> QED BY <4>1 DEF Confirmed
    <3>2. CASE ~RowsConcluded(k)
      BY <1>0, <1>2, <2>3, <3>2 DEF RowsInserted, RowsMarked, RowsStopped, RowsFinished,
                      InsertRows, StopRow, FinishRows, ExecType
    <3> QED BY <3>1, <3>2
  <2> QED BY <2>1, <2>2, <2>3
<1>3. ASSUME NEW h \in History, RowsReconciled(h)
      PROVE  k \notin leased \/ (exec[k].status = "unconfirmed" /\ exec[k].epoch = dbEpoch)
  <2>1. /\ rec[h].active # None /\ h \notin Running(exec[rec[h].active].epoch)
        /\ UnconfirmRows({rec[h].active}, {h}) /\ dbEpoch' = dbEpoch
    BY <1>3 DEF RowsReconciled
  <2>2. CASE k = rec[h].active
    <3>1. HistOf(k) = h /\ exec[k].status \in Live
      BY <2>1, <2>2 DEF IInv, RowsAgree, ActiveIsLive
    <3>2. req[k].epoch = exec[k].epoch BY <1>0, <3>1 DEF Live, Open
    <3> QED BY <2>1, <2>2, <3>1, <3>2 DEF Running
  <2>3. CASE k # rec[h].active
    BY <1>0, <2>1, <2>3 DEF UnconfirmRows
  <2> QED BY <2>2, <2>3
<1>4. ASSUME NEW h \in History, RowsDeleted(h)
      PROVE  exec[k].status = "unconfirmed" /\ exec[k].epoch = dbEpoch
  BY <1>0, <1>4 DEF RowsDeleted, ExecType
<1>5. CASE RowsRestarted
  <2>1. exec'[k].epoch = exec[k].epoch BY <1>0, <1>5 DEF RowsRestarted, UnconfirmRows, ExecType
  <2> QED BY <1>0, <1>5, <2>1 DEF RowsRestarted
<1> QED BY <1>1, <1>2, <1>3, <1>4, <1>5 DEF RowStep

\* Reconciliation and restart leave the leaseholders of the running process alone.
LEMMA UnconfirmedHasNoLeaseKept ==
  ASSUME IInv, MInv, RowStep, LeaseStep
  PROVE  UnconfirmedHasNoLease'
<1> SUFFICES ASSUME NEW k \in Job, exec'[k].status = "unconfirmed",
                    exec'[k].epoch = dbEpoch', k \in leased'
             PROVE  FALSE
  BY DEF UnconfirmedHasNoLease
<1>1. k \notin leased \/ (exec[k].status = "unconfirmed" /\ exec[k].epoch = dbEpoch)
  BY NewlyUnconfirmed
<1>2. k \notin leased BY <1>1 DEF MInv, LeaseGuardsHistory, UnconfirmedHasNoLease
<1>3. HistoryTaken(k) BY <1>2, LeasedBefore
<1>4. exec[k].status = "none" /\ req[k].pc = "capped"
  BY <1>3 DEF HistoryTaken, IInv, Fresh, FreshPc
<1>5. RowMove(k) BY RowMoves
<1> QED BY <1>4, <1>5 DEF RowMove, Open, Live

\* A definite outcome in a row stays, or goes with its history.
LEMMA OutcomeStays ==
  ASSUME IInv, RowStep, NEW k \in Job, NEW st \in Confirmed, exec[k].status \in {st, "gone"}
  PROVE  exec'[k].status \in {st, "gone"}
<1>1. RowMove(k) BY RowMoves
<1>2. req[k].pc # "reserved" BY DEF IInv, Fresh, FreshPc, Confirmed
<1> QED BY <1>1, <1>2 DEF RowMove, Confirmed, Open, Live

\* A worker about to show its result still has it in the row.
LEMMA SavedIsRowKept ==
  ASSUME IInv, MInv, RowStep, WorkerStep, SavedStep
  PROVE  SavedIsRow'
<1> SUFFICES ASSUME NEW k \in Job, worker'[k].pc = "saved"
             PROVE  exec'[k].status \in {worker'[k].result, "gone"}
  BY DEF SavedIsRow
<1>1. worker'[k].result \in Confirmed
  BY DEF WorkerStep, WorkerType, SavedKnowsResult, Result, Confirmed
<1>2. CASE worker[k].pc = "saved" /\ worker'[k].result = worker[k].result
  BY <1>1, <1>2, OutcomeStays DEF MInv, SavedIsRow
<1> QED BY <1>2 DEF SavedStep

\* A channel shows a definite outcome only as long as the row has it.
LEMMA ObserverKept ==
  ASSUME IInv, MInv, RowStep, ShowStep
  PROVE  ObserverSeesPersisted'
<1> SUFFICES ASSUME NEW k \in Job, chan'[k] \in Confirmed
             PROVE  exec'[k].status \in {chan'[k], "gone"}
  BY DEF ObserverSeesPersisted
<1>1. exec[k].status \in {chan'[k], "gone"}
  BY DEF MInv, ObserverSeesPersisted, SavedIsRow, ShowStep
<1> QED BY <1>1, OutcomeStays

\* The jobs a capacity counter counts.
Held(p) == {k \in capped : req[k].epoch = p}
HeldBy(p, o) == {k \in capped : req[k].epoch = p /\ OwnerOf[HistOf(k)] = o}

\* One counter after one job came or left.
LEMMA CountedOneMore ==
  ASSUME NEW S, NEW T, NEW x, IsFiniteSet(S), x \notin S, T = S \cup {x}
  PROVE  Cardinality(T) = Cardinality(S) + 1
BY FS_AddElement

LEMMA CountedOneLess ==
  ASSUME NEW S, NEW T, NEW x, IsFiniteSet(S), x \in S, T = S \ {x}
  PROVE  Cardinality(T) = Cardinality(S) - 1
BY FS_RemoveElement

\* Every set of leaseholders is finite, and its size a number.
LEMMA HeldFinite ==
  ASSUME MInv, NEW p, NEW o
  PROVE  /\ IsFiniteSet(Held(p)) /\ Cardinality(Held(p)) \in Nat
         /\ IsFiniteSet(HeldBy(p, o)) /\ Cardinality(HeldBy(p, o)) \in Nat
<1>1. Held(p) \in SUBSET capped /\ HeldBy(p, o) \in SUBSET capped BY DEF Held, HeldBy
<1>2. IsFiniteSet(Held(p)) /\ IsFiniteSet(HeldBy(p, o))
  BY <1>1, FS_Subset DEF MInv, CappedFinite
<1> QED BY <1>2, FS_CardinalityType

\* What is finite stays finite.
LEMMA CappedStaysFinite ==
  ASSUME IInv, MInv, LeaseStep
  PROVE  CappedFinite'
<1>0. IsFiniteSet(capped) BY DEF MInv, CappedFinite
<1>1. ASSUME NEW j \in Job
      PROVE  IsFiniteSet(capped \cup {j}) /\ IsFiniteSet(capped \ {j})
  BY <1>0, FS_AddElement, FS_RemoveElement
<1>2. ASSUME NEW p \in Epoch, Crash(p) PROVE CappedFinite'
  <2>1. capped' \in SUBSET capped BY <1>2 DEF Crash
  <2> QED BY <1>0, <2>1, FS_Subset DEF CappedFinite
<1> QED
  BY <1>0, <1>1, <1>2
  DEF CappedFinite, LeaseStep, LeasesKept, CapacityTaken, HistoryTaken, HistoryReturned,
      CapacityReturned, ReleaseCapacity

\* The counters count the leases: taking checks the limits first, and what is
\* given back was held.
LEMMA CapacityAccountedKept ==
  ASSUME IInv, MInv, ReqStep, LeaseStep
  PROVE  CapacityAccounted'
<1>0. /\ capped \subseteq Job /\ total \in [Epoch -> Int] /\ active \in [Epoch -> [Owner -> Int]]
      /\ MaxTotal \in Int /\ MaxPerUser \in Int
  BY ConstantsAssumption DEF IInv, TypeOK
<1>a. \A p \in Epoch : total[p] = Cardinality(Held(p)) /\ total[p] <= MaxTotal
  BY DEF MInv, CapacityAccounted, Held
<1>b. \A p \in Epoch, o \in Owner :
         active[p][o] = Cardinality(HeldBy(p, o)) /\ active[p][o] <= MaxPerUser
  BY DEF MInv, CapacityAccounted, HeldBy
<1> SUFFICES ASSUME NEW p \in Epoch
             PROVE  /\ total'[p] = Cardinality(Held(p)') /\ total'[p] <= MaxTotal
                    /\ \A o \in Owner : /\ active'[p][o] = Cardinality(HeldBy(p, o)')
                                        /\ active'[p][o] <= MaxPerUser
  BY DEF CapacityAccounted, Held, HeldBy
<1>c. \A k \in capped : req'[k].epoch = req[k].epoch /\ req'[k].hist = req[k].hist
  BY <1>0, LeaseholderKept
<1>d. ASSUME capped' \subseteq capped,
             \A k \in capped : req[k].epoch = p => k \in capped'
      PROVE  Held(p)' = Held(p) /\ \A o \in Owner : HeldBy(p, o)' = HeldBy(p, o)
  BY <1>c, <1>d DEF Held, HeldBy, HistOf
<1>1. CASE UNCHANGED <<capped, total, active>>
  BY <1>1, <1>a, <1>b, <1>d
<1>2. ASSUME NEW j \in Job, CapacityTaken(j)
      PROVE  /\ total'[p] = Cardinality(Held(p)') /\ total'[p] <= MaxTotal
             /\ \A o \in Owner : /\ active'[p][o] = Cardinality(HeldBy(p, o)')
                                 /\ active'[p][o] <= MaxPerUser
  <2>0. /\ j \notin capped /\ req[j].pc = "looked"
        /\ req'[j].epoch = req[j].epoch /\ req'[j].hist = req[j].hist
        /\ req[j].epoch \in Epoch /\ OwnerOf[HistOf(j)] \in Owner
    BY <1>2, ConstantsAssumption
    DEF CapacityTaken, MInv, LeasesOwed, LeaseOwed, ReqStep, IInv, Placed, HistOf
  <2>1. /\ capped' = capped \cup {j} /\ TakeCapacity(j)
        /\ active[req[j].epoch][OwnerOf[HistOf(j)]] < MaxPerUser
        /\ total[req[j].epoch] < MaxTotal
    BY <1>2 DEF CapacityTaken
  <2>2. /\ total'[p] = Cardinality(Held(p)') /\ total'[p] <= MaxTotal
    <3>1. CASE p = req[j].epoch
      <4>1. Held(p)' = Held(p) \cup {j} /\ j \notin Held(p)
        BY <1>c, <2>0, <2>1, <3>1 DEF Held
      <4>2. Cardinality(Held(p)') = Cardinality(Held(p)) + 1
        BY <4>1, HeldFinite, CountedOneMore
      <4>3. total'[p] = total[p] + 1 BY <1>0, <2>1, <3>1 DEF TakeCapacity
      <4> QED BY <1>0, <1>a, <2>1, <3>1, <4>2, <4>3
    <3>2. CASE p # req[j].epoch
      <4>1. Held(p)' = Held(p) BY <1>c, <2>0, <2>1, <3>2 DEF Held
      <4>2. total'[p] = total[p] BY <1>0, <2>1, <3>2 DEF TakeCapacity
      <4> QED BY <1>a, <4>1, <4>2
    <3> QED BY <3>1, <3>2
  <2>3. ASSUME NEW o \in Owner
        PROVE  active'[p][o] = Cardinality(HeldBy(p, o)') /\ active'[p][o] <= MaxPerUser
    <3>1. CASE p = req[j].epoch /\ o = OwnerOf[HistOf(j)]
      <4>1. HeldBy(p, o)' = HeldBy(p, o) \cup {j} /\ j \notin HeldBy(p, o)
        BY <1>c, <2>0, <2>1, <3>1 DEF HeldBy, HistOf
      <4>2. Cardinality(HeldBy(p, o)') = Cardinality(HeldBy(p, o)) + 1
        BY <4>1, HeldFinite, CountedOneMore
      <4>3. active'[p][o] = active[p][o] + 1 BY <1>0, <2>1, <3>1 DEF TakeCapacity
      <4> QED BY <1>0, <1>b, <2>1, <3>1, <4>2, <4>3
    <3>2. CASE ~(p = req[j].epoch /\ o = OwnerOf[HistOf(j)])
      <4>1. HeldBy(p, o)' = HeldBy(p, o) BY <1>c, <2>0, <2>1, <3>2 DEF HeldBy, HistOf
      <4>2. active'[p][o] = active[p][o] BY <1>0, <2>1, <3>2 DEF TakeCapacity
      <4> QED BY <1>b, <4>1, <4>2
    <3> QED BY <3>1, <3>2
  <2> QED BY <2>2, <2>3
<1>3. ASSUME NEW j \in Job, CapacityReturned(j)
      PROVE  /\ total'[p] = Cardinality(Held(p)') /\ total'[p] <= MaxTotal
             /\ \A o \in Owner : /\ active'[p][o] = Cardinality(HeldBy(p, o)')
                                 /\ active'[p][o] <= MaxPerUser
  <2>0. LeaseOwed(j) BY DEF MInv, LeasesOwed
  <2>1. /\ capped' = capped \ {j} /\ GiveCapacity(j) /\ j \in capped
    BY <1>3, <2>0
    DEF CapacityReturned, ReleaseCapacity, LeaseOwed, OwesLease, OwingPc, EarlyPc, FreshPc
  <2>2. req[j].epoch \in Epoch /\ OwnerOf[HistOf(j)] \in Owner
    BY <2>1, LeaseholderKept, ConstantsAssumption DEF IInv, Placed, HistOf
  <2>3. /\ total'[p] = Cardinality(Held(p)') /\ total'[p] <= MaxTotal
    <3>1. CASE p = req[j].epoch
      <4>1. Held(p)' = Held(p) \ {j} /\ j \in Held(p)
        BY <1>c, <2>1, <3>1 DEF Held
      <4>2. Cardinality(Held(p)') = Cardinality(Held(p)) - 1
        BY <4>1, HeldFinite, CountedOneLess
      <4>3. total'[p] = total[p] - 1 BY <1>0, <2>1, <3>1 DEF GiveCapacity
      <4> QED BY <1>0, <1>a, <4>2, <4>3
    <3>2. CASE p # req[j].epoch
      <4>1. Held(p)' = Held(p) BY <1>c, <2>1, <3>2 DEF Held
      <4>2. total'[p] = total[p] BY <1>0, <2>1, <3>2 DEF GiveCapacity
      <4> QED BY <1>a, <4>1, <4>2
    <3> QED BY <3>1, <3>2
  <2>4. ASSUME NEW o \in Owner
        PROVE  active'[p][o] = Cardinality(HeldBy(p, o)') /\ active'[p][o] <= MaxPerUser
    <3>1. CASE p = req[j].epoch /\ o = OwnerOf[HistOf(j)]
      <4>1. HeldBy(p, o)' = HeldBy(p, o) \ {j} /\ j \in HeldBy(p, o)
        BY <1>c, <2>1, <3>1 DEF HeldBy, HistOf
      <4>2. Cardinality(HeldBy(p, o)') = Cardinality(HeldBy(p, o)) - 1
        BY <4>1, HeldFinite, CountedOneLess
      <4>3. active'[p][o] = active[p][o] - 1 BY <1>0, <2>1, <3>1 DEF GiveCapacity
      <4> QED BY <1>0, <1>b, <4>2, <4>3
    <3>2. CASE ~(p = req[j].epoch /\ o = OwnerOf[HistOf(j)])
      <4>1. HeldBy(p, o)' = HeldBy(p, o) BY <1>c, <2>1, <3>2 DEF HeldBy, HistOf
      <4>2. active'[p][o] = active[p][o] BY <1>0, <2>1, <3>2 DEF GiveCapacity
      <4> QED BY <1>b, <4>1, <4>2
    <3> QED BY <3>1, <3>2
  <2> QED BY <2>3, <2>4
<1>4. ASSUME NEW q \in Epoch, Crash(q)
      PROVE  /\ total'[p] = Cardinality(Held(p)') /\ total'[p] <= MaxTotal
             /\ \A o \in Owner : /\ active'[p][o] = Cardinality(HeldBy(p, o)')
                                 /\ active'[p][o] <= MaxPerUser
  <2>1. /\ capped' = {k \in capped : req[k].epoch # q}
        /\ total' = [total EXCEPT ![q] = 0]
        /\ active' = [active EXCEPT ![q] = [o \in Owner |-> 0]]
    BY <1>4 DEF Crash
  <2>2. CASE p = q
    <3>1. Held(p)' = {} /\ \A o \in Owner : HeldBy(p, o)' = {}
      BY <1>c, <2>1, <2>2 DEF Held, HeldBy
    <3>2. total'[p] = 0 /\ \A o \in Owner : active'[p][o] = 0 BY <1>0, <2>1, <2>2
    <3> QED BY <3>1, <3>2, FS_EmptySet, ConstantsAssumption
  <2>3. CASE p # q
    <3>1. total'[p] = total[p] /\ active'[p] = active[p] BY <1>0, <2>1, <2>3
    <3>2. Held(p)' = Held(p) /\ \A o \in Owner : HeldBy(p, o)' = HeldBy(p, o)
      BY <1>d, <2>1, <2>3
    <3> QED BY <1>a, <1>b, <3>1, <3>2
  <2> QED BY <2>2, <2>3
<1> QED
  BY <1>1, <1>2, <1>3, <1>4
  DEF LeaseStep, LeasesKept, HistoryTaken, HistoryReturned

\* The invariant about the memory is inductive, relative to the one about the rows.
LEMMA MemoryInvariance ==
  ASSUME IInv, MInv, LifeStep, MemoryStep
  PROVE  MInv'
<1> USE DEF LifeStep, MemStep, MemoryStep
<1>1. LeasesOwed' BY LeasesOwedKept
<1>2. RowEpoch' BY RowEpochKept
<1>3. SavedIsRow' BY SavedIsRowKept
<1>4. CappedFinite' BY CappedStaysFinite
<1>5. HistoryLeasedOnce' BY HistoryLeasedOnceKept
<1>6. UnconfirmedHasNoLease' BY UnconfirmedHasNoLeaseKept
<1>7. ObserverSeesPersisted' BY ObserverKept
<1>8. CapacityAccounted' BY CapacityAccountedKept
<1> QED
  BY <1>1, <1>2, <1>3, <1>4, <1>5, <1>6, <1>7, <1>8 DEF MInv, LeaseGuardsHistory
-----------------------------------------------------------------------------
(***************************************************************************)
(* The pieces of MemoryStep for the ways an action moves its threads.      *)
(***************************************************************************)

\* GoReq moves one request.
LEMMA OneRequest ==
  ASSUME IInv, NEW j \in Job, NEW next, GoReq(j, next)
  PROVE  req'[j].pc = next /\ \A k \in Job : k # j => req'[k] = req[k]
BY DEF IInv, TypeOK, ReqType, GoReq

\* GoWorker moves one worker, which keeps its result.
LEMMA OneWorker ==
  ASSUME IInv, NEW j \in Job, NEW next, GoWorker(j, next)
  PROVE  /\ worker'[j].pc = next /\ worker'[j].result = worker[j].result
         /\ \A k \in Job : k # j => worker'[k] = worker[k]
BY DEF IInv, TypeOK, WorkerType, GoWorker

\* Threads of one job move and leave every lease where it is.
LEMMA ThreadsQuiet ==
  ASSUME IInv, NEW j \in Job, OnlyJob(j),
         UNCHANGED <<leased, capped, released, total, active>>,
         OwesLease(j)' => OwesLease(j),
         req'[j].pc \in {"relcap", "capped", "idle", "looked"} => req'[j].pc = req[j].pc,
         worker'[j].pc = "relcap" => worker[j].pc = "relcap"
  PROVE  LeasesKept
<1>1. ASSUME NEW k \in Job, k # j PROVE OwesLease(k)' => OwesLease(k)
  BY <1>1 DEF OnlyJob, OwesLease, WorkerRuns
<1> QED BY <1>1 DEF LeasesKept, OnlyJob

\* No worker is sent to show a result.
LEMMA SavedQuiet ==
  ASSUME \A k \in Job : worker'[k].pc = "saved" => worker'[k] = worker[k]
  PROVE  SavedStep
BY DEF SavedStep

\* A request moves on without touching a lease.
LEMMA RequestQuiet ==
  ASSUME IInv, NEW j \in Job, NEW next, GoReq(j, next),
         next \notin {"relcap", "capped", "idle", "looked"},
         next \in OwingPc => req[j].pc \in OwingPc,
         UNCHANGED <<worker, leased, capped, released, total, active>>, ShowStep
  PROVE  MemoryStep
<1>1. req'[j].pc = next /\ \A k \in Job : k # j => req'[k] = req[k] BY OneRequest
<1>2. OnlyJob(j) BY <1>1 DEF OnlyJob
<1>3. OwesLease(j)' => OwesLease(j) BY <1>1 DEF OwesLease, WorkerRuns
<1>4. LeasesKept BY <1>1, <1>2, <1>3, ThreadsQuiet
<1>5. SavedStep BY SavedQuiet
<1> QED BY <1>4, <1>5 DEF MemoryStep, LeaseStep

\* A worker moves on without touching a lease.
LEMMA WorkerQuiet ==
  ASSUME IInv, NEW j \in Job, NEW next, GoWorker(j, next), next \notin {"relcap", "saved"},
         WorkerRuns(j), worker[j].pc # "relcap",
         UNCHANGED <<req, leased, capped, released, total, active>>, ShowStep
  PROVE  MemoryStep
<1>1. worker'[j].pc = next /\ \A k \in Job : k # j => worker'[k] = worker[k] BY OneWorker
<1>2. OnlyJob(j) BY <1>1 DEF OnlyJob
<1>3. OwesLease(j) BY DEF OwesLease
<1>4. LeasesKept BY <1>1, <1>2, <1>3, ThreadsQuiet
<1>5. SavedStep BY <1>1, SavedQuiet
<1> QED BY <1>4, <1>5 DEF MemoryStep, LeaseStep

\* No thread moves.
LEMMA ThreadsStill ==
  ASSUME UNCHANGED <<req, worker, leased, capped, released, total, active>>, ShowStep
  PROVE  MemoryStep
BY DEF MemoryStep, LeaseStep, LeasesKept, SavedStep, OwesLease, WorkerRuns

\* A silent channel shows nothing new.
LEMMA ShowNothing == ASSUME UNCHANGED chan PROVE ShowStep
BY DEF ShowStep

\* finish shows one status, in one channel.
LEMMA ShowFinish ==
  ASSUME IInv, NEW j \in Job, NEW st, FinishChannel(j, st),
         st \in Confirmed => \/ worker[j].pc = "saved" /\ st = worker[j].result
                             \/ exec[j].status = st
  PROVE  ShowStep
BY DEF IInv, TypeOK, FinishChannel, ShowStep

\* A signal shows no outcome.
LEMMA ShowSignal ==
  ASSUME IInv, NEW j \in Job, NEW r, Signal(j, r)
  PROVE  ShowStep
BY DEF IInv, TypeOK, Signal, ShowStep, Confirmed

\* runtime and its parts.
LEMMA RuntimeStill ==
  ASSUME UNCHANGED runtime
  PROVE  UNCHANGED <<leased, capped, released, chan, total, active>> /\ ShowStep
<1>1. UNCHANGED <<leased, capped, released, chan, total, active>>
  BY DEF runtime, leases, counters
<1> QED BY <1>1, ShowNothing
-----------------------------------------------------------------------------
(***************************************************************************)
(* One lemma per action.                                                   *)
(***************************************************************************)

LEMMA SubmitMem ==
  ASSUME IInv, NEW j \in Job, NEW p \in Epoch, NEW h \in History, NEW o \in Operation,
         NEW rev, Submit(j, p, h, o, rev)
  PROVE  MemoryStep
<1>1. req[j].pc = "idle" /\ UNCHANGED <<worker, runtime>> BY DEF Submit
<1>2. /\ req'[j].pc \in {"looked", "done"}
      /\ \A k \in Job : k # j => req'[k] = req[k]
  BY DEF Submit, IInv, TypeOK
<1>3. UNCHANGED <<leased, capped, released, chan, total, active>> /\ ShowStep
  BY <1>1, RuntimeStill
<1>4. \A k \in Job : OwesLease(k)' => OwesLease(k)
  BY <1>1, <1>2 DEF OwesLease, OwingPc, WorkerRuns
<1>5. LeasesKept BY <1>1, <1>2, <1>3, <1>4 DEF LeasesKept
<1>6. SavedStep BY <1>1, SavedQuiet
<1> QED BY <1>3, <1>5, <1>6 DEF MemoryStep, LeaseStep

LEMMA ReserveOwnerMem ==
  ASSUME IInv, NEW j \in Job, ReserveOwner(j) PROVE MemoryStep
<1>1. req[j].pc = "looked" /\ UNCHANGED <<worker, leased, released, chan>>
  BY DEF ReserveOwner
<1>2. ShowStep /\ SavedStep BY <1>1, ShowNothing, SavedQuiet
<1>3. CASE CanReserveOwner(j)
  <2>1. TakeCapacity(j) /\ capped' = capped \cup {j} /\ GoReq(j, "capped")
    BY <1>3 DEF ReserveOwner
  <2>2. req'[j].pc = "capped" /\ \A k \in Job : k # j => req'[k] = req[k] BY <2>1, OneRequest
  <2>3. OnlyJob(j) BY <1>1, <2>2 DEF OnlyJob
  <2>4. CapacityTaken(j)
    BY <1>1, <1>3, <2>1, <2>2, <2>3 DEF CapacityTaken, CanReserveOwner
  <2> QED BY <1>2, <2>4 DEF MemoryStep, LeaseStep
<1>4. CASE ~CanReserveOwner(j)
  <2>1. GoReq(j, "done") /\ UNCHANGED <<total, active, capped>>
    BY <1>4 DEF ReserveOwner, counters
  <2> QED BY <1>1, <1>2, <2>1, RequestQuiet DEF OwingPc
<1> QED BY <1>3, <1>4

LEMMA ReserveHistoryMem ==
  ASSUME IInv, NEW j \in Job, ReserveHistory(j) PROVE MemoryStep
<1>1. req[j].pc = "capped" /\ UNCHANGED <<worker, released, chan>>
  BY DEF ReserveHistory
<1>2. ShowStep /\ SavedStep BY <1>1, ShowNothing, SavedQuiet
<1>3. CASE CanReserveHistory(j)
  <2>1. leased' = leased \cup {j} /\ GoReq(j, "reserved") /\ UNCHANGED <<total, active, capped>>
    BY <1>3 DEF ReserveHistory, counters
  <2>2. req'[j].pc = "reserved" /\ \A k \in Job : k # j => req'[k] = req[k]
    BY <2>1, OneRequest
  <2>3. OnlyJob(j) BY <1>1, <2>2 DEF OnlyJob
  <2>4. HistoryTaken(j)
    BY <1>1, <1>3, <2>1, <2>2, <2>3 DEF HistoryTaken, CanReserveHistory
  <2> QED BY <1>2, <2>4 DEF MemoryStep, LeaseStep
<1>4. CASE ~CanReserveHistory(j)
  <2>1. GoReq(j, "done") /\ ReleaseCapacity(j) /\ UNCHANGED leased
    BY <1>4 DEF ReserveHistory
  <2>2. req'[j].pc = "done" /\ \A k \in Job : k # j => req'[k] = req[k] BY <2>1, OneRequest
  <2>3. OnlyJob(j) BY <1>1, <2>2 DEF OnlyJob
  <2>4. CapacityReturned(j) BY <1>1, <2>1, <2>2, <2>3 DEF CapacityReturned
  <2> QED BY <1>2, <2>4 DEF MemoryStep, LeaseStep
<1> QED BY <1>3, <1>4

LEMMA BeginAttemptMem ==
  ASSUME IInv, NEW j \in Job, BeginAttempt(j) PROVE MemoryStep
<1>1. req[j].pc = "reserved" /\ UNCHANGED <<worker, runtime>> BY DEF BeginAttempt
<1>2. PICK next \in {"begun", "release"} : GoReq(j, next)
  <2>1. GoReq(j, "begun") \/ GoReq(j, "release") BY DEF BeginAttempt
  <2> QED BY <2>1
<1> QED BY <1>1, <1>2, RuntimeStill, RequestQuiet DEF OwingPc

LEMMA AttachProgressMem ==
  ASSUME IInv, NEW j \in Job, AttachProgress(j) PROVE MemoryStep
<1>1. /\ req[j].pc = "begun" /\ chan' = [chan EXCEPT ![j] = "accepted"]
      /\ UNCHANGED <<leased, capped, released, total, active>>
  BY DEF AttachProgress, leases, counters
<1>2. ShowStep BY <1>1 DEF ShowStep, IInv, TypeOK, Confirmed
<1>3. /\ req'[j].pc \in {"attached", "closing"} /\ worker'[j].pc \in {worker[j].pc, "fail"}
      /\ \A k \in Job : k # j => req'[k] = req[k] /\ worker'[k] = worker[k]
      /\ worker'[j].pc = "saved" => worker'[j] = worker[j]
  <2>1. CASE /\ req' = [req EXCEPT ![j].pc = "attached", ![j].seen = exec[j].reason]
             /\ UNCHANGED worker
    BY <2>1 DEF IInv, TypeOK, ReqType
  <2>2. CASE GoReq(j, "closing") /\ GoWorker(j, "fail") BY <2>2, OneRequest, OneWorker
  <2> QED BY <2>1, <2>2 DEF AttachProgress
<1>4. OnlyJob(j) /\ OwesLease(j) BY <1>1, <1>3 DEF OnlyJob, OwesLease, OwingPc
<1>5. LeasesKept BY <1>1, <1>3, <1>4, ThreadsQuiet
<1>6. SavedStep BY <1>3, SavedQuiet
<1> QED BY <1>2, <1>5, <1>6 DEF MemoryStep, LeaseStep

LEMMA BindStopControlMem ==
  ASSUME IInv, NEW j \in Job, BindStopControl(j) PROVE MemoryStep
<1>1. /\ req[j].pc = "attached"
      /\ chan' = [chan EXCEPT ![j] = IF req[j].seen # None THEN "stopping" ELSE @]
      /\ req' = [req EXCEPT ![j].pc = "bound", ![j].seen = None]
      /\ UNCHANGED <<worker, leased, capped, released, total, active>>
  BY DEF BindStopControl, leases, counters
<1>2. ShowStep BY <1>1 DEF ShowStep, IInv, TypeOK, Confirmed
<1>3. req'[j].pc = "bound" /\ \A k \in Job : k # j => req'[k] = req[k]
  BY <1>1 DEF IInv, TypeOK, ReqType
<1>4. OnlyJob(j) /\ OwesLease(j) BY <1>1, <1>3 DEF OnlyJob, OwesLease, OwingPc
<1>5. LeasesKept BY <1>1, <1>3, <1>4, ThreadsQuiet
<1>6. SavedStep BY <1>1, SavedQuiet
<1> QED BY <1>2, <1>5, <1>6 DEF MemoryStep, LeaseStep

LEMMA ScheduleMem ==
  ASSUME IInv, NEW j \in Job, Schedule(j) PROVE MemoryStep
<1>1. req[j].pc = "bound" /\ UNCHANGED runtime BY DEF Schedule
<1>2. PICK a \in {"view", "closing"}, b \in {"queued", "fail"} : GoReq(j, a) /\ GoWorker(j, b)
  BY DEF Schedule
<1>3. /\ req'[j].pc = a /\ worker'[j].pc = b
      /\ \A k \in Job : k # j => req'[k] = req[k] /\ worker'[k] = worker[k]
  BY <1>2, OneRequest, OneWorker
<1>4. OnlyJob(j) /\ OwesLease(j) BY <1>1, <1>3 DEF OnlyJob, OwesLease, OwingPc
<1>5. UNCHANGED <<leased, capped, released, chan, total, active>> /\ ShowStep
  BY <1>1, RuntimeStill
<1>6. LeasesKept BY <1>3, <1>4, <1>5, ThreadsQuiet
<1>7. SavedStep BY <1>3, SavedQuiet
<1> QED BY <1>5, <1>6, <1>7 DEF MemoryStep, LeaseStep

LEMMA ViewMem ==
  ASSUME IInv, NEW j \in Job, View(j) PROVE MemoryStep
<1>1. req[j].pc = "view" /\ UNCHANGED <<worker, runtime>> BY DEF View
<1>2. PICK a \in {"done", "release"} : GoReq(j, a) BY DEF View
<1> QED BY <1>1, <1>2, RuntimeStill, RequestQuiet DEF OwingPc

\* Both threads release in the same way.
LEMMA ReleaseShows ==
  ASSUME IInv, NEW j \in Job, ReleaseHistory(j) PROVE ShowStep
<1>1. "unconfirmed" \notin Confirmed BY DEF Confirmed
<1> QED BY <1>1, ShowFinish, ShowNothing DEF ReleaseHistory

LEMMA RequestReleaseMem ==
  ASSUME IInv, NEW j \in Job, RequestRelease(j) PROVE MemoryStep
<1>1. req[j].pc = "release" /\ UNCHANGED <<worker, capped, total, active>>
  BY DEF RequestRelease, counters
<1>2. CASE ReleaseHistory(j) /\ GoReq(j, "relcap")
  <2>1. req'[j].pc = "relcap" /\ \A k \in Job : k # j => req'[k] = req[k] BY <1>2, OneRequest
  <2>2. OnlyJob(j) BY <1>1, <2>1 DEF OnlyJob
  <2>3. HistoryReturned(j) BY <1>1, <1>2, <2>1, <2>2 DEF HistoryReturned, ReleaseHistory
  <2>4. ShowStep /\ SavedStep BY <1>1, <1>2, ReleaseShows, SavedQuiet
  <2> QED BY <2>3, <2>4 DEF MemoryStep, LeaseStep
<1>3. CASE GoReq(j, "done") /\ UNCHANGED <<leased, released, bound, chan>>
  BY <1>1, <1>3, ShowNothing, RequestQuiet DEF OwingPc
<1> QED BY <1>2, <1>3 DEF RequestRelease

LEMMA RequestReleaseCapacityMem ==
  ASSUME IInv, NEW j \in Job, RequestReleaseCapacity(j) PROVE MemoryStep
<1>1. /\ req[j].pc = "relcap" /\ ReleaseCapacity(j) /\ GoReq(j, "done")
      /\ UNCHANGED <<worker, leased, released, chan>>
  BY DEF RequestReleaseCapacity
<1>2. req'[j].pc = "done" /\ \A k \in Job : k # j => req'[k] = req[k] BY <1>1, OneRequest
<1>3. OnlyJob(j) BY <1>1, <1>2 DEF OnlyJob
<1>4. CapacityReturned(j) BY <1>1, <1>2, <1>3 DEF CapacityReturned
<1>5. ShowStep /\ SavedStep BY <1>1, ShowNothing, SavedQuiet
<1> QED BY <1>4, <1>5 DEF MemoryStep, LeaseStep

\* A worker in the middle of its work.
LEMMA AtWork ==
  ASSUME NEW j \in Job,
         worker[j].pc \in {"queued", "marked", "ready", "working", "saving", "saved", "fail",
                           "stopped", "verdict", "conclude"}
  PROVE  WorkerRuns(j) /\ worker[j].pc # "relcap"
BY DEF WorkerRuns

LEMMA MarkRunningMem ==
  ASSUME IInv, NEW j \in Job, MarkRunning(j) PROVE MemoryStep
<1>1. worker[j].pc = "queued" /\ UNCHANGED <<req, runtime>> BY DEF MarkRunning
<1>2. PICK next \in {"marked", "stopped", "fail"} : GoWorker(j, next) BY DEF MarkRunning
<1> QED BY <1>1, <1>2, RuntimeStill, AtWork, WorkerQuiet

LEMMA ShowRunningMem ==
  ASSUME IInv, NEW j \in Job, ShowRunning(j) PROVE MemoryStep
<1>1. /\ worker[j].pc = "marked"
      /\ chan' = [chan EXCEPT ![j] = IF @ \in Open THEN "running" ELSE @]
      /\ UNCHANGED <<req, leased, capped, released, total, active>>
  BY DEF ShowRunning, leases, counters
<1>2. PICK next \in {"fail", "ready"} : GoWorker(j, next) BY DEF ShowRunning
<1>3. ShowStep BY <1>1 DEF ShowStep, IInv, TypeOK, Confirmed
<1> QED BY <1>1, <1>2, <1>3, AtWork, WorkerQuiet

LEMMA CheckpointMem ==
  ASSUME IInv, NEW j \in Job, Checkpoint(j) PROVE MemoryStep
<1>1. /\ worker[j].pc \in {"ready", "working"}
      /\ UNCHANGED <<req, leased, capped, released, total, active>>
  BY DEF Checkpoint, leases, counters
<1>2. PICK next \in {"stopped", "working"} : GoWorker(j, next) BY DEF Checkpoint
<1>3. ShowStep
  <2>1. UNCHANGED chan \/ \E r : Signal(j, r)
    BY DEF Checkpoint, RequestStopAndSignal
  <2> QED BY <2>1, ShowNothing, ShowSignal
<1> QED BY <1>1, <1>2, <1>3, AtWork, WorkerQuiet

LEMMA BusinessEndsMem ==
  ASSUME IInv, NEW j \in Job, BusinessEnds(j) PROVE MemoryStep
<1>1. worker[j].pc = "working" /\ UNCHANGED <<req, runtime>> BY DEF BusinessEnds
<1>2. UNCHANGED <<leased, capped, released, chan, total, active>> /\ ShowStep
  BY <1>1, RuntimeStill
<1>3. CASE GoWorker(j, "fail") BY <1>1, <1>2, <1>3, AtWork, WorkerQuiet
<1>4. ASSUME NEW r, worker' = [worker EXCEPT ![j] = [pc |-> "saving", result |-> r]]
      PROVE  MemoryStep
  <2>1. worker'[j].pc = "saving" /\ \A k \in Job : k # j => worker'[k] = worker[k]
    BY <1>4 DEF IInv, TypeOK
  <2>2. OnlyJob(j) BY <1>1, <2>1 DEF OnlyJob
  <2>3. OwesLease(j) BY <1>1 DEF OwesLease, WorkerRuns
  <2>4. LeasesKept BY <1>1, <1>2, <2>1, <2>2, <2>3, ThreadsQuiet
  <2>5. SavedStep BY <2>1, SavedQuiet
  <2> QED BY <1>2, <2>4, <2>5 DEF MemoryStep, LeaseStep
<1> QED BY <1>3, <1>4 DEF BusinessEnds

\* A result is shown only after the transaction that saved it.
LEMMA SaveResultMem ==
  ASSUME IInv, NEW j \in Job, SaveResult(j) PROVE MemoryStep
<1>1. worker[j].pc = "saving" /\ UNCHANGED <<req, runtime>> BY DEF SaveResult
<1>2. UNCHANGED <<leased, capped, released, chan, total, active>> /\ ShowStep
  BY <1>1, RuntimeStill
<1>3. CASE GoWorker(j, "saved")
  <2>1. worker[j].result \in {"succeeded", "failed"} /\ FinishRows(j, worker[j].result)
    <3>1. worker'[j].pc = "saved" BY <1>3, OneWorker
    <3>2. worker[j].result \in Result BY DEF IInv, TypeOK, WorkerType
    <3>3. \A next : GoWorker(j, next) => next = "saved" BY <3>1, OneWorker
    <3> QED BY <3>2, <3>3 DEF SaveResult, Result
  <2>2. exec'[j].status = worker[j].result
    BY <2>1 DEF FinishRows, IInv, TypeOK, ExecType
  <2>3. /\ worker'[j].pc = "saved" /\ worker'[j].result = worker[j].result
        /\ \A k \in Job : k # j => worker'[k] = worker[k]
    BY <1>3, OneWorker
  <2>4. SavedStep BY <2>2, <2>3 DEF SavedStep
  <2>5. OnlyJob(j) /\ OwesLease(j) BY <1>1, <2>3 DEF OnlyJob, OwesLease, WorkerRuns
  <2>6. LeasesKept BY <1>1, <1>2, <2>3, <2>5, ThreadsQuiet
  <2> QED BY <1>2, <2>4, <2>6 DEF MemoryStep, LeaseStep
<1>4. ASSUME NEW next \in {"fail", "stopped"}, GoWorker(j, next) PROVE MemoryStep
  BY <1>1, <1>2, <1>4, AtWork, WorkerQuiet
<1>5. \/ GoWorker(j, "saved") \/ GoWorker(j, "fail") \/ GoWorker(j, "stopped")
  BY DEF SaveResult
<1> QED BY <1>3, <1>4, <1>5

LEMMA ShowResultMem ==
  ASSUME IInv, NEW j \in Job, ShowResult(j) PROVE MemoryStep
<1>1. /\ worker[j].pc = "saved" /\ FinishChannel(j, worker[j].result) /\ GoWorker(j, "exit")
      /\ UNCHANGED <<req, leased, capped, released, total, active>>
  BY DEF ShowResult, leases, counters
<1>2. ShowStep BY <1>1, ShowFinish
<1> QED BY <1>1, <1>2, AtWork, WorkerQuiet

LEMMA PersistFailureMem ==
  ASSUME IInv, NEW j \in Job, PersistFailure(j) PROVE MemoryStep
<1>1. worker[j].pc = "fail" /\ UNCHANGED <<req, runtime>> BY DEF PersistFailure
<1>2. PICK next \in {"stopped", "conclude"} : GoWorker(j, next) BY DEF PersistFailure
<1> QED BY <1>1, <1>2, RuntimeStill, AtWork, WorkerQuiet

LEMMA PersistStopMem ==
  ASSUME IInv, NEW j \in Job, PersistStop(j) PROVE MemoryStep
<1>1. worker[j].pc = "stopped" /\ UNCHANGED <<req, runtime>> BY DEF PersistStop
<1>2. PICK next \in {"verdict", "conclude"} : GoWorker(j, next) BY DEF PersistStop
<1> QED BY <1>1, <1>2, RuntimeStill, AtWork, WorkerQuiet

LEMMA PersistVerdictMem ==
  ASSUME IInv, NEW j \in Job, PersistVerdict(j) PROVE MemoryStep
<1>1. worker[j].pc = "verdict" /\ GoWorker(j, "conclude") /\ UNCHANGED <<req, runtime>>
  BY DEF PersistVerdict
<1> QED BY <1>1, RuntimeStill, AtWork, WorkerQuiet

\* What the row says is shown, or that nothing is known.
LEMMA FinishFromPersistenceMem ==
  ASSUME IInv, NEW j \in Job, FinishFromPersistence(j) PROVE MemoryStep
<1>1. /\ worker[j].pc = "conclude"
      /\ UNCHANGED <<leased, capped, released, total, active>>
  BY DEF FinishFromPersistence, leases, counters
<1>2. ShowStep
  <2>1. PICK st : /\ FinishChannel(j, st)
                  /\ st = "unconfirmed" \/ (st = exec[j].status /\ exec[j].status \in Confirmed)
    BY DEF FinishFromPersistence
  <2>2. st \in Confirmed => exec[j].status = st BY <2>1 DEF Confirmed
  <2> QED BY <2>1, <2>2, ShowFinish
<1>3. CASE GoWorker(j, "exited") /\ GoReq(j, "release")
  <2>1. /\ req'[j].pc = "release" /\ worker'[j].pc = "exited"
        /\ \A k \in Job : k # j => req'[k] = req[k] /\ worker'[k] = worker[k]
    BY <1>3, OneRequest, OneWorker
  <2>2. OnlyJob(j) /\ OwesLease(j) BY <1>1, <2>1 DEF OnlyJob, OwesLease, WorkerRuns
  <2>3. LeasesKept BY <1>1, <2>1, <2>2, ThreadsQuiet
  <2>4. SavedStep BY <2>1, SavedQuiet
  <2> QED BY <1>2, <2>3, <2>4 DEF MemoryStep, LeaseStep
<1>4. CASE GoWorker(j, "exit") /\ UNCHANGED req
  BY <1>1, <1>2, <1>4, AtWork, WorkerQuiet
<1> QED BY <1>3, <1>4 DEF FinishFromPersistence

LEMMA WorkerReleaseMem ==
  ASSUME IInv, NEW j \in Job, WorkerRelease(j) PROVE MemoryStep
<1>1. worker[j].pc = "exit" /\ UNCHANGED <<req, capped, total, active>>
  BY DEF WorkerRelease, counters
<1>2. CASE ReleaseHistory(j) /\ GoWorker(j, "relcap")
  <2>1. worker'[j].pc = "relcap" /\ \A k \in Job : k # j => worker'[k] = worker[k]
    BY <1>2, OneWorker
  <2>2. OnlyJob(j) BY <1>1, <2>1 DEF OnlyJob
  <2>3. HistoryReturned(j) BY <1>1, <1>2, <2>1, <2>2 DEF HistoryReturned, ReleaseHistory
  <2>4. ShowStep /\ SavedStep BY <1>2, <2>1, ReleaseShows, SavedQuiet
  <2> QED BY <2>3, <2>4 DEF MemoryStep, LeaseStep
<1>3. CASE GoWorker(j, "exited") /\ UNCHANGED <<leased, released, bound, chan>>
  BY <1>1, <1>3, ShowNothing, WorkerQuiet DEF WorkerRuns
<1> QED BY <1>2, <1>3 DEF WorkerRelease

LEMMA WorkerReleaseCapacityMem ==
  ASSUME IInv, NEW j \in Job, WorkerReleaseCapacity(j) PROVE MemoryStep
<1>1. /\ worker[j].pc = "relcap" /\ ReleaseCapacity(j) /\ GoWorker(j, "exited")
      /\ UNCHANGED <<req, leased, released, chan>>
  BY DEF WorkerReleaseCapacity
<1>2. worker'[j].pc = "exited" /\ \A k \in Job : k # j => worker'[k] = worker[k]
  BY <1>1, OneWorker
<1>3. OnlyJob(j) BY <1>1, <1>2 DEF OnlyJob
<1>4. CapacityReturned(j) BY <1>1, <1>2, <1>3 DEF CapacityReturned
<1>5. ShowStep /\ SavedStep BY <1>1, <1>2, ShowNothing, SavedQuiet
<1> QED BY <1>4, <1>5 DEF MemoryStep, LeaseStep

\* The steps that no thread of a job takes.
LEMMA OtherMem ==
  ASSUME IInv,
         \/ \E j \in Job : Monitor(j) \/ Expire(j)
         \/ \E j \in Job, p \in Epoch : Cancel(j, p)
         \/ \E m \in sig : DeliverSignal(m)
         \/ \E h \in History, p \in Epoch : Reconcile(h, p) \/ DeleteHistory(h, p)
         \/ \E p \in Epoch : StartProcess(p) \/ LoseGuard(p) \/ CloseAdmission(p) \/ Drained(p)
         \/ UNCHANGED vars
  PROVE  MemoryStep
<1>1. UNCHANGED <<req, worker, leased, capped, released, total, active>>
  BY DEF Monitor, Expire, Cancel, DeliverSignal, Reconcile, DeleteHistory, StartProcess,
         LoseGuard, CloseAdmission, Drained, vars, runtime, leases, counters
<1>2. \/ UNCHANGED chan
      \/ \E j \in Job : \E r : Signal(j, r)
  <2>1. ASSUME NEW m \in sig, DeliverSignal(m)
        PROVE  UNCHANGED chan \/ \E j \in Job : \E r : Signal(j, r)
    <3>1. m.job \in Job BY DEF IInv, TypeOK, SigType
    <3>2. UNCHANGED chan \/ Signal(m.job, m.reason) BY <2>1 DEF DeliverSignal
    <3> QED BY <3>1, <3>2
  <2>2. ASSUME NEW j \in Job, Monitor(j) PROVE UNCHANGED chan \/ \E r : Signal(j, r)
    BY <2>2 DEF Monitor
  <2> QED
    BY <2>1, <2>2
    DEF Expire, Cancel, Reconcile, DeleteHistory, StartProcess,
        LoseGuard, CloseAdmission, Drained, vars, runtime, leases, control
<1>3. ShowStep BY <1>2, ShowNothing, ShowSignal
<1> QED BY <1>1, <1>3, ThreadsStill

\* A crash shows nothing.
LEMMA CrashMem ==
  ASSUME IInv, NEW p \in Epoch, Crash(p) PROVE MemoryStep
<1>1. \A k \in Job : chan'[k] = "none" \/ chan'[k] = chan[k] BY DEF Crash
<1>2. ShowStep BY <1>1 DEF ShowStep, Confirmed
<1>3. \A k \in Job : worker'[k] = worker[k] \/ worker'[k].pc = "dead"
  BY DEF Crash, IInv, TypeOK, WorkerType
<1>4. SavedStep BY <1>3, SavedQuiet
<1> QED BY <1>2, <1>4 DEF MemoryStep, LeaseStep

\* Every step of the system is a memory step.
LEMMA NextMem == ASSUME IInv, [Next]_vars PROVE MemoryStep
<1>1. ASSUME NEW j \in Job, RequestThread(j) PROVE MemoryStep
  BY <1>1, ReserveOwnerMem, ReserveHistoryMem, BeginAttemptMem, AttachProgressMem,
     BindStopControlMem, ScheduleMem, ViewMem, RequestReleaseMem, RequestReleaseCapacityMem
  DEF RequestThread
<1>2. ASSUME NEW j \in Job, WorkerThread(j) PROVE MemoryStep
  BY <1>2, MarkRunningMem, ShowRunningMem, CheckpointMem, BusinessEndsMem, SaveResultMem,
     ShowResultMem, PersistFailureMem, PersistStopMem, PersistVerdictMem,
     FinishFromPersistenceMem, WorkerReleaseMem, WorkerReleaseCapacityMem
  DEF WorkerThread
<1>3. CASE \E j \in Job, p \in Epoch, h \in History, o \in Operation :
             \E rev \in 0..rec[h].ctx : Submit(j, p, h, o, rev)
  BY <1>3, SubmitMem
<1>4. CASE \E p \in Epoch : Crash(p) BY <1>4, CrashMem
<1> QED BY <1>1, <1>2, <1>3, <1>4, OtherMem DEF Next, AtRest
-----------------------------------------------------------------------------
(***************************************************************************)
(* The theorems.                                                           *)
(***************************************************************************)

\* The invariant holds at the start.
LEMMA InitMInv == ASSUME Init PROVE MInv
<1>1. LeasesOwed
  BY DEF Init, LeasesOwed, LeaseOwed, OwesLease, OwingPc, WorkerRuns
<1>2. RowEpoch BY DEF Init, RowEpoch
<1>3. SavedIsRow /\ LeaseGuardsHistory /\ ObserverSeesPersisted
  BY DEF Init, SavedIsRow, LeaseGuardsHistory, UnconfirmedHasNoLease, HistoryLeasedOnce,
         ObserverSeesPersisted, Confirmed
<1>4. CappedFinite BY FS_EmptySet DEF Init, CappedFinite
<1>5. CapacityAccounted
  <2>1. \A S : S \subseteq capped => Cardinality(S) = 0 BY FS_EmptySet DEF Init
  <2>2. \A p \in Epoch : total[p] = 0 /\ \A o \in Owner : active[p][o] = 0 BY DEF Init
  <2> QED BY <2>1, <2>2, ConstantsAssumption DEF CapacityAccounted
<1> QED BY <1>1, <1>2, <1>3, <1>4, <1>5 DEF MInv

\* Rows and memory together.
THEOREM MemoryInvariant == Spec => [](IInv /\ MInv)
<1>1. Init => IInv /\ MInv BY InitIInv, InitMInv
<1>2. IInv /\ MInv /\ [Next]_vars => (IInv /\ MInv)'
  <2> SUFFICES ASSUME IInv, MInv, [Next]_vars PROVE IInv' /\ MInv' OBVIOUS
  <2>1. LifeStep /\ MemoryStep BY NextStep, NextMem
  <2> QED BY <2>1, Invariance, MemoryInvariance DEF LifeStep
<1> QED BY <1>1, <1>2, PTL DEF Spec

\* While a job holds the history lease, reconciliation of its process does not give its
\* execution up and no other job of the process leases the history: the check of
\* _running and the transaction that follows are one critical section
\* (history_runtime.py reserve, history.py _reconcile).  An execution can outlive its
\* lease; of that the theorem says nothing.
THEOREM LeasesGuardHistories == Spec => []LeaseGuardsHistory
<1>1. MInv => LeaseGuardsHistory BY DEF MInv
<1> QED BY <1>1, MemoryInvariant, PTL

\* An observer that is told succeeded, failed, cancelled or timed out is told what
\* the row says: channels are finished from the row or after the commit that
\* wrote it, never from a result that might not have been saved.
THEOREM ObserversSeePersisted == Spec => []ObserverSeesPersisted
<1>1. MInv => ObserverSeesPersisted BY DEF MInv
<1> QED BY <1>1, MemoryInvariant, PTL

\* The capacity counters of ExecutionRuntime equal the number of leases held, for
\* the process and for every account, and stay within the limits: however request
\* and worker race to release, each lease is given back once.
THEOREM CapacityIsAccounted == Spec => []CapacityAccounted
<1>1. MInv => CapacityAccounted BY DEF MInv
<1> QED BY <1>1, MemoryInvariant, PTL

-----------------------------------------------------------------------------
(***************************************************************************)
(* The pipeline of a question.                                             *)
(***************************************************************************)
PipeSpec == PipeInit /\ [][PipeNext]_pipeVars

-----------------------------------------------------------------------------
(* Which stages a request may still be in after a stop, and how it may end. *)
Stages == {"idle", "understand", "retrieve", "generate", "guard", "database", "running", "done"}
StageType == pc \in Stages /\ stopped \in {"no", "before", "within"}
NotSentAfterStop == stopped = "before" => pc # "running"
StoppedWithinStatement == stopped = "within" => pc \in {"running", "done"}
Excuses == {"LLM_ERROR", "CONTEXT_ERROR"}
EndsWithStop ==
  stopped # "no" /\ pc = "done" => result.code = "STOPPED" \/ (sql = NoText /\ result.code \in Excuses)
NoTextBefore == pc \in {"idle", "understand", "retrieve", "generate"} => sql = NoText
IdleIsUnstopped == pc = "idle" => stopped = "no"

StopInv == StageType /\ NotSentAfterStop /\ StoppedWithinStatement /\ EndsWithStop /\ NoTextBefore
           /\ IdleIsUnstopped

(* The request ends in the stage "done", with the code it is given. *)
LEMMA FinishEnds ==
  ASSUME NEW code, Finish(code)
  PROVE  pc' = "done" /\ result'.code = code
  BY DEF Finish

(* The stop invariant holds of a request that has not begun. *)
LEMMA StopInit == PipeInit => StopInv
  BY DEF PipeInit, StopInv, StageType, Stages, NotSentAfterStop, StoppedWithinStatement,
         EndsWithStop, NoTextBefore, IdleIsUnstopped

(* No step breaks it. *)
LEMMA StopNext == StopInv /\ [PipeNext]_pipeVars => StopInv'
<1> SUFFICES ASSUME StopInv, [PipeNext]_pipeVars PROVE StopInv'
  OBVIOUS
<1> USE DEF StopInv, StageType, Stages, NotSentAfterStop, StoppedWithinStatement, EndsWithStop,
            NoTextBefore, IdleIsUnstopped, Unstopped
<1> DEFINE May(code) == stopped # "no" => code = "STOPPED" \/ (sql' = NoText /\ code \in Excuses)
           ends == \E code : Finish(code) /\ May(code)
<1>0. ASSUME ends, UNCHANGED stopped, pc # "idle" PROVE StopInv'
  <2>1. PICK code : Finish(code) /\ May(code)
    BY <1>0
  <2>2. pc' = "done" /\ result'.code = code
    BY <2>1, FinishEnds
  <2> QED BY <2>1, <2>2, <1>0
<1>1. ASSUME NEW q \in Questions, NEW v, NEW w \in BOOLEAN, Authorize(q, v, w) PROVE StopInv'
  BY <1>1 DEF Authorize
<1>2. ASSUME NEW a \in Answers, Understand(a) PROVE StopInv'
  <2>1. UNCHANGED stopped /\ UNCHANGED sql /\ pc = "understand"
    BY <1>2 DEF Understand
  <2>2. ends \/ (pc' \in {"understand", "retrieve"} /\ stopped = "no")
    <3>1. ASSUME NEW code, AfterUnderstanding(code), stopped = "no" \/ code = "LLM_ERROR"
          PROVE  ends \/ (pc' \in {"understand", "retrieve"} /\ stopped = "no")
      BY <2>1, <3>1 DEF AfterUnderstanding, Excuses
    <3>2. CASE Halt
      BY <3>2 DEF Halt
    <3>3. CASE Unstopped /\ UNCHANGED pc
      BY <3>3, <2>1
    <3> QED BY <1>2, <3>1, <3>2, <3>3 DEF Understand
  <2> QED BY <2>1, <2>2, <1>0
<1>3. ASSUME NEW h \in Hits, ResolveContext(h) PROVE StopInv'
  <2>1. UNCHANGED stopped /\ UNCHANGED sql /\ pc = "retrieve"
    BY <1>3 DEF ResolveContext
  <2>2. \/ Halt
        \/ Finish("CONTEXT_ERROR")
        \/ stopped = "no" /\ \E code : Finish(code)
        \/ pc' = "generate" /\ stopped = "no"
    BY <1>3 DEF ResolveContext, Unchecked, ContextError
  <2>3. ends \/ (pc' = "generate" /\ stopped = "no")
    BY <2>1, <2>2 DEF Halt, Excuses
  <2> QED BY <2>1, <2>3, <1>0
<1>4. ASSUME NEW t \in Texts, Generate(t) PROVE StopInv'
  <2>1. UNCHANGED stopped /\ pc = "generate"
    BY <1>4 DEF Generate
  <2>2. ends \/ (pc' = "guard" /\ stopped = "no")
    BY <1>4 DEF Generate, Halt, Excuses
  <2> QED BY <2>1, <2>2, <1>0
<1>5. ASSUME Guard PROVE StopInv'
  <2>1. UNCHANGED stopped /\ pc = "guard"
    BY <1>5 DEF Guard
  <2>2. ends \/ (pc' = "database" /\ stopped = "no")
    BY <1>5 DEF Guard, Halt
  <2> QED BY <2>1, <2>2, <1>0
<1>6. ASSUME Send PROVE StopInv'
  <2>1. UNCHANGED stopped /\ pc = "database"
    BY <1>6 DEF Send
  <2>2. ends \/ (pc' = "running" /\ stopped = "no")
    BY <1>6 DEF Send, Halt
  <2> QED BY <2>1, <2>2, <1>0
<1>7. ASSUME NEW o \in {"rows", "cancelled", "error"}, Return(o) PROVE StopInv'
  <2>1. UNCHANGED stopped /\ pc = "running"
    BY <1>7 DEF Return
  <2>2. ends \/ (pc' = "done" /\ stopped = "no")
    BY <1>7 DEF Return, Halt
  <2> QED BY <2>1, <2>2, <1>0
<1>8. ASSUME Stop PROVE StopInv'
  BY <1>8 DEF Stop
<1>9. ASSUME UNCHANGED pipeVars PROVE StopInv'
  BY <1>9 DEF pipeVars
<1> QED BY <1>1, <1>2, <1>3, <1>4, <1>5, <1>6, <1>7, <1>8, <1>9 DEF PipeNext

(* A stop wins over the answer: a request that is stopped before its end reports the stop, or,
   while there is no text yet, the failure of the model or of the retrieval during the stop,
   and no statement is sent after the stop (service.py:256-297, service_execution.py:42-272,
   database.py:80-121). *)
THEOREM StopAlwaysWins == PipeSpec => []StopWins
<1>1. StopInv => StopWins
  BY DEF StopInv, NotSentAfterStop, EndsWithStop, Excuses, StopWins
<1> QED BY <1>1, StopInit, StopNext, PTL DEF PipeSpec

-----------------------------------------------------------------------------
(* What a helper returns: sets of one element, and a list without repetitions. *)

(* A set of one element is a singleton. *)
LEMMA OneElement ==
  ASSUME NEW S, IsFiniteSet(S), Cardinality(S) = 1
  PROVE  \E x : S = {x}
  BY FS_Singleton

(* A set that has not two elements or more has at most one. *)
LEMMA AtMostOne ==
  ASSUME NEW S, IsFiniteSet(S), ~(Cardinality(S) > 1), NEW x \in S, NEW y \in S
  PROVE  x = y
<1>1. Cardinality(S) \in Nat /\ (Cardinality(S) = 0 <=> S = {})
  BY FS_CardinalityType, FS_EmptySet
<1>2. Cardinality(S) = 1
  BY <1>1
<1> QED BY <1>2, OneElement

(* A set of positions that is not empty has a first one. *)
LEMMA FirstPosition ==
  ASSUME NEW T \in SUBSET Nat, T # {}
  PROVE  \E i \in T : \A j \in T : ~(j < i)
<1>1. \E i \in T : \A j \in T : ~(<<j, i>> \in OpToRel(<, Nat))
  BY NatLessThanWellFounded, WFMin
<1> QED BY <1>1 DEF OpToRel

(* The positions of a finite set are numbered from 1 in their order. *)
LEMMA Ranks ==
  ASSUME NEW F \in SUBSET Nat, IsFiniteSet(F)
  PROVE  /\ \A i \in F : Rank(F, i) \in Nat /\ Rank(F, i) < Cardinality(F)
         /\ \A i, k \in F : i < k => Rank(F, i) < Rank(F, k)
         /\ \A r \in 1 .. Cardinality(F) : \E i \in F : Rank(F, i) = r - 1
<1> DEFINE c == Cardinality(F)
           upTo(i) == {j \in F : j < i}
<1>0. c \in Nat /\ \A i \in F : i \in Nat
  BY FS_CardinalityType
<1> HIDE DEF c
<1>1. \A i \in F : IsFiniteSet(upTo(i)) /\ Rank(F, i) \in Nat
  <2> TAKE i \in F
  <2>1. upTo(i) \in SUBSET F
    OBVIOUS
  <2> QED BY <2>1, FS_Subset, FS_CardinalityType DEF Rank
<1>r. \A i \in F : Rank(F, i) \in Nat
  BY <1>1
<1>2. \A i \in F : Rank(F, i) < c
  <2> TAKE i \in F
  <2>1. upTo(i) \in SUBSET F /\ upTo(i) # F
    OBVIOUS
  <2>2. Cardinality(upTo(i)) <= c /\ Cardinality(upTo(i)) # c
    BY <2>1, FS_Subset DEF c
  <2> QED BY <2>2, <1>0, <1>r DEF Rank
<1>3. \A i, k \in F : i < k => Rank(F, i) < Rank(F, k)
  <2> SUFFICES ASSUME NEW i \in F, NEW k \in F, i < k PROVE Rank(F, i) < Rank(F, k)
    OBVIOUS
  <2>0. i \in Nat /\ k \in Nat
    BY <1>0
  <2>1. upTo(i) \in SUBSET upTo(k) /\ upTo(i) # upTo(k)
    <3>1. i \in upTo(k) /\ i \notin upTo(i)
      BY <2>0
    <3>2. \A j \in upTo(i) : j \in upTo(k)
      BY <1>0, <2>0
    <3> QED BY <3>1, <3>2
  <2>2. Cardinality(upTo(i)) <= Cardinality(upTo(k)) /\ Cardinality(upTo(k)) # Cardinality(upTo(i))
    BY <2>1, <1>1, FS_Subset
  <2>3. Cardinality(upTo(i)) \in Nat /\ Cardinality(upTo(k)) \in Nat
    BY <1>1, FS_CardinalityType
  <2> QED BY <2>2, <2>3 DEF Rank
<1>4. \A r \in 1 .. c : \E i \in F : Rank(F, i) = r - 1
  <2> DEFINE f == [i \in F |-> Rank(F, i) + 1]
  <2>1. f \in [F -> 1 .. c]
    <3>1. \A i \in F : Rank(F, i) + 1 \in 1 .. c
      BY <1>0, <1>r, <1>2
    <3> QED BY <3>1
  <2>2. \A i, k \in F : f[i] = f[k] => i = k
    <3> SUFFICES ASSUME NEW i \in F, NEW k \in F, i # k PROVE f[i] # f[k]
      OBVIOUS
    <3>1. i < k \/ k < i
      BY <1>0
    <3>2. CASE i < k
      <4>1. Rank(F, i) < Rank(F, k)
        BY <3>2, <1>3
      <4> QED BY <4>1, <1>r
    <3>3. CASE k < i
      <4>1. Rank(F, k) < Rank(F, i)
        BY <3>3, <1>3
      <4> QED BY <4>1, <1>r
    <3> QED BY <3>1, <3>2, <3>3
  <2>3. f \in Injection(F, 1 .. c)
    BY <2>1, <2>2 DEF Injection, IsInjective
  <2>4. IsFiniteSet(1 .. c) /\ Cardinality(1 .. c) = c
    BY <1>0, FS_Interval
  <2>5. f \in Surjection(F, 1 .. c)
    <3> HIDE DEF f
    <3>1. IsFiniteSet(1 .. c) /\ Cardinality(F) = Cardinality(1 .. c)
      BY <2>4 DEF c
    <3> QED BY <2>3, <3>1, FS_Injection
  <2> SUFFICES ASSUME NEW r \in 1 .. c PROVE \E i \in F : Rank(F, i) = r - 1
    OBVIOUS
  <2>6. PICK i \in F : f[i] = r
    BY <2>5 DEF Surjection
  <2>7. Rank(F, i) + 1 = r
    BY <2>6
  <2> QED BY <2>7, <1>r
<1> QED BY <1>0, <1>r, <1>2, <1>3, <1>4 DEF c

(* Distinct keeps every element of a list, each once. *)
LEMMA DistinctKeepsOnce ==
  ASSUME NEW s, NEW n \in Nat, DOMAIN s = 1 .. n
  PROVE  \E c \in Nat : /\ DOMAIN Distinct(s) = 1 .. c
                        /\ Distinct(s) \in Seq(Elements(s))
                        /\ Elements(Distinct(s)) = Elements(s)
                        /\ \A k, l \in 1 .. c : Distinct(s)[k] = Distinct(s)[l] => k = l
<1> DEFINE F == Firsts(s)
           c == Cardinality(F)
           nth(k) == CHOOSE i \in F : Rank(F, i) = k - 1
           d == Distinct(s)
<1>1. F \in SUBSET Nat /\ F \subseteq 1 .. n /\ IsFiniteSet(F) /\ c \in Nat
  <2>1. IsFiniteSet(1 .. n)
    BY FS_Interval
  <2>2. F \in SUBSET (1 .. n)
    BY DEF Firsts
  <2> QED BY <2>1, <2>2, FS_Subset, FS_CardinalityType
<1>2. \A k \in 1 .. c : nth(k) \in F /\ Rank(F, nth(k)) = k - 1
  BY <1>1, Ranks
<1>3. \A i, k \in F : s[i] = s[k] => i = k
  <2> SUFFICES ASSUME NEW i \in F, NEW k \in F, i # k PROVE s[i] # s[k]
    OBVIOUS
  <2>1. i < k \/ k < i
    BY <1>1
  <2>2. i < k => i \in 1 .. k - 1
    BY <1>1
  <2>3. k < i => k \in 1 .. i - 1
    BY <1>1
  <2> QED BY <2>1, <2>2, <2>3 DEF Firsts
<1>4. \A x \in Elements(s) : \E i \in F : s[i] = x
  <2> SUFFICES ASSUME NEW x \in Elements(s) PROVE \E i \in F : s[i] = x
    OBVIOUS
  <2> DEFINE T == {i \in 1 .. n : s[i] = x}
  <2>1. T \in SUBSET Nat /\ T # {}
    BY DEF Elements
  <2>2. PICK i \in T : \A j \in T : ~(j < i)
    BY <2>1, FirstPosition
  <2>3. \A j \in 1 .. i - 1 : s[j] # s[i]
    BY <2>2
  <2> QED BY <2>2, <2>3 DEF Firsts
<1>5. d = [k \in 1 .. c |-> s[nth(k)]]
  BY DEF Distinct
<1> HIDE DEF F, d, nth, c
<1>6. \A k \in 1 .. c : d[k] = s[nth(k)] /\ d[k] \in Elements(s)
  BY <1>1, <1>2, <1>5 DEF Elements
<1>7. \A k, l \in 1 .. c : d[k] = d[l] => k = l
  <2> SUFFICES ASSUME NEW k \in 1 .. c, NEW l \in 1 .. c, d[k] = d[l] PROVE k = l
    OBVIOUS
  <2>1. nth(k) = nth(l)
    BY <1>2, <1>3, <1>6
  <2>2. k - 1 = l - 1
    BY <2>1, <1>2
  <2> QED BY <2>2, <1>1
<1>8. \A x \in Elements(s) : x \in Elements(d)
  <2> SUFFICES ASSUME NEW x \in Elements(s) PROVE \E k \in 1 .. c : d[k] = x
    BY <1>5 DEF Elements
  <2>1. PICK i \in F : s[i] = x
    BY <1>4
  <2> DEFINE k == Rank(F, i) + 1
  <2>2. k \in 1 .. c
    BY <1>1, Ranks DEF c
  <2>3. Rank(F, nth(k)) = Rank(F, i) /\ nth(k) \in F
    BY <1>1, <1>2, <2>2, Ranks
  <2>4. nth(k) = i
    <3>1. i \in Nat /\ nth(k) \in Nat /\ Rank(F, i) \in Nat
      BY <2>3, <1>1, Ranks
    <3>2. CASE i < nth(k)
      <4>1. Rank(F, i) < Rank(F, nth(k))
        BY <3>2, <2>3, <1>1, Ranks
      <4> QED BY <4>1, <3>1, <2>3
    <3>3. CASE nth(k) < i
      <4>1. Rank(F, nth(k)) < Rank(F, i)
        BY <3>3, <2>3, <1>1, Ranks
      <4> QED BY <4>1, <3>1, <2>3
    <3> QED BY <3>1, <3>2, <3>3
  <2> QED BY <2>1, <2>2, <2>4, <1>6
<1>9. Elements(d) = Elements(s) /\ DOMAIN d = 1 .. c /\ d \in Seq(Elements(s))
  <2>1. DOMAIN d = 1 .. c
    BY <1>5
  <2>2. Elements(d) = Elements(s)
    BY <1>6, <1>8, <2>1 DEF Elements
  <2>3. d \in [1 .. c -> Elements(s)]
    BY <1>5, <1>6
  <2> QED BY <1>1, <2>1, <2>2, <2>3
<1> QED BY <1>1, <1>7, <1>9 DEF d

-----------------------------------------------------------------------------
(* What retrieval puts in a context. *)

(* The metrics of a context: published, each once, of one source and one date, and exactly
   those the labels of the question name. *)
ChosenMetrics(q, ms) ==
  /\ ms \in Seq(Metrics)
  /\ \A i, j \in DOMAIN ms : ms[i] = ms[j] => i = j
  /\ \A i, j \in DOMAIN ms : ms[i].source = ms[j].source /\ ms[i].time = ms[j].time
  /\ \A i \in DOMAIN q.metrics : \E m \in Elements(ms) : q.metrics[i] \in m.labels
  /\ \A m \in Elements(ms) : \E i \in DOMAIN q.metrics : q.metrics[i] \in m.labels

(* The joins of a context: foreign keys of the source of its metrics onto unique keys, one
   for each other table, and for the date dimension the one the metrics are dated by. *)
CertifiedJoins(m, joins) ==
  /\ joins \subseteq Edges
  /\ \A e \in joins : e.source = m.source /\ e.target # m.source /\ <<e.target, e.to>> \in UniqueKeys
  /\ \A e, f \in joins : e.target = f.target => e = f
  /\ m.time.ok => \A e \in joins : e.target = m.time.target => e.from = <<m.time.col>>

ContextSound(q, ctx) ==
  ctx.metrics # << >> => ChosenMetrics(q, ctx.metrics) /\ CertifiedJoins(ctx.metrics[1], ctx.joins)

(* plan_retrieved_metrics: a plan that succeeds confirms every label by the one document
   that carries it. *)
LEMMA PlanSound ==
  ASSUME NEW q \in Questions, NEW h \in Hits, q.metrics # << >>,
         MetricStatus(PlanRetrievedMetrics(q.metrics, h.metrics)) = "SUCCESS"
  PROVE  ChosenMetrics(q, PlanRetrievedMetrics(q.metrics, h.metrics).metrics)
<1> DEFINE labels == q.metrics
           hits == h.metrics
           plan == PlanRetrievedMetrics(labels, hits)
           problem == {i \in DOMAIN labels : Unresolved(labels[i], hits[labels[i]]) # "none"}
           matching(i) == MatchingHits(labels[i], hits[labels[i]])
           picked == [i \in DOMAIN labels |-> CHOOSE m \in matching(i) : TRUE]
           ms == Distinct(picked)
<1>1. plan.status = "SUCCESS"
  BY DEF MetricStatus
<1>2. problem = {} /\ Compatible(ms) /\ plan.metrics = ms
  <2>1. \A i \in DOMAIN labels : Unresolved(labels[i], hits[labels[i]]) \in {"AMBIGUOUS", "NO_METRIC", "none"}
    BY DEF Unresolved
  <2>2. CASE Len(labels) > MaxMetrics
    BY <2>2, <1>1 DEF PlanRetrievedMetrics
  <2>3. CASE ~(Len(labels) > MaxMetrics) /\ problem # {}
    <3> DEFINE first == CHOOSE i \in problem : \A j \in problem : i <= j
    <3>1. plan.status = Unresolved(labels[first], hits[labels[first]])
      BY <2>3 DEF PlanRetrievedMetrics
    <3>2. Unresolved(labels[first], hits[labels[first]]) # "SUCCESS"
      BY DEF Unresolved
    <3> QED BY <3>1, <3>2, <1>1
  <2>4. CASE ~(Len(labels) > MaxMetrics) /\ problem = {}
    <3>1. plan = [status |-> IF \E i \in DOMAIN ms : ~ms[i].ok THEN "INVALID_ASSET"
                             ELSE IF ~Compatible(ms) THEN "UNSUPPORTED_COMBINATION" ELSE "SUCCESS",
                  metrics |-> ms]
      BY <2>4 DEF PlanRetrievedMetrics
    <3>2. CASE \E i \in DOMAIN ms : ~ms[i].ok
      <4>1. plan.status = "INVALID_ASSET"
        <5> HIDE DEF ms, problem
        <5> QED BY <3>1, <3>2
      <4> QED BY <4>1, <1>1
    <3>3. CASE ~(\E i \in DOMAIN ms : ~ms[i].ok)
      <4>1. plan.status = IF ~Compatible(ms) THEN "UNSUPPORTED_COMBINATION" ELSE "SUCCESS"
        <5> HIDE DEF ms, problem
        <5> QED BY <3>1, <3>3
      <4>2. plan.metrics = ms
        <5> HIDE DEF ms, problem
        <5> QED BY <3>1
      <4> HIDE DEF plan, ms, problem
      <4> QED BY <4>1, <4>2, <1>1, <2>4
    <3> QED BY <3>2, <3>3
  <2> QED BY <2>2, <2>3, <2>4
<1>3. \A i \in DOMAIN labels : /\ picked[i] \in Metrics
                             /\ labels[i] \in picked[i].labels
  <2> TAKE i \in DOMAIN labels
  <2>1. hits[labels[i]] \subseteq Metrics
    BY InputAssumption
  <2>2. IsFiniteSet(matching(i)) /\ Cardinality(matching(i)) \in Nat
    <3>1. matching(i) \in SUBSET Metrics
      BY <2>1 DEF MatchingHits
    <3> QED BY <3>1, RetrievalAssumption, FS_Subset, FS_CardinalityType
  <2>3. Unresolved(labels[i], hits[labels[i]]) = "none"
    BY <1>2
  <2>4. Cardinality(matching(i)) # 0
    BY <2>3 DEF Unresolved
  <2>5. matching(i) # {}
    BY <2>4, FS_EmptySet
  <2>6. picked[i] \in matching(i)
    BY <2>5
  <2> HIDE DEF picked
  <2> QED BY <2>1, <2>6 DEF MatchingHits
<1>4. DOMAIN picked = 1 .. Len(labels) /\ Len(labels) \in Nat /\ DOMAIN labels = DOMAIN picked
  BY InputAssumption
<1> HIDE DEF picked
<1>5. PICK c \in Nat : /\ DOMAIN ms = 1 .. c /\ ms \in Seq(Elements(picked))
                      /\ Elements(ms) = Elements(picked)
                      /\ \A k, l \in 1 .. c : ms[k] = ms[l] => k = l
  BY <1>4, DistinctKeepsOnce
<1> HIDE DEF ms
<1>6. Elements(ms) \subseteq Metrics
  BY <1>3, <1>4, <1>5 DEF Elements
<1>7. ms \in Seq(Metrics)
  <2>1. \A k \in 1 .. c : ms[k] \in Metrics
    BY <1>5, <1>6 DEF Elements
  <2>2. ms \in [1 .. c -> Metrics]
    BY <1>5, <2>1
  <2> QED BY <2>2, <1>5
<1>8. \A i \in DOMAIN labels : \E m \in Elements(ms) : labels[i] \in m.labels
  BY <1>3, <1>4, <1>5 DEF Elements
<1>9. \A m \in Elements(ms) : \E i \in DOMAIN labels : labels[i] \in m.labels
  <2> SUFFICES ASSUME NEW m \in Elements(ms) PROVE \E i \in DOMAIN labels : labels[i] \in m.labels
    OBVIOUS
  <2>1. PICK i \in DOMAIN picked : picked[i] = m
    BY <1>5 DEF Elements
  <2> QED BY <2>1, <1>3, <1>4
<1> QED BY <1>2, <1>5, <1>7, <1>8, <1>9 DEF ChosenMetrics, Compatible

(* _resolve_join: what it certifies when it succeeds, for a metric whose time field is a
   foreign key of its source. *)
LEMMA JoinsSound ==
  ASSUME NEW m \in Metrics, NEW targets, NEW field,
         field = NoTime \/ (field = m.time /\ m.time.ok),
         ResolveJoin(m.source, targets, field).status = "SUCCESS"
  PROVE  CertifiedJoins(m, ResolveJoin(m.source, targets, field).joins)
<1> DEFINE others == targets \ {m.source}
           direct(t) == DirectEdges(m.source, t, field)
           joins == ResolveJoin(m.source, targets, field).joins
<1>1. /\ joins = UNION {direct(t) : t \in others}
      /\ \A t \in others : ~(Cardinality(direct(t)) > 1)
      /\ OntoUniqueKeys(joins)
      /\ field # NoTime => TimeEdges(field) # {}
  BY DEF ResolveJoin
<1> HIDE DEF joins
<1>2. \A t \in others : direct(t) \in SUBSET {e \in Edges : e.source = m.source /\ e.target = t}
  BY DEF DirectEdges
<1>3. \A e \in joins : e \in Edges /\ e.source = m.source /\ e.target \in others /\ e \in direct(e.target)
  BY <1>1, <1>2
<1>4. \A t \in others : IsFiniteSet(direct(t))
  <2>1. \A t \in others : direct(t) \in SUBSET Edges
    BY <1>2
  <2> QED BY <2>1, RetrievalAssumption, FS_Subset
<1>5. \A e, f \in joins : e.target = f.target => e = f
  BY <1>1, <1>3, <1>4, AtMostOne
<1>6. ASSUME m.time.ok, NEW e \in joins, e.target = m.time.target
      PROVE  e.from = <<m.time.col>>
  <2>1. m.time.source = m.source /\ TimeEdges(m.time) # {}
    BY <1>6, MetricsAssumption
  <2>2. PICK dated \in TimeEdges(m.time) : TRUE
    BY <2>1
  <2>3. /\ dated \in Edges /\ dated.source = m.source /\ dated.target = e.target
        /\ dated.from = <<m.time.col>>
    BY <2>1, <2>2, <1>6 DEF TimeEdges
  <2>4. dated \in direct(e.target)
    BY <2>2, <2>3, <1>6 DEF DirectEdges
  <2>5. dated = e
    BY <2>4, <1>1, <1>3, <1>4, AtMostOne
  <2> QED BY <2>3, <2>5
<1> QED BY <1>1, <1>3, <1>5, <1>6 DEF CertifiedJoins, OntoUniqueKeys, joins

(* _assemble_success puts the metrics and the joins it is given in the context. *)
LEMMA AssembleKeeps ==
  ASSUME NEW q, NEW h, NEW metrics, NEW tables, NEW hits, NEW joins,
         AssembleSuccess(q, h, metrics, tables, hits, joins).status = "SUCCESS"
  PROVE  /\ AssembleSuccess(q, h, metrics, tables, hits, joins).metrics = metrics
         /\ AssembleSuccess(q, h, metrics, tables, hits, joins).joins = joins
  BY DEF AssembleSuccess, AssembleContext, Fails

(* _retrieve_columns: a success joins what _resolve_join certified for the first metric. *)
LEMMA ColumnsSound ==
  ASSUME NEW q, NEW h, NEW tables, NEW ms, ms \in Seq(Metrics),
         RetrieveColumns(q, h, tables, ms).status = "SUCCESS"
  PROVE  /\ RetrieveColumns(q, h, tables, ms).metrics = ms
         /\ ms # << >> => CertifiedJoins(ms[1], RetrieveColumns(q, h, tables, ms).joins)
<1> DEFINE field == TimeField(q, ms)
           candidates == CandidateTableHits(q, tables, ms, field)
           required == RequiredColumns(ms, field)
           hits == Elements(ColumnHits(Elements(tables), h.columns, h.ranks.columns, required, ColumnTopK))
           anchor == IF ms # << >> THEN ms[1].source ELSE tables[1]
           targets == candidates \cup {anchor}
           join == ResolveJoin(anchor, targets, field)
           context1 == RetrieveColumns(q, h, tables, ms)
<1>1. /\ context1 = AssembleSuccess(q, h, ms, candidates, hits, join.joins)
      /\ join.status = "SUCCESS" /\ ~Malformed(q, ms)
  <2> HIDE DEF field, candidates, required, hits, anchor, targets, join
  <2>1. context1 = IF Malformed(q, ms) THEN Fails("ASSET_UNAVAILABLE")
                   ELSE IF candidates = Missing THEN Fails("PARTIAL_UNREACHABLE")
                   ELSE IF h.down = "columns" THEN Fails("RETRIEVAL_UNAVAILABLE")
                   ELSE IF ValidateColumns(hits, required) # "SUCCESS" THEN Fails(ValidateColumns(hits, required))
                   ELSE IF join.status # "SUCCESS" THEN Fails(join.status)
                   ELSE AssembleSuccess(q, h, ms, candidates, hits, join.joins)
    BY DEF RetrieveColumns, field, candidates, required, hits, anchor, targets, join
  <2> QED BY <2>1 DEF Fails
<1> HIDE DEF join, targets, hits, candidates, required, field, context1
<1>2. context1.status = "SUCCESS"
  BY DEF context1
<1>3. context1.metrics = ms /\ context1.joins = join.joins
  BY <1>1, <1>2, AssembleKeeps
<1>4. ASSUME ms # << >> PROVE CertifiedJoins(ms[1], join.joins)
  <2>1. ms[1] \in Metrics /\ anchor = ms[1].source
    BY <1>4
  <2>2. field = NoTime \/ (field = ms[1].time /\ ms[1].time.ok)
    BY <1>1, <1>4 DEF field, TimeField, Malformed
  <2>3. ResolveJoin(ms[1].source, targets, field).status = "SUCCESS"
    BY <1>1, <2>1 DEF join
  <2>4. CertifiedJoins(ms[1], ResolveJoin(ms[1].source, targets, field).joins)
    BY <2>1, <2>2, <2>3, JoinsSound
  <2> QED BY <2>1, <2>4 DEF join
<1> QED BY <1>3, <1>4 DEF context1

(* OnlineRetriever._retrieve_request: a context that is a success is sound. *)
LEMMA RetrieveSound ==
  ASSUME NEW q \in Questions, NEW h \in Hits, Retrieve(q, h).status = "SUCCESS"
  PROVE  ContextSound(q, Retrieve(q, h))
<1> DEFINE tables == TableHits(h.tables, h.ranks.tables)
           plan == IF q.metrics = << >> THEN [status |-> "SUCCESS", metrics |-> << >>]
                   ELSE PlanRetrievedMetrics(q.metrics, h.metrics)
           ctx == Retrieve(q, h)
<1>1. ctx = RetrieveColumns(q, h, tables, plan.metrics) /\ MetricStatus(plan) = "SUCCESS"
  <2> HIDE DEF tables, plan
  <2>1. ctx = IF ResourceFailure(h.down) # "SUCCESS" THEN Fails(ResourceFailure(h.down))
              ELSE IF MetricStatus(plan) # "SUCCESS" THEN Fails(MetricStatus(plan))
              ELSE IF ValidateResources(tables, plan.metrics) # "SUCCESS"
                   THEN Fails(ValidateResources(tables, plan.metrics))
              ELSE RetrieveColumns(q, h, tables, plan.metrics)
    BY DEF Retrieve, tables, plan
  <2> QED BY <2>1 DEF Fails
<1>2. CASE q.metrics = << >>
  <2>1. plan.metrics = << >>
    BY <1>2
  <2>2. plan.metrics \in Seq(Metrics)
    BY <1>2
  <2> HIDE DEF plan, tables
  <2>3. ctx.metrics = plan.metrics
    BY <1>1, <2>2, ColumnsSound
  <2> QED BY <2>1, <2>3 DEF ContextSound
<1>3. CASE q.metrics # << >>
  <2>1. plan = PlanRetrievedMetrics(q.metrics, h.metrics)
    BY <1>3
  <2>2. ChosenMetrics(q, plan.metrics)
    BY <1>1, <1>3, <2>1, PlanSound
  <2>3. plan.metrics \in Seq(Metrics)
    BY <2>2 DEF ChosenMetrics
  <2> HIDE DEF plan, tables
  <2>4. /\ ctx.metrics = plan.metrics
        /\ plan.metrics # << >> => CertifiedJoins(plan.metrics[1], ctx.joins)
    BY <1>1, <2>3, ColumnsSound
  <2> QED BY <2>2, <2>4 DEF ContextSound
<1> QED BY <1>2, <1>3

-----------------------------------------------------------------------------
(* What the guard accepts. *)

Selects == sql \in Texts /\ sql.form = "select"
Joined == DOMAIN sql.joins

(* The references of a text are its FROM and, in their order, its joins. *)
LEMMA ReferencesAre ==
  ASSUME Selects
  PROVE  /\ Len(sql.joins) \in Nat /\ Joined = 1 .. Len(sql.joins)
         /\ DOMAIN References(sql) = 1 .. Len(sql.joins) + 1
         /\ References(sql)[1] = sql.from
         /\ \A i \in Joined : References(sql)[i + 1] = sql.joins[i].to
<1> DEFINE n == Len(sql.joins)
           S == {sql.joins[i].to : i \in Joined} \cup {sql.from}
           tos == [i \in Joined |-> sql.joins[i].to]
<1>1. n \in Nat /\ Joined = 1 .. n
  BY InputAssumption DEF Selects, Joined
<1>2. tos \in Seq(S) /\ Len(tos) = n
  BY <1>1
<1>3. <<sql.from>> \in Seq(S) /\ Len(<<sql.from>>) = 1
  OBVIOUS
<1>4. References(sql) = <<sql.from>> \o tos
  BY DEF References, Joined
<1> HIDE DEF tos, S
<1>5. /\ DOMAIN (<<sql.from>> \o tos) = 1 .. n + 1
      /\ (<<sql.from>> \o tos)[1] = sql.from
      /\ \A i \in 1 .. n : (<<sql.from>> \o tos)[i + 1] = tos[i]
  BY <1>1, <1>2, <1>3
<1> QED BY <1>1, <1>4, <1>5 DEF tos

(* A text names finitely many tables. *)
LEMMA TablesFinite ==
  ASSUME Selects
  PROVE  IsFiniteSet(Tables(sql))
<1> DEFINE n == Len(sql.joins) + 1
           f == [k \in 1 .. n |-> References(sql)[k].table]
<1>1. n \in Nat /\ DOMAIN References(sql) = 1 .. n
  BY ReferencesAre
<1>2. f \in Surjection(1 .. n, Tables(sql))
  <2>1. \A k \in 1 .. n : f[k] \in Tables(sql)
    BY <1>1 DEF Tables, Elements
  <2>2. \A t \in Tables(sql) : \E k \in 1 .. n : f[k] = t
    BY <1>1 DEF Tables, Elements
  <2> QED BY <2>1, <2>2 DEF Surjection
<1>3. IsFiniteSet(1 .. n)
  BY <1>1, FS_Interval
<1> HIDE DEF f, n
<1> QED BY <1>2, <1>3, FS_Surjection

(* A column that is identified is of the only table its name can stand for. *)
LEMMA Identified ==
  ASSUME Selects, NEW at, ColumnIdentity(sql, context, at) # Bad
  PROVE  \E t \in Tables(sql) :
           /\ ColumnIdentity(sql, context, at) = <<t, at[2]>>
           /\ at[1] = "" => {x \in Tables(sql) : <<x, at[2]>> \in context.cols} = {t}
           /\ at[1] # "" => TableBindings(sql, at[1]) = {t}
<1> DEFINE found == IF at[1] = "" THEN {t \in Tables(sql) : <<t, at[2]>> \in context.cols}
                    ELSE TableBindings(sql, at[1])
           table == CHOOSE t \in found : TRUE
<1>1. found \in SUBSET Tables(sql)
  BY DEF TableBindings, Tables
<1>2. IsFiniteSet(found)
  BY <1>1, TablesFinite, FS_Subset
<1>3. Cardinality(found) = 1 /\ ColumnIdentity(sql, context, at) = <<table, at[2]>>
  BY DEF ColumnIdentity
<1>4. PICK t : found = {t}
  BY <1>2, <1>3, OneElement
<1>5. table = t
  BY <1>4
<1>6. t \in Tables(sql)
  BY <1>1, <1>4
<1> QED BY <1>3, <1>4, <1>5, <1>6

(* What a text with a metric is accepted on: the checks the single and the multiple metric
   have in common. *)
Spent ==
  /\ Selects /\ context.metrics # << >>
  /\ CertifiedJoins(context.metrics[1], context.joins)
  /\ context.metrics \in Seq(Metrics)
  /\ ValidateScope(sql, context)
  /\ JoinsSpend(sql, context)
  /\ ValidateMetricFilters(sql, context) /\ ValidateMetricFormulas(sql, context)
  /\ Joined # {} => sql.from.table = context.metrics[1].source

Source == context.metrics[1].source
Table(k) == References(sql)[k].table

(* Every join states a certified foreign key to the table it joins. *)
LEMMA JoinsCertified ==
  ASSUME Spent, NEW i \in Joined
  PROVE  \E e \in context.joins : Certified(sql, context, sql.joins[i]) = {e} /\ e.target = sql.joins[i].to.table
                                  /\ JoinPairs(sql, context, sql.joins[i].on) = ConstraintPairs(e)
<1> DEFINE S == Certified(sql, context, sql.joins[i])
<1>1. S \in SUBSET context.joins /\ context.joins \in SUBSET Edges
  BY DEF Certified, Spent, CertifiedJoins
<1>2. IsFiniteSet(S)
  BY <1>1, RetrievalAssumption, FS_Subset
<1>3. Cardinality(S) = 1
  BY DEF Spent, JoinsSpend, Joined
<1>4. PICK e : S = {e}
  BY <1>2, <1>3, OneElement
<1> QED BY <1>1, <1>4 DEF Certified

(* No table is named twice: each join spends a foreign key of its own, and no foreign key
   leads to the source. *)
LEMMA TablesDiffer ==
  ASSUME Spent, NEW k \in DOMAIN References(sql), NEW l \in DOMAIN References(sql), k # l
  PROVE  Table(k) # Table(l)
<1> DEFINE n == Len(sql.joins)
<1>1. /\ n \in Nat /\ Joined = 1 .. n /\ DOMAIN References(sql) = 1 .. n + 1
      /\ Table(1) = sql.from.table
      /\ \A i \in Joined : Table(i + 1) = sql.joins[i].to.table
  BY ReferencesAre DEF Spent, Table
<1>2. \A i \in Joined : Table(i + 1) # Table(1)
  <2> TAKE i \in Joined
  <2>1. PICK e \in context.joins : e.target = sql.joins[i].to.table
    BY JoinsCertified
  <2>2. e.target # Source /\ sql.from.table = Source
    BY DEF Spent, CertifiedJoins, Source
  <2> QED BY <1>1, <2>1, <2>2
<1>3. \A i, j \in Joined : i < j => Table(i + 1) # Table(j + 1)
  <2> SUFFICES ASSUME NEW i \in Joined, NEW j \in Joined, i < j PROVE Table(i + 1) # Table(j + 1)
    OBVIOUS
  <2>1. PICK e \in context.joins : Certified(sql, context, sql.joins[i]) = {e} /\ e.target = sql.joins[i].to.table
    BY JoinsCertified
  <2>2. PICK f \in context.joins : Certified(sql, context, sql.joins[j]) = {f} /\ f.target = sql.joins[j].to.table
    BY JoinsCertified
  <2>3. i \in 1 .. j - 1
    BY <1>1
  <2>4. Certified(sql, context, sql.joins[i]) \cap Certified(sql, context, sql.joins[j]) = {}
    BY <2>3 DEF Spent, JoinsSpend, Joined
  <2>5. e # f
    BY <2>1, <2>2, <2>4
  <2>6. e.target # f.target
    BY <2>5 DEF Spent, CertifiedJoins
  <2> QED BY <1>1, <2>1, <2>2, <2>6
<1>4. CASE k = 1
  <2>1. l - 1 \in Joined /\ (l - 1) + 1 = l
    BY <1>1, <1>4
  <2> QED BY <2>1, <1>2, <1>4
<1>5. CASE l = 1
  <2>1. k - 1 \in Joined /\ (k - 1) + 1 = k
    BY <1>1, <1>5
  <2> QED BY <2>1, <1>2, <1>5
<1>6. CASE k # 1 /\ l # 1
  <2>1. /\ k - 1 \in Joined /\ (k - 1) + 1 = k /\ l - 1 \in Joined /\ (l - 1) + 1 = l
        /\ (k - 1 < l - 1 \/ l - 1 < k - 1)
    BY <1>1, <1>6
  <2> QED BY <2>1, <1>3
<1> QED BY <1>4, <1>5, <1>6

(* A text that computes a metric reads its source first: through its joins, or because the
   formula or a fixed filter is over a column of the source. *)
LEMMA FromIsSource ==
  ASSUME Spent
  PROVE  sql.from.table = Source
<1> DEFINE m == context.metrics[1]
<1>1. CASE Joined # {}
  BY <1>1 DEF Spent, Source
<1>2. CASE Joined = {}
  <2>1. m \in Metrics
    BY DEF Spent
  <2>2. Tables(sql) = {sql.from.table}
    <3>1. DOMAIN References(sql) = 1 .. 1 /\ References(sql)[1] = sql.from
      <4>1. Len(sql.joins) \in Nat /\ 1 .. Len(sql.joins) = {} /\ Selects
        BY <1>2, ReferencesAre DEF Spent
      <4>2. \A n \in Nat : 1 .. n = {} => n = 0
        <5>1. \A n \in Nat : n # 0 => 1 \in 1 .. n
          OBVIOUS
        <5> QED BY <5>1
      <4>3. Len(sql.joins) = 0
        BY <4>1, <4>2
      <4> QED BY <4>1, <4>3, ReferencesAre
    <3> QED BY <3>1 DEF Tables, Elements
  <2>3. ASSUME NEW at, NEW c, ColumnIdentity(sql, context, at) = <<Source, c>>
        PROVE  sql.from.table = Source
    <3>1. <<Source, c>> # Bad
      BY <2>1, MetricsAssumption DEF Bad, Source
    <3>2. PICK t \in Tables(sql) : ColumnIdentity(sql, context, at) = <<t, at[2]>>
      BY <2>3, <3>1, Identified DEF Spent
    <3> QED BY <3>2, <2>2, <2>3
  <2>4. CASE m.filters # {}
    <3>1. PICK f \in m.filters : TRUE
      BY <2>4
    <3> DEFINE wanted == [e |-> [fn |-> "col", at |-> <<m.source, f.col>>], op |-> "=", val |-> f.val]
    <3>2. wanted \in FixedFilters(m)
      BY DEF FixedFilters
    <3>3. m \in Elements(context.metrics)
      BY DEF Spent, Elements
    <3>4. PICK c \in Elements(sql.where) : CanonicalCondition(sql, context, c) = wanted
      BY <3>2, <3>3 DEF Spent, ValidateMetricFilters
    <3>5. Canonical(sql, context, c.e).at = <<Source, f.col>>
      BY <3>4 DEF CanonicalCondition, Source
    <3>6. <<Source, f.col>> # Star
      BY <2>1, MetricsAssumption DEF Star, Source
    <3>7. ColumnIdentity(sql, context, c.e.at) = <<Source, f.col>>
      BY <3>5, <3>6 DEF Canonical
    <3> QED BY <3>7, <2>3
  <2>5. CASE m.formula.col # "*"
    <3> DEFINE o == MetricOutputs(sql)[1]
    <3>0. context.metrics \in Seq(Metrics) /\ context.metrics # << >>
      BY DEF Spent
    <3>1. 1 \in 1 .. Len(context.metrics)
      BY <3>0
    <3>2. Canonical(sql, context, o) = Formula(m)
      BY <3>1 DEF Spent, ValidateMetricFormulas
    <3>3. Canonical(sql, context, o).at = <<Source, m.formula.col>>
      BY <3>2, <2>5 DEF Formula, Source
    <3>4. <<Source, m.formula.col>> # Star
      BY <2>5 DEF Star
    <3>5. ColumnIdentity(sql, context, o.at) = <<Source, m.formula.col>>
      BY <3>3, <3>4 DEF Canonical
    <3> QED BY <3>5, <2>3
  <2> QED BY <2>1, <2>4, <2>5, MetricsAssumption
<1> QED BY <1>1, <1>2

(* A column of a condition of a join that is identified is a column of the reference to its
   table. *)
LEMMA ColumnIsOf ==
  ASSUME Spent, NEW k \in DOMAIN References(sql), NEW i \in Joined, NEW p \in sql.joins[i].on,
         NEW at \in {p.l, p.r}, NEW c, ColumnIdentity(sql, context, at) = <<Table(k), c>>,
         ColumnIdentity(sql, context, at) # Bad
  PROVE  ColumnOf(at, References(sql)[k]) /\ at[2] = c
<1>1. PICK t \in Tables(sql) :
        /\ ColumnIdentity(sql, context, at) = <<t, at[2]>>
        /\ at[1] = "" => {x \in Tables(sql) : <<x, at[2]>> \in context.cols} = {t}
        /\ at[1] # "" => TableBindings(sql, at[1]) = {t}
  BY Identified DEF Spent
<1>2. t = Table(k) /\ at[2] = c
  <2>1. <<t, at[2]>> = <<Table(k), c>>
    BY <1>1
  <2> QED BY <2>1
<1>3. ASSUME NEW r \in Elements(References(sql)), r.table = Table(k) PROVE r = References(sql)[k]
  <2>1. PICK l \in DOMAIN References(sql) : r = References(sql)[l]
    BY DEF Elements
  <2> QED BY <2>1, <1>3, TablesDiffer DEF Table
<1>4. References(sql)[k] \in Elements(References(sql))
  BY DEF Elements
<1>5. \A r \in Elements(References(sql)) : r.table \in Tables(sql)
  BY DEF Tables
<1>6. CASE at[1] = ""
  <2>1. \A r \in Elements(References(sql)) : <<r.table, at[2]>> \in context.cols <=> r.table = Table(k)
    BY <1>1, <1>2, <1>5, <1>6
  <2>2. {x \in Elements(References(sql)) : <<x.table, at[2]>> \in context.cols} = {References(sql)[k]}
    BY <2>1, <1>3, <1>4 DEF Table
  <2> QED BY <2>2, <1>2, <1>6 DEF ColumnOf
<1>7. CASE at[1] # ""
  <2>1. [fn |-> "col", at |-> at] \in Expressions(sql)
    <3>1. /\ i \in DOMAIN sql.joins /\ p \in sql.joins[i].on
          /\ [fn |-> "col", at |-> at] \in {[fn |-> "col", at |-> p.l], [fn |-> "col", at |-> p.r]}
      BY DEF Joined
    <3> DEFINE ends(x) == {[fn |-> "col", at |-> x.l], [fn |-> "col", at |-> x.r]}
               named(y) == UNION {ends(x) : x \in sql.joins[y].on}
    <3>2. [fn |-> "col", at |-> at] \in ends(p)
      BY <3>1
    <3>3. Expressions(sql) = Elements(sql.outs) \cup {x.e : x \in Conditions(sql)} \cup sql.group
                               \cup {o.e : o \in Elements(sql.order)} \cup UNION {named(y) : y \in DOMAIN sql.joins}
      BY DEF Expressions
    <3> HIDE DEF ends
    <3>4. [fn |-> "col", at |-> at] \in named(i)
      BY <3>1, <3>2
    <3> HIDE DEF named
    <3> QED BY <3>1, <3>3, <3>4
  <2>2. Qualifies(sql, context, [fn |-> "col", at |-> at])
    BY <2>1 DEF Spent, ValidateScope
  <2>3. at # Star
    <3>1. Star[1] = ""
      BY DEF Star
    <3> QED BY <3>1, <1>7
  <2>4. PICK r \in Elements(References(sql)) : r.alias = at[1]
    BY <2>2, <2>3, <1>7 DEF Qualifies
  <2>5. r.table \in TableBindings(sql, at[1])
    BY <2>4 DEF TableBindings
  <2>6. r = References(sql)[k]
    BY <2>5, <1>1, <1>2, <1>3, <1>7
  <2> QED BY <2>4, <2>6, <1>2, <1>7 DEF ColumnOf
<1> QED BY <1>6, <1>7

(* No row is counted twice. *)
LEMMA SpentCountsOnce ==
  ASSUME Spent, NEW i \in Joined
  PROVE  LET j == sql.joins[i]
             earlier(at) == \E k \in 1 .. i : ColumnOf(at, References(sql)[k])
             own == {p.r : p \in {x \in j.on : ColumnOf(x.r, j.to) /\ earlier(x.l)}}
                      \cup {p.l : p \in {x \in j.on : ColumnOf(x.l, j.to) /\ earlier(x.r)}}
         IN \E k \in UniqueKeys : k[1] = j.to.table /\ Elements(k[2]) \subseteq {at[2] : at \in own}
<1> DEFINE j == sql.joins[i]
           earlier(at) == \E k \in 1 .. i : ColumnOf(at, References(sql)[k])
           own == {p.r : p \in {x \in j.on : ColumnOf(x.r, j.to) /\ earlier(x.l)}}
                    \cup {p.l : p \in {x \in j.on : ColumnOf(x.l, j.to) /\ earlier(x.r)}}
<1>1. PICK e \in context.joins : e.target = j.to.table /\ JoinPairs(sql, context, j.on) = ConstraintPairs(e)
  BY JoinsCertified
<1>2. e \in Edges /\ e.source = Source /\ <<e.target, e.to>> \in UniqueKeys
  BY DEF Spent, CertifiedJoins, Source
<1>3. DOMAIN e.from = DOMAIN e.to
  BY <1>2, RetrievalAssumption
<1>4. /\ 1 \in DOMAIN References(sql) /\ i + 1 \in DOMAIN References(sql) /\ i \in Nat /\ 1 \in 1 .. i
      /\ Table(1) = Source /\ Table(i + 1) = e.target /\ References(sql)[i + 1] = j.to
  BY <1>1, FromIsSource, ReferencesAre DEF Spent, Table
<1>5. ASSUME NEW m \in DOMAIN e.to
      PROVE  e.to[m] \in {at[2] : at \in own}
  <2>1. {<<e.source, e.from[m]>>, <<e.target, e.to[m]>>} \in JoinPairs(sql, context, j.on)
    BY <1>1, <1>3 DEF ConstraintPairs
  <2>2. PICK p \in j.on : {ColumnIdentity(sql, context, p.l), ColumnIdentity(sql, context, p.r)}
                            = {<<e.source, e.from[m]>>, <<e.target, e.to[m]>>}
    BY <2>1 DEF JoinPairs
  <2>3. Bad \notin {ColumnIdentity(sql, context, p.l), ColumnIdentity(sql, context, p.r)}
    BY DEF Spent, JoinsSpend, Joined
  <2>4. CASE /\ ColumnIdentity(sql, context, p.l) = <<Table(1), e.from[m]>>
             /\ ColumnIdentity(sql, context, p.r) = <<Table(i + 1), e.to[m]>>
    <3>1. ColumnOf(p.l, References(sql)[1])
      BY <2>3, <2>4, <1>4, ColumnIsOf
    <3>2. ColumnOf(p.r, References(sql)[i + 1]) /\ p.r[2] = e.to[m]
      BY <2>3, <2>4, <1>4, ColumnIsOf
    <3>3. p.r \in own
      BY <3>1, <3>2, <1>4
    <3> QED BY <3>2, <3>3
  <2>5. CASE /\ ColumnIdentity(sql, context, p.r) = <<Table(1), e.from[m]>>
             /\ ColumnIdentity(sql, context, p.l) = <<Table(i + 1), e.to[m]>>
    <3>1. ColumnOf(p.r, References(sql)[1])
      BY <2>3, <2>5, <1>4, ColumnIsOf
    <3>2. ColumnOf(p.l, References(sql)[i + 1]) /\ p.l[2] = e.to[m]
      BY <2>3, <2>5, <1>4, ColumnIsOf
    <3>3. p.l \in own
      BY <3>1, <3>2, <1>4
    <3> QED BY <3>2, <3>3
  <2> QED BY <2>2, <2>4, <2>5, <1>2, <1>4
<1>6. Elements(e.to) \subseteq {at[2] : at \in own}
  BY <1>5 DEF Elements
<1> HIDE DEF own
<1>7. \E k \in UniqueKeys : k[1] = j.to.table /\ Elements(k[2]) \subseteq {at[2] : at \in own}
  <2>1. <<e.target, e.to>>[1] = j.to.table /\ <<e.target, e.to>>[2] = e.to
    BY <1>1
  <2> QED BY <1>2, <1>6, <2>1
<1> QED BY <1>7 DEF own

(* What the guard and the comparison accept spends certified joins. *)
LEMMA AcceptedIsSpent ==
  ASSUME sql \in Texts, context.metrics # << >>, ContextSound(question, context),
         Accepts(question, context, sql)
  PROVE  Spent
<1>1. Selects /\ ValidateScope(sql, context) /\ ValidateSql(sql, context, question.cond # NoCond)
  BY DEF Accepts, ValidateSql, Selects
<1>2. /\ context.metrics \in Seq(Metrics) /\ CertifiedJoins(context.metrics[1], context.joins)
  BY DEF ContextSound, ChosenMetrics
<1>3. CASE Len(context.metrics) >= 2
  <2>1. ValidateMultiMetricExpression(sql, context, question.cond # NoCond)
    BY <1>1, <1>3 DEF ValidateSql
  <2> QED BY <2>1, <1>1, <1>2 DEF Spent, ValidateMultiMetricExpression
<1>4. CASE ~(Len(context.metrics) >= 2)
  <2>1. /\ ValidateMetricFilters(sql, context) /\ ValidateMetricFormulas(sql, context)
        /\ sql.joins # << >> => ValidateJoinConstraints(sql, context)
    BY <1>1, <1>4 DEF ValidateSql
  <2>2. JoinsSpend(sql, context)
    <3>1. CASE sql.joins = << >>
      BY <3>1 DEF JoinsSpend
    <3>2. CASE sql.joins # << >>
      BY <3>2, <2>1 DEF ValidateJoinConstraints
    <3> QED BY <3>1, <3>2
  <2>3. Joined # {} => sql.from.table = context.metrics[1].source
    <3> SUFFICES ASSUME Joined # {} PROVE sql.from.table = context.metrics[1].source
      OBVIOUS
    <3>1. sql.joins # << >>
      BY DEF Joined
    <3>2. PICK e \in context.joins : sql.from.table = e.source
      BY <3>1, <2>1 DEF ValidateJoinConstraints
    <3> QED BY <3>2, <1>2 DEF CertifiedJoins
  <2> QED BY <2>1, <2>2, <2>3, <1>1, <1>2 DEF Spent
<1> QED BY <1>3, <1>4

(* A date dimension is joined on the key the metrics are dated by, and on no other. *)
LEMMA SpentDates ==
  ASSUME Spent, ChosenMetrics(question, context.metrics), NEW i \in Joined,
         NEW m \in Elements(context.metrics), m.time.ok, sql.joins[i].to.table = m.time.target
  PROVE  {<<m.source, m.time.col>>} =
           {x \in UNION JoinPairs(sql, context, sql.joins[i].on) : x[1] = m.source}
<1> DEFINE pairs == JoinPairs(sql, context, sql.joins[i].on)
<1>1. m.source = Source /\ m.time = context.metrics[1].time
  <2>1. PICK k \in DOMAIN context.metrics : m = context.metrics[k]
    BY DEF Elements
  <2>2. context.metrics \in Seq(Metrics) /\ context.metrics # << >>
    BY DEF Spent
  <2>3. 1 \in DOMAIN context.metrics
    BY <2>2
  <2> QED BY <2>1, <2>3 DEF ChosenMetrics, Source
<1>2. PICK e \in context.joins : e.target = m.time.target /\ pairs = ConstraintPairs(e)
  BY JoinsCertified
<1>3. /\ e \in Edges /\ e.source = Source /\ e.target # Source
      /\ e.from = <<m.time.col>>
  BY <1>1, <1>2 DEF Spent, CertifiedJoins, Source
<1>4. DOMAIN e.from = {1} /\ e.from[1] = m.time.col
  BY <1>3
<1>5. pairs = {{<<Source, m.time.col>>, <<e.target, e.to[1]>>}}
  BY <1>2, <1>3, <1>4 DEF ConstraintPairs
<1>6. UNION pairs = {<<Source, m.time.col>>, <<e.target, e.to[1]>>}
  BY <1>5
<1> HIDE DEF pairs
<1>7. {x \in UNION pairs : x[1] = Source} = {<<Source, m.time.col>>}
  BY <1>3, <1>6
<1> QED BY <1>1, <1>7 DEF pairs

(* The aggregates of a text that is accepted are the metrics of its context, each once. *)
LEMMA SpentIsComplete ==
  ASSUME Spent, ChosenMetrics(question, context.metrics)
  PROVE  MetricsComplete
<1> DEFINE ms == context.metrics
           aggs == MetricOutputs(sql)
           n == Len(ms)
<1>1. ms \in Seq(Metrics) /\ n \in Nat /\ DOMAIN ms = 1 .. n
  BY DEF Spent
<1>2. Len(aggs) = n /\ \A i \in 1 .. n : Canonical(sql, context, aggs[i]) = Formula(ms[i])
  BY DEF Spent, ValidateMetricFormulas
<1>3. \A m \in Elements(ms) : \E i \in 1 .. n : ms[i] = m
  BY <1>1 DEF Elements
<1>4. \A i \in 1 .. n : ms[i] \in Elements(ms)
  BY <1>1 DEF Elements
<1> HIDE DEF aggs
<1>5. {Canonical(sql, context, aggs[i]) : i \in 1 .. Len(aggs)} = {Formula(m) : m \in Elements(ms)}
  BY <1>2, <1>3, <1>4
<1>6. Len(aggs) = Cardinality(Elements(ms))
  <2> DEFINE f == [i \in 1 .. n |-> ms[i]]
  <2>1. f \in Bijection(1 .. n, Elements(ms))
    <3>1. \A i, j \in 1 .. n : f[i] = f[j] => i = j
      BY <1>1 DEF ChosenMetrics
    <3> QED BY <3>1, <1>3, <1>4 DEF Bijection, Injection, Surjection, IsInjective
  <2>2. ExistsBijection(1 .. n, Elements(ms))
    BY <2>1 DEF ExistsBijection
  <2>3. Cardinality(Elements(ms)) = n
    BY <1>1, <2>2, FS_CountingElements
  <2> QED BY <2>3, <1>2
<1>7. Elements(ms) \subseteq Metrics
  BY <1>1, <1>3
<1>8. \A m \in Elements(ms) : FixedFilters(m) \subseteq {CanonicalCondition(sql, context, c) : c \in Elements(sql.where)}
  BY DEF Spent, ValidateMetricFilters
<1>9. /\ \A i \in DOMAIN question.metrics : \E m \in Elements(ms) : question.metrics[i] \in m.labels
      /\ \A m \in Elements(ms) : \E i \in DOMAIN question.metrics : question.metrics[i] \in m.labels
  BY DEF ChosenMetrics
<1> QED BY <1>5, <1>6, <1>7, <1>8, <1>9 DEF MetricsComplete, aggs

-----------------------------------------------------------------------------
(* The inductive invariant of the pipeline: what each stage passes on to the next. *)

Asked == pc \notin {"idle", "done"} => question \in Questions
Retrieved == pc \in {"generate", "guard", "database", "running"} => ContextSound(question, context)
Written == pc \in {"guard", "database", "running"} => sql \in Texts
Guarded == pc \in {"database", "running"} => Accepts(question, context, sql)

CertifiedInv == Asked /\ Retrieved /\ Written /\ Guarded

(* It holds of a request that has not begun. *)
LEMMA CertifiedInit == PipeInit => CertifiedInv
  BY DEF PipeInit, CertifiedInv, Asked, Retrieved, Written, Guarded

(* No step breaks it. *)
LEMMA CertifiedNext == CertifiedInv /\ [PipeNext]_pipeVars => CertifiedInv'
<1> SUFFICES ASSUME CertifiedInv, [PipeNext]_pipeVars PROVE CertifiedInv'
  OBVIOUS
<1> USE DEF CertifiedInv, Asked, Retrieved, Written, Guarded
<1>0. ASSUME pc' = "done" PROVE CertifiedInv'
  BY <1>0
<1>f. ASSUME NEW code, Finish(code) PROVE CertifiedInv'
  BY <1>f, <1>0 DEF Finish
<1>h. ASSUME Halt PROVE CertifiedInv'
  BY <1>h, <1>f DEF Halt
<1>1. ASSUME NEW q \in Questions, NEW v, NEW w \in BOOLEAN, Authorize(q, v, w) PROVE CertifiedInv'
  BY <1>1 DEF Authorize
<1>2. ASSUME NEW a \in Answers, Understand(a) PROVE CertifiedInv'
  <2>1. UNCHANGED question /\ pc = "understand"
    BY <1>2 DEF Understand
  <2>2. ASSUME NEW code, AfterUnderstanding(code) PROVE CertifiedInv'
    BY <2>1, <2>2, <1>f DEF AfterUnderstanding
  <2> QED BY <1>2, <2>1, <2>2, <1>h DEF Understand
<1>3. ASSUME NEW h \in Hits, ResolveContext(h) PROVE CertifiedInv'
  <2> DEFINE ctx == IF h.down = "no_retriever" THEN LoadQueryContext ELSE Retrieve(question, h)
  <2>1. UNCHANGED question /\ pc = "retrieve" /\ question \in Questions
    BY <1>3 DEF ResolveContext
  <2>2. CASE pc' = "generate" /\ context' = ctx /\ ctx.status = "SUCCESS"
    <3>1. ContextSound(question, ctx)
      <4>1. CASE h.down = "no_retriever"
        <5>1. ctx = LoadQueryContext /\ LoadQueryContext.status = "SUCCESS"
          BY <4>1, <2>2
        <5>2. LoadQueryContext.metrics = << >>
          BY <5>1 DEF LoadQueryContext, Fails
        <5> QED BY <5>1, <5>2 DEF ContextSound
      <4>2. CASE h.down # "no_retriever"
        <5>1. ctx = Retrieve(question, h)
          BY <4>2
        <5> QED BY <5>1, <2>1, <2>2, RetrieveSound
      <4> QED BY <4>1, <4>2
    <3> HIDE DEF ctx
    <3> QED BY <3>1, <2>1, <2>2
  <2>3. \/ Halt
        \/ \E code : Finish(code)
        \/ pc' = "generate" /\ context' = ctx /\ ctx.status = "SUCCESS"
    BY <1>3 DEF ResolveContext
  <2> QED BY <2>2, <2>3, <1>f, <1>h
<1>4. ASSUME NEW t \in Texts, Generate(t) PROVE CertifiedInv'
  <2>1. UNCHANGED <<question, context>> /\ pc = "generate"
    BY <1>4 DEF Generate
  <2>2. Halt \/ (\E code : Finish(code)) \/ (pc' = "guard" /\ sql' = t)
    BY <1>4 DEF Generate
  <2> QED BY <2>1, <2>2, <1>f, <1>h
<1>5. ASSUME Guard PROVE CertifiedInv'
  <2>1. UNCHANGED <<question, context, sql>> /\ pc = "guard"
    BY <1>5 DEF Guard
  <2>2. Halt \/ (\E code : Finish(code)) \/ (pc' = "database" /\ Accepts(question, context, sql))
    BY <1>5 DEF Guard
  <2> QED BY <2>1, <2>2, <1>f, <1>h
<1>6. ASSUME Send PROVE CertifiedInv'
  <2>1. UNCHANGED <<question, context, sql>> /\ pc = "database"
    BY <1>6 DEF Send
  <2>2. Halt \/ pc' = "running"
    BY <1>6 DEF Send
  <2> QED BY <2>1, <2>2, <1>h
<1>7. ASSUME NEW o \in {"rows", "cancelled", "error"}, Return(o) PROVE CertifiedInv'
  <2>1. Halt \/ (\E code : Finish(code)) \/ pc' = "done"
    BY <1>7 DEF Return
  <2> QED BY <2>1, <1>0, <1>f, <1>h
<1>8. ASSUME Stop PROVE CertifiedInv'
  BY <1>8 DEF Stop
<1>9. ASSUME UNCHANGED pipeVars PROVE CertifiedInv'
  BY <1>9 DEF pipeVars
<1> QED BY <1>1, <1>2, <1>3, <1>4, <1>5, <1>6, <1>7, <1>8, <1>9 DEF PipeNext

(* The number in an answer is the metric that was asked for: whatever metrics are published,
   whatever foreign keys the structure has and whatever text the model writes, a text that
   reaches the database counts no row of the metric's table twice, dates the metric by its own
   key of the calendar, and computes each requested metric once, by the published definition
   and with its fixed filters (sql_guard_join.py:9-60, sql_guard_multi_metric.py:63-147,
   relationship_graph.py:76-190, multi_metric.py:21-159). *)
THEOREM AnswersAreExact == PipeSpec => []MetricsExact
<1>1. CertifiedInv => MetricsExact
  <2> SUFFICES ASSUME CertifiedInv PROVE MetricsExact
    OBVIOUS
  <2>1. CASE ~Certain
    BY <2>1 DEF MetricsExact, CountedOnce, RightDateRole, MetricsComplete
  <2>2. CASE Certain
    <3>1. /\ context.metrics # << >> /\ sql \in Texts
          /\ ContextSound(question, context) /\ Accepts(question, context, sql)
      BY <2>2 DEF Certain, Sent, CertifiedInv, Retrieved, Written, Guarded
    <3>2. Spent /\ ChosenMetrics(question, context.metrics)
      BY <3>1, AcceptedIsSpent DEF ContextSound
    <3>3. CountedOnce
      <4>1. sql.from.table = context.metrics[1].source
        BY <3>2, FromIsSource DEF Source
      <4> QED BY <3>2, <4>1, SpentCountsOnce DEF CountedOnce, Joined
    <3>4. RightDateRole
      BY <3>2, SpentDates DEF RightDateRole, Joined
    <3>5. MetricsComplete
      BY <3>2, SpentIsComplete
    <3> QED BY <3>3, <3>4, <3>5 DEF MetricsExact
  <2> QED BY <2>1, <2>2
<1> QED BY <1>1, CertifiedInit, CertifiedNext, PTL DEF PipeSpec

-----------------------------------------------------------------------------
(***************************************************************************)
(* The accounts.  A step of a transaction either moves it and leaves the   *)
(* tables alone, or writes the tables and ends it.  What the open          *)
(* transactions rely on (CallInv) is preserved by the first kind action by *)
(* action, and by the second kind at once, from what any commit may do to  *)
(* a row it does not hold (Bystanders).  What the tables satisfy           *)
(* (TableInv) is then a matter of the five commits.                        *)
(***************************************************************************)

(***************************************************************************)
(* The inductive invariant.                                                *)
(***************************************************************************)

\* A transaction past its first step knows its user, and the row or the session it
\* began with is still there.
InUse == {"begun", "first", "empty"} \cup Holding

CallPlaced ==
    \A c \in Call :
        /\ call[c].pc \in InUse =>
              call[c].user \in User /\ call[c].op \in {"login", "change", "edit", "recover", "first"}
        /\ call[c].pc \in Holding => call[c].op # "first"
        /\ (call[c].pc \in InUse /\ call[c].op \in {"login", "edit"}) => users[call[c].user].exists
        /\ (call[c].pc \in InUse /\ call[c].op = "change") =>
              call[c].sess \in Session /\ sess[call[c].sess].user = call[c].user
        /\ call[c].pc = "auth" => call[c].sess \in Session /\ sess[call[c].sess].user \in User
        /\ call[c].pc \in {"role", "counted"} =>
              call[c].op = "edit" /\ ~StaysAdmin(call[c].form)
        /\ call[c].at <= now

\* What a transaction read under the row lock is still the row.  Only a row that was
\* not there can appear behind its back, and only recovery locks such a row.
SeenIsCurrent ==
    \A c \in Call : call[c].pc \in Holding =>
        call[c].seen = users[call[c].user] \/ (call[c].op = "recover" /\ ~call[c].seen.exists)

\* The three locks exclude.
OneHolder ==
    \A c, d \in Call : (c # d /\ call[c].pc \in Holding /\ call[d].pc \in Holding) =>
        call[c].user # call[d].user
OneRole ==
    \A c, d \in Call :
        (call[c].pc \in {"role", "counted"} /\ call[d].pc \in {"role", "counted"}) => c = d
OneInstall ==
    \A c, d \in Call :
        (call[c].pc \in {"first", "empty"} /\ call[d].pc \in {"first", "empty"}) => c = d

\* What was counted, or found empty, under a lock still holds.
CountStands ==
    \A c \in Call : call[c].pc = "counted" => \E u \in User \ {call[c].user} : IsAdmin(u)
EmptyStands ==
    \A c \in Call : call[c].pc = "empty" => \A u \in User : ~(users[u].exists /\ users[u].admin)

CallInv ==
    /\ CallPlaced
    /\ SeenIsCurrent
    /\ OneHolder
    /\ OneRole
    /\ OneInstall
    /\ CountStands
    /\ EmptyStands

\* An account exists from the first installation on.
InstallCounts ==
    /\ installs <= 1
    /\ installs = 0 <=> \A u \in User : ~users[u].exists

SessionOwned == \A s \in Session : sess[s].user # Null => users[sess[s].user].exists

GivenPassed == \A u \in User : given[u] <= users[u].pw

\* Every failure over the limit moves the end of the lock by LockTime, and the lock
\* never ends later than LockTime from now.
LockGrows ==
    \A u \in User :
        /\ wrong[u] = users[u].failed
        /\ users[u].locked <= now + LockTime
        /\ users[u].failed >= MaxFailed =>
              users[u].locked >= (users[u].failed - MaxFailed + 1) * LockTime

TableInv ==
    /\ InstallCounts
    /\ SessionOwned
    /\ GivenPassed
    /\ LockGrows
    /\ AdminRemains
    /\ SessionsFresh
    /\ ResetHolds

AccountsInv == AccountsTypeOK /\ CallInv /\ TableInv
-----------------------------------------------------------------------------
(***************************************************************************)
(* Steps that leave the tables alone.                                      *)
(***************************************************************************)

AccountRows == <<users, sess, now, history>>
Becomes(c, r) == call' = [call EXCEPT ![c] = r]

\* The type of the tables, and the type of the open transactions.
TablesOK ==
    /\ users \in [User -> UserType]
    /\ \A u \in User : ~users[u].exists => users[u] = NoUser
    /\ sess \in [Session -> SessionType]
    /\ now \in Nat
    /\ given \in [User -> Nat]
    /\ wrong \in [User -> Nat]
    /\ installs \in Nat
CallsOK == call \in [Call -> CallType]

\* What the tables satisfy does not depend on the transactions.
LEMMA TablesKept ==
  ASSUME TablesOK, TableInv, UNCHANGED AccountRows
  PROVE  TablesOK' /\ TableInv'
<1>1. UNCHANGED <<users, sess, now, given, wrong, installs>> BY DEF AccountRows, history
<1>2. TablesOK' BY <1>1 DEF TablesOK
<1>3. InstallCounts' /\ SessionOwned' /\ GivenPassed' /\ LockGrows'
  BY <1>1 DEF TableInv, InstallCounts, SessionOwned, GivenPassed, LockGrows
<1>4. AdminRemains' /\ SessionsFresh' /\ ResetHolds'
  BY <1>1 DEF TableInv, AdminRemains, SessionsFresh, ResetHolds, IsAdmin
<1> QED BY <1>2, <1>3, <1>4 DEF TableInv

\* A call that has not begun, and the row of a user name nobody has.
LEMMA IdleType == Idle \in CallType /\ NoUser \in UserType
BY DEF Idle, CallType, NoForm, Form, NoUser, UserType

\* A transaction that ends and one that begins hold no lock.
LEMMA Opened ==
  ASSUME AccountsInv, UNCHANGED AccountRows, NEW c \in Call, NEW r \in CallType,
         Becomes(c, r),
         r.pc \in {"idle", "begun", "auth"},
         r.at <= now,
         r.pc = "auth" => r.sess \in Session /\ sess[r.sess].user \in User,
         r.pc = "begun" =>
             r.user \in User /\ r.op \in {"login", "change", "edit", "recover", "first"},
         (r.pc = "begun" /\ r.op \in {"login", "edit"}) => users[r.user].exists,
         (r.pc = "begun" /\ r.op = "change") =>
             r.sess \in Session /\ sess[r.sess].user = r.user
  PROVE  CallInv' /\ CallsOK'
<1>1. UNCHANGED <<users, sess, now>> BY DEF AccountRows
<1>2. call \in [Call -> CallType] /\ CallInv BY DEF AccountsInv, AccountsTypeOK
<1>3. call'[c] = r /\ \A k \in Call : k # c => call'[k] = call[k] BY <1>2 DEF Becomes
<1>4. CallsOK' BY <1>2 DEF CallsOK, Becomes
<1>5. CallPlaced'
  BY <1>1, <1>2, <1>3 DEF CallInv, CallPlaced, InUse, Holding, StaysAdmin
<1>6. SeenIsCurrent' BY <1>1, <1>2, <1>3 DEF CallInv, SeenIsCurrent, Holding
<1>7. OneHolder' /\ OneRole' /\ OneInstall'
  BY <1>1, <1>2, <1>3 DEF CallInv, OneHolder, OneRole, OneInstall, Holding
<1>8. CountStands' /\ EmptyStands'
  BY <1>1, <1>2, <1>3 DEF CallInv, CountStands, EmptyStands, IsAdmin
<1> QED BY <1>4, <1>5, <1>6, <1>7, <1>8 DEF CallInv

\* login, recover_admin, create-admin, change_password and the user page begin.
LEMMA BeginKept ==
  ASSUME AccountsInv, NEW c \in Call, NEW op, NEW u \in User, NEW s \in Session \cup {Null},
         NEW g \in Nat, NEW f \in Form, Begin(c, op, u, s, g, f),
         op \in {"login", "change", "edit", "recover", "first"},
         op \in {"login", "edit"} => users[u].exists,
         op = "change" => s \in Session /\ sess[s].user = u
  PROVE  AccountsInv'
<1> DEFINE r == [pc |-> "begun", op |-> op, user |-> u, sess |-> s, guess |-> g, at |-> now,
                 form |-> f, seen |-> NoUser]
<1>0. now \in Nat BY DEF AccountsInv, AccountsTypeOK
<1>1. r \in CallType BY <1>0, IdleType DEF CallType
<1>2. UNCHANGED AccountRows /\ Becomes(c, r) BY DEF Begin, AccountRows, Becomes
<1>3. /\ r.pc = "begun" /\ r.at = now /\ r.user = u /\ r.op = op /\ r.sess = s
  OBVIOUS
<1> HIDE DEF r
<1>4. CallInv' /\ CallsOK' BY <1>0, <1>1, <1>2, <1>3, Opened
<1>5. TablesOK' /\ TableInv' BY <1>2, TablesKept DEF AccountsInv, AccountsTypeOK, TablesOK
<1> QED BY <1>4, <1>5 DEF AccountsInv, AccountsTypeOK, TablesOK, CallsOK

\* A request that reads its session holds no lock yet.
LEMMA ReadSessionKept ==
  ASSUME AccountsInv, NEW c \in Call, NEW s \in Session, ReadSession(c, s)
  PROVE  AccountsInv'
<1> DEFINE r == [Idle EXCEPT !.pc = "auth", !.op = "auth", !.sess = s, !.at = now]
<1>0. now \in Nat /\ sess[s] \in SessionType BY DEF AccountsInv, AccountsTypeOK
<1>1. r \in CallType BY <1>0, IdleType DEF CallType
<1>2. UNCHANGED AccountRows /\ Becomes(c, r) BY DEF ReadSession, AccountRows, Becomes
<1>3. r.pc = "auth" /\ r.at = now /\ r.sess = s BY DEF Idle
<1>4. sess[s].user \in User BY <1>0 DEF ReadSession, Valid, SessionType
<1> HIDE DEF r
<1>5. CallInv' /\ CallsOK' BY <1>0, <1>1, <1>2, <1>3, <1>4, Opened
<1>6. TablesOK' /\ TableInv' BY <1>2, TablesKept DEF AccountsInv, AccountsTypeOK, TablesOK
<1> QED BY <1>5, <1>6 DEF AccountsInv, AccountsTypeOK, TablesOK, CallsOK

\* A transaction that ends without a write: it failed, or it was refused.
LEMMA ReturnKept ==
  ASSUME AccountsInv, NEW c \in Call, Leave(c), UNCHANGED AccountRows
  PROVE  AccountsInv'
<1>0. now \in Nat BY DEF AccountsInv, AccountsTypeOK
<1>1. Idle.pc = "idle" /\ Idle.at = 0 BY DEF Idle
<1>2. Becomes(c, Idle) BY DEF Leave, Becomes
<1>3. CallInv' /\ CallsOK' BY <1>0, <1>1, <1>2, Opened, IdleType
<1>4. TablesOK' /\ TableInv' BY TablesKept DEF AccountsInv, AccountsTypeOK, TablesOK
<1> QED BY <1>3, <1>4 DEF AccountsInv, AccountsTypeOK, TablesOK, CallsOK

\* The row lock is free when it is taken, and the row is read under it.
LEMMA LockUserKept ==
  ASSUME AccountsInv, NEW c \in Call, LockUser(c)
  PROVE  AccountsInv'
<1> DEFINE u == call[c].user
<1>1. UNCHANGED AccountRows BY DEF LockUser, AccountRows
<1>2. call \in [Call -> CallType] /\ CallInv /\ users \in [User -> UserType]
  BY DEF AccountsInv, AccountsTypeOK
<1>3. call[c].pc = "begun" /\ call[c].op # "first" /\ u \in User
  BY <1>2 DEF LockUser, CallInv, CallPlaced, InUse
<1>4. users[u] \in UserType /\ call[c] \in CallType BY <1>2, <1>3
<1>5. call' = [call EXCEPT ![c] = [call[c] EXCEPT !.pc = "locked", !.seen = users[u]]]
  BY <1>2 DEF LockUser, CallType
<1> DEFINE r == [call[c] EXCEPT !.pc = "locked", !.seen = users[u]]
<1>6. r \in CallType BY <1>4 DEF CallType, Holding
<1>7. /\ r.pc = "locked" /\ r.seen = users[u] /\ r.user = u /\ r.op = call[c].op
      /\ r.sess = call[c].sess /\ r.at = call[c].at
  BY <1>4 DEF CallType
<1>8. call'[c] = r /\ (\A k \in Call : k # c => call'[k] = call[k]) /\ CallsOK'
  BY <1>2, <1>5, <1>6 DEF CallsOK
<1> HIDE DEF r
<1>9. UNCHANGED <<users, sess, now>> BY <1>1 DEF AccountRows
<1>10. CallPlaced'
  BY <1>2, <1>3, <1>7, <1>8, <1>9 DEF CallInv, CallPlaced, InUse, Holding, StaysAdmin
<1>11. SeenIsCurrent' BY <1>2, <1>7, <1>8, <1>9 DEF CallInv, SeenIsCurrent, Holding
<1>12. OneHolder' BY <1>2, <1>7, <1>8 DEF CallInv, OneHolder, Holding, LockUser, UserFree, Holds
<1>13. OneRole' /\ OneInstall'
  BY <1>2, <1>7, <1>8 DEF CallInv, OneRole, OneInstall
<1>14. CountStands' /\ EmptyStands'
  BY <1>2, <1>7, <1>8, <1>9 DEF CallInv, CountStands, EmptyStands, IsAdmin
<1>15. TablesOK' /\ TableInv' BY <1>1, TablesKept DEF AccountsInv, AccountsTypeOK, TablesOK
<1> QED BY <1>8, <1>10, <1>11, <1>12, <1>13, <1>14, <1>15 DEF AccountsInv, CallInv, AccountsTypeOK, TablesOK, CallsOK

\* A transaction that goes on with what it has read; what the new place asks for is a
\* matter of the action.
LEMMA Gone ==
  ASSUME AccountsInv, UNCHANGED AccountRows, NEW c \in Call,
         NEW next \in {"role", "counted", "first", "empty"}, Go(c, next),
         next \in {"role", "counted"} =>
             /\ call[c].pc \in Holding
             /\ call[c].op = "edit" /\ ~StaysAdmin(call[c].form)
             /\ \A k \in Call \ {c} : call[k].pc \notin {"role", "counted"},
         next \in {"first", "empty"} =>
             /\ call[c].pc \in InUse
             /\ \A k \in Call \ {c} : call[k].pc \notin {"first", "empty"},
         next = "counted" => \E u \in User \ {call[c].user} : IsAdmin(u),
         next = "empty" => \A u \in User : ~(users[u].exists /\ users[u].admin)
  PROVE  AccountsInv'
<1>1. UNCHANGED <<users, sess, now>> BY DEF AccountRows
<1>2. call \in [Call -> CallType] /\ CallInv BY DEF AccountsInv, AccountsTypeOK
<1>3. call[c] \in CallType /\ call' = [call EXCEPT ![c] = [call[c] EXCEPT !.pc = next]]
  BY <1>2 DEF Go, CallType
<1> DEFINE r == [call[c] EXCEPT !.pc = next]
<1>4. r \in CallType BY <1>3 DEF CallType, Holding
<1>5. /\ r.pc = next /\ r.seen = call[c].seen /\ r.user = call[c].user /\ r.op = call[c].op
      /\ r.sess = call[c].sess /\ r.at = call[c].at /\ r.form = call[c].form
  BY <1>3 DEF CallType
<1>6. call'[c] = r /\ (\A k \in Call : k # c => call'[k] = call[k]) /\ CallsOK'
  BY <1>2, <1>3, <1>4 DEF CallsOK
<1> HIDE DEF r
<1>7. CallPlaced'
  BY <1>1, <1>2, <1>5, <1>6 DEF CallInv, CallPlaced, InUse, Holding, StaysAdmin
<1>8. SeenIsCurrent' BY <1>1, <1>2, <1>5, <1>6 DEF CallInv, SeenIsCurrent, Holding
<1>9. OneHolder' BY <1>2, <1>5, <1>6 DEF CallInv, OneHolder, Holding
<1>10. OneRole' /\ OneInstall' BY <1>2, <1>5, <1>6 DEF CallInv, OneRole, OneInstall
<1>11. CountStands'
  BY <1>1, <1>2, <1>5, <1>6 DEF CallInv, CountStands, IsAdmin
<1>12. EmptyStands'
  BY <1>1, <1>2, <1>5, <1>6 DEF CallInv, EmptyStands
<1>13. TablesOK' /\ TableInv' BY TablesKept DEF AccountsInv, AccountsTypeOK, TablesOK
<1> QED BY <1>6, <1>7, <1>8, <1>9, <1>10, <1>11, <1>12, <1>13 DEF AccountsInv, CallInv, AccountsTypeOK, TablesOK, CallsOK

\* validate_user_mutation takes the role lock, counts, and goes on or refuses.
LEMMA RoleKept ==
  ASSUME AccountsInv, NEW c \in Call, LockRole(c) \/ CountAdmins(c)
  PROVE  AccountsInv'
<1>1. CASE LockRole(c)
  <2>1. UNCHANGED AccountRows /\ Go(c, "role") BY <1>1 DEF LockRole, AccountRows
  <2>2. /\ call[c].pc \in Holding /\ call[c].op = "edit" /\ ~StaysAdmin(call[c].form)
        /\ \A k \in Call \ {c} : call[k].pc \notin {"role", "counted"}
    BY <1>1 DEF LockRole, RoleFree, HoldsRole, Holding
  <2> QED BY <2>1, <2>2, Gone
<1>2. CASE CountAdmins(c)
  <2>1. UNCHANGED AccountRows /\ call[c].pc = "role" BY <1>2 DEF CountAdmins, AccountRows
  <2>2. CASE Leave(c) BY <2>1, <2>2, ReturnKept
  <2>3. CASE Go(c, "counted") /\ \E u \in User \ {call[c].user} : IsAdmin(u)
    <3>1. /\ call[c].pc \in Holding /\ call[c].op = "edit" /\ ~StaysAdmin(call[c].form)
          /\ \A k \in Call \ {c} : call[k].pc \notin {"role", "counted"}
      BY <2>1 DEF Holding, AccountsInv, CallInv, CallPlaced, OneRole
    <3> QED BY <2>1, <2>3, <3>1, Gone
  <2> QED BY <1>2, <2>2, <2>3 DEF CountAdmins
<1> QED BY <1>1, <1>2

\* create-admin takes the advisory lock and looks for an administrator.
LEMMA FirstKept ==
  ASSUME AccountsInv, NEW c \in Call, LockFirst(c) \/ CheckFirst(c)
  PROVE  AccountsInv'
<1>1. CASE LockFirst(c)
  <2>1. UNCHANGED AccountRows /\ Go(c, "first") BY <1>1 DEF LockFirst, AccountRows
  <2>2. /\ call[c].pc \in InUse
        /\ \A k \in Call \ {c} : call[k].pc \notin {"first", "empty"}
    BY <1>1 DEF LockFirst, InstallFree, InUse
  <2> QED BY <2>1, <2>2, Gone
<1>2. CASE CheckFirst(c)
  <2>1. UNCHANGED AccountRows /\ call[c].pc = "first" BY <1>2 DEF CheckFirst, AccountRows
  <2>2. CASE Leave(c) BY <2>1, <2>2, ReturnKept
  <2>3. CASE Go(c, "empty") /\ \A u \in User : ~(users[u].exists /\ users[u].admin)
    <3>1. /\ call[c].pc \in InUse
          /\ \A k \in Call \ {c} : call[k].pc \notin {"first", "empty"}
      BY <2>1 DEF InUse, AccountsInv, CallInv, OneInstall
    <3> QED BY <2>1, <2>3, <3>1, Gone
  <2> QED BY <1>2, <2>2, <2>3 DEF CheckFirst
<1> QED BY <1>1, <1>2
-----------------------------------------------------------------------------
(***************************************************************************)
(* Steps that write the tables.                                            *)
(***************************************************************************)

\* The transactions of C end; the others stay where they are.
Ends(C) == call' = [k \in Call |-> IF k \in C THEN Idle ELSE call[k]]

\* What the commit of C does to the rows that the other transactions rely on: rows
\* and owners stay, a row that is there changes only under its lock, an administrator
\* is taken away only after the count and the first one added only after the check.
Bystanders(C) ==
    /\ now <= now'
    /\ \A u \in User : users[u].exists => users'[u].exists
    /\ \A s \in Session : sess[s].user # Null => sess'[s].user = sess[s].user
    /\ \A u \in User : users'[u] = users[u] \/ ~users[u].exists \/ \E c \in C : Holds(c, u)
    /\ \/ \A u \in User : IsAdmin(u) => users'[u].exists /\ users'[u].active /\ users'[u].admin
       \/ \E c \in C : call[c].pc = "counted"
    /\ \/ \A u \in User : users'[u].exists => \E v \in User : users[v].exists
       \/ \E c \in C : call[c].pc = "empty"

\* What the open transactions rely on survives any commit.
LEMMA CallsStand ==
  ASSUME AccountsInv, TablesOK', NEW C \in SUBSET Call, Ends(C), Bystanders(C)
  PROVE  CallInv' /\ CallsOK'
<1>1. /\ call \in [Call -> CallType] /\ CallInv /\ now \in Nat /\ now' \in Nat
      /\ users \in [User -> UserType] /\ sess \in [Session -> SessionType]
  BY DEF AccountsInv, AccountsTypeOK, TablesOK
<1>2. CallsOK' BY <1>1, IdleType DEF Ends, CallsOK
<1>3. Idle.pc = "idle" /\ Idle.at = 0 BY DEF Idle
<1>4. \A k \in Call : call'[k] = Idle \/ (k \notin C /\ call'[k] = call[k])
  BY DEF Ends
<1>5. \A k \in Call : call'[k].pc # "idle" => k \notin C /\ call'[k] = call[k]
  BY <1>3, <1>4
<1>6. \A k \in Call : call[k] \in CallType BY <1>1
<1>7. CallPlaced'
  <2> SUFFICES ASSUME NEW k \in Call
               PROVE  /\ call'[k].pc \in InUse =>
                            /\ call'[k].user \in User
                            /\ call'[k].op \in {"login", "change", "edit", "recover", "first"}
                      /\ call'[k].pc \in Holding => call'[k].op # "first"
                      /\ (call'[k].pc \in InUse /\ call'[k].op \in {"login", "edit"}) =>
                            users'[call'[k].user].exists
                      /\ (call'[k].pc \in InUse /\ call'[k].op = "change") =>
                            call'[k].sess \in Session /\ sess'[call'[k].sess].user = call'[k].user
                      /\ call'[k].pc = "auth" =>
                            call'[k].sess \in Session /\ sess'[call'[k].sess].user \in User
                      /\ call'[k].pc \in {"role", "counted"} =>
                            call'[k].op = "edit" /\ ~StaysAdmin(call'[k].form)
                      /\ call'[k].at <= now'
    BY DEF CallPlaced, InUse, Holding, StaysAdmin
  <2>1. CASE call'[k] = Idle BY <1>1, <1>3, <2>1 DEF InUse, Holding
  <2>2. CASE call'[k] = call[k]
    <3>1. call[k].at \in Nat BY <1>6 DEF CallType
    <3>2. Null \notin User BY AccountsAssumption
    <3> QED BY <1>1, <2>2, <3>1, <3>2 DEF CallInv, CallPlaced, Bystanders
  <2> QED BY <1>4, <2>1, <2>2
<1>8. SeenIsCurrent'
  <2> SUFFICES ASSUME NEW k \in Call, call'[k].pc \in Holding
               PROVE  \/ call'[k].seen = users'[call'[k].user]
                      \/ call'[k].op = "recover" /\ ~call'[k].seen.exists
    BY DEF SeenIsCurrent, Holding
  <2>1. k \notin C /\ call'[k] = call[k] /\ call[k].pc \in Holding BY <1>5 DEF Holding
  <2>2. /\ call[k].user \in User
        /\ call[k].seen = users[call[k].user] \/ (call[k].op = "recover" /\ ~call[k].seen.exists)
    BY <1>1, <2>1 DEF CallInv, CallPlaced, InUse, SeenIsCurrent
  <2>3. CASE users'[call[k].user] = users[call[k].user] BY <2>1, <2>2, <2>3
  <2>4. CASE ~users[call[k].user].exists
    <3>1. call[k].op \in {"login", "change", "edit", "recover"}
      BY <1>1, <2>1 DEF CallInv, CallPlaced, InUse
    <3>2. call[k].op \notin {"login", "edit"}
      BY <1>1, <2>1, <2>4 DEF CallInv, CallPlaced, InUse
    <3>3. call[k].op # "change"
      BY <1>1, <2>1, <2>2, <2>4, AccountsAssumption
      DEF CallInv, CallPlaced, InUse, AccountsInv, TableInv, SessionOwned
    <3>4. call[k].op = "recover" BY <3>1, <3>2, <3>3
    <3> QED BY <2>1, <2>2, <2>4, <3>4
  <2>5. ASSUME NEW c \in C, Holds(c, call[k].user) PROVE FALSE
    BY <1>1, <2>1, <2>5 DEF Holds, CallInv, OneHolder
  <2> QED BY <2>2, <2>3, <2>4, <2>5 DEF Bystanders
<1>9. OneHolder' /\ OneRole' /\ OneInstall'
  BY <1>1, <1>3, <1>4 DEF CallInv, OneHolder, OneRole, OneInstall, Holding
<1>10. CountStands'
  <2> SUFFICES ASSUME NEW k \in Call, call'[k].pc = "counted"
               PROVE  \E u \in User \ {call'[k].user} :
                          users'[u].exists /\ users'[u].active /\ users'[u].admin
    BY DEF CountStands, IsAdmin
  <2>1. k \notin C /\ call'[k] = call[k] BY <1>5
  <2>2. ASSUME NEW c \in C, call[c].pc = "counted" PROVE FALSE
    BY <1>1, <2>1, <2>2 DEF CallInv, OneRole
  <2>3. \E u \in User \ {call[k].user} : IsAdmin(u) BY <1>1, <2>1 DEF CallInv, CountStands
  <2> QED BY <2>1, <2>2, <2>3 DEF Bystanders
<1>11. EmptyStands'
  <2> SUFFICES ASSUME NEW k \in Call, call'[k].pc = "empty", NEW u \in User, users'[u].exists
               PROVE  FALSE
    BY DEF EmptyStands
  <2>1. k \notin C /\ call'[k] = call[k] BY <1>5
  <2>2. ASSUME NEW c \in C, call[c].pc = "empty" PROVE FALSE
    BY <1>1, <2>1, <2>2 DEF CallInv, OneInstall
  <2>3. \E v \in User : users[v].exists BY <2>2 DEF Bystanders
  <2>4. \E v \in User : IsAdmin(v) BY <2>3 DEF AccountsInv, TableInv, AdminRemains
  <2> QED BY <1>1, <2>1, <2>4 DEF CallInv, EmptyStands, IsAdmin
<1> QED BY <1>2, <1>7, <1>8, <1>9, <1>10, <1>11 DEF CallInv

\* A commit that ends c, and a write that belongs to no transaction.
LEMMA Committed ==
  ASSUME AccountsInv, NEW c \in Call, Leave(c), Bystanders({c}), TablesOK', TableInv'
  PROVE  AccountsInv'
<1>1. Ends({c}) BY DEF AccountsInv, AccountsTypeOK, Leave, Ends
<1>2. CallInv' /\ CallsOK' BY <1>1, CallsStand
<1> QED BY <1>2 DEF AccountsInv, AccountsTypeOK, TablesOK, CallsOK

\* A step of the tables that no call takes part in.
LEMMA RowsWritten ==
  ASSUME AccountsInv, UNCHANGED call, Bystanders({}), TablesOK', TableInv'
  PROVE  AccountsInv'
<1>1. Ends({}) BY DEF AccountsInv, AccountsTypeOK, Ends
<1>2. CallInv' /\ CallsOK' BY <1>1, CallsStand
<1> QED BY <1>2 DEF AccountsInv, AccountsTypeOK, TablesOK, CallsOK

\* Sessions keep their owner and their password, and are never revived.
SessionsAge ==
    /\ sess' \in [Session -> SessionType]
    /\ \A s \in Session : /\ sess'[s].user = sess[s].user
                          /\ sess'[s].pw = sess[s].pw
                          /\ sess[s].revoked => sess'[s].revoked

\* A write to the sessions alone: a new expiry or a logout.
LEMMA SessionsMoved ==
  ASSUME AccountsInv, SessionsAge, UNCHANGED <<users, now, history>>, NEW C \in SUBSET Call
  PROVE  TablesOK' /\ TableInv' /\ Bystanders(C)
<1>1. UNCHANGED <<users, now, given, wrong, installs>> /\ now \in Nat
  BY DEF history, AccountsInv, AccountsTypeOK
<1>2. TablesOK' BY <1>1 DEF AccountsInv, AccountsTypeOK, TablesOK, SessionsAge
<1>3. InstallCounts' /\ GivenPassed' /\ LockGrows' /\ AdminRemains'
  BY <1>1 DEF AccountsInv, TableInv, InstallCounts, GivenPassed, LockGrows, AdminRemains, IsAdmin
<1>4. SessionOwned' /\ ResetHolds'
  BY <1>1 DEF AccountsInv, TableInv, SessionOwned, ResetHolds, SessionsAge
<1>5. SessionsFresh'
  BY <1>1 DEF AccountsInv, TableInv, SessionsFresh, SessionsAge
<1>6. Bystanders(C) BY <1>1 DEF Bystanders, SessionsAge, IsAdmin
<1> QED BY <1>2, <1>3, <1>4, <1>5, <1>6 DEF TableInv

\* The sliding expiry only moves an open session.
LEMMA SlideSessionKept ==
  ASSUME AccountsInv, NEW c \in Call, SlideSession(c)
  PROVE  AccountsInv'
<1> DEFINE s == call[c].sess
           e == Earlier(call[c].at + IdleTime, sess[s].absolute)
<1>1. /\ s \in Session /\ sess \in [Session -> SessionType] /\ call[c] \in CallType
  BY DEF SlideSession, AccountsInv, AccountsTypeOK, CallInv, CallPlaced
<1>2. e \in Nat BY <1>1, AccountsAssumption DEF Earlier, SessionType, CallType
<1>3. sess' = [sess EXCEPT ![s] = [sess[s] EXCEPT !.expires = e]]
  BY <1>1 DEF SlideSession, SessionType
<1> HIDE DEF e
<1>4. SessionsAge BY <1>1, <1>2, <1>3 DEF SessionsAge, SessionType
<1>5. UNCHANGED <<users, now, history>> /\ Leave(c) BY DEF SlideSession
<1>6. TablesOK' /\ TableInv' /\ Bystanders({c}) BY <1>4, <1>5, SessionsMoved
<1> QED BY <1>5, <1>6, Committed

\* A logout revokes one session.
LEMMA LogoutKept ==
  ASSUME AccountsInv, NEW s \in Session, Logout(s)
  PROVE  AccountsInv'
<1>1. sess \in [Session -> SessionType] BY DEF AccountsInv, AccountsTypeOK
<1>2. SessionsAge BY <1>1 DEF Logout, SessionsAge, SessionType
<1>3. UNCHANGED <<users, now, history>> /\ UNCHANGED call BY DEF Logout
<1>4. TablesOK' /\ TableInv' /\ Bystanders({}) BY <1>2, <1>3, SessionsMoved
<1> QED BY <1>3, <1>4, RowsWritten

\* Time passes: sessions and locks only run out.
LEMMA TickKept ==
  ASSUME AccountsInv, Tick
  PROVE  AccountsInv'
<1>1. /\ UNCHANGED <<users, sess, call, given, wrong, installs>>
      /\ now \in Nat /\ now' = now + 1
  BY DEF Tick, history, AccountsInv, AccountsTypeOK
<1>2. TablesOK' BY <1>1 DEF AccountsInv, AccountsTypeOK, TablesOK
<1>3. InstallCounts' /\ GivenPassed' /\ AdminRemains'
  BY <1>1 DEF AccountsInv, TableInv, InstallCounts, GivenPassed, AdminRemains, IsAdmin
<1>4. SessionOwned' /\ ResetHolds' /\ SessionsFresh'
  BY <1>1 DEF AccountsInv, TableInv, SessionOwned, ResetHolds, SessionsFresh
<1>5. LockGrows'
  <2> SUFFICES ASSUME NEW u \in User
               PROVE  /\ wrong[u] = users[u].failed
                      /\ users[u].locked <= now + 1 + LockTime
                      /\ users[u].failed >= MaxFailed =>
                            users[u].locked >= (users[u].failed - MaxFailed + 1) * LockTime
    BY <1>1 DEF LockGrows
  <2>1. users[u].locked \in Nat BY DEF AccountsInv, AccountsTypeOK, UserType
  <2> QED BY <1>1, <2>1, AccountsAssumption DEF AccountsInv, TableInv, LockGrows
<1>6. Bystanders({}) BY <1>1 DEF Bystanders, IsAdmin
<1> QED BY <1>1, <1>2, <1>3, <1>4, <1>5, <1>6, RowsWritten DEF TableInv
-----------------------------------------------------------------------------
(***************************************************************************)
(* The commits of a row of users.                                          *)
(***************************************************************************)

RowIs(u, x) ==
    /\ users' \in [User -> UserType]
    /\ \A v \in User : ~users'[v].exists => users'[v] = NoUser
    /\ users'[u] = x
    /\ \A v \in User : v # u => users'[v] = users[v]

\* One row of users is written.
LEMMA RowWritten ==
  ASSUME AccountsInv, NEW u \in User, NEW x \in UserType, x.exists,
         users' = [users EXCEPT ![u] = x]
  PROVE  RowIs(u, x)
<1>1. /\ users \in [User -> UserType]
      /\ \A v \in User : ~users[v].exists => users[v] = NoUser
  BY DEF AccountsInv, AccountsTypeOK
<1> QED BY <1>1 DEF RowIs

\* A holder of a row, and what it read.
LEMMA HolderFacts ==
  ASSUME AccountsInv, NEW c \in Call, call[c].pc \in Holding
  PROVE  /\ call[c] \in CallType
         /\ call[c].user \in User
         /\ users[call[c].user] \in UserType
         /\ Holds(c, call[c].user)
         /\ call[c].at <= now
         /\ call[c].seen = users[call[c].user] \/ (call[c].op = "recover" /\ ~call[c].seen.exists)
         /\ call[c].op \in {"login", "edit"} => users[call[c].user].exists
<1>1. call[c].pc \in InUse BY DEF InUse
<1>2. /\ call \in [Call -> CallType] /\ users \in [User -> UserType]
  BY DEF AccountsInv, AccountsTypeOK
<1> QED BY <1>1, <1>2 DEF AccountsInv, CallInv, CallPlaced, SeenIsCurrent, Holds

\* A login changes the counter and the lock of an account, and nothing else of it.
SameAccounts ==
    /\ UNCHANGED <<now, given, installs>>
    /\ \A v \in User : /\ users'[v].exists <=> users[v].exists
                       /\ users'[v].active <=> users[v].active
                       /\ users'[v].admin <=> users[v].admin
                       /\ users'[v].pw = users[v].pw

\* Steps that leave the accounts alone.
LEMMA AccountsStay ==
  ASSUME AccountsInv, SameAccounts
  PROVE  InstallCounts' /\ GivenPassed' /\ AdminRemains'
<1>1. InstallCounts' BY DEF SameAccounts, AccountsInv, TableInv, InstallCounts
<1>2. GivenPassed' BY DEF SameAccounts, AccountsInv, TableInv, GivenPassed
<1>3. AdminRemains' BY DEF SameAccounts, AccountsInv, TableInv, AdminRemains, IsAdmin
<1> QED BY <1>1, <1>2, <1>3

\* Steps that leave the sessions alone too.
LEMMA SessionsStay ==
  ASSUME AccountsInv, SameAccounts, UNCHANGED sess
  PROVE  SessionOwned' /\ SessionsFresh' /\ ResetHolds'
<1>1. \A s \in Session : sess[s].user # Null => sess[s].user \in User
  BY DEF AccountsInv, AccountsTypeOK, SessionType
<1>2. SessionOwned' BY <1>1 DEF SameAccounts, AccountsInv, TableInv, SessionOwned
<1>3. SessionsFresh' BY <1>1 DEF SameAccounts, AccountsInv, TableInv, SessionsFresh
<1>4. ResetHolds' BY DEF SameAccounts, AccountsInv, TableInv, ResetHolds
<1> QED BY <1>2, <1>3, <1>4

\* The holder of the row lock is the only call that may have read the row.
LEMMA HolderLogs ==
  ASSUME AccountsInv, SameAccounts, NEW c \in Call, NEW u \in User, Holds(c, u),
         \A v \in User : v # u => users'[v] = users[v],
         \A s \in Session : sess[s].user # Null => sess'[s].user = sess[s].user
  PROVE  Bystanders({c})
<1>1. now \in Nat /\ now' = now BY DEF AccountsInv, AccountsTypeOK, SameAccounts
<1> QED BY <1>1 DEF SameAccounts, Bystanders, IsAdmin

\* One more step of LockTime.
LEMMA OneMore ==
  ASSUME NEW k \in Int, NEW t \in Nat
  PROVE  (k + 1) * t = k * t + t
BY SMT

\* A wrong password: the counter, and the lock from the limit on.
LEMMA MissedKept ==
  ASSUME AccountsInv, NEW c \in Call, CommitLogin(c), UNCHANGED sess,
         call[c].seen.locked <= call[c].at,
         LET u == call[c].user
             tries == call[c].seen.failed + 1
         IN /\ users' = [users EXCEPT ![u].failed = tries,
                                      ![u].locked = IF tries >= MaxFailed
                                                    THEN call[c].at + LockTime ELSE @]
            /\ wrong' = [wrong EXCEPT ![u] = @ + 1]
  PROVE  AccountsInv'
<1> DEFINE u == call[c].user
           old == users[u]
           tries == old.failed + 1
           until == IF tries >= MaxFailed THEN call[c].at + LockTime ELSE old.locked
           x == [old EXCEPT !.failed = tries, !.locked = until]
<1>0. call[c].pc = "locked" /\ call[c].op = "login" BY DEF CommitLogin
<1>1. /\ u \in User /\ old \in UserType /\ call[c].at \in Nat /\ call[c].at <= now
      /\ call[c].seen = old /\ old.exists /\ Holds(c, u)
  BY <1>0, HolderFacts DEF Holding, CallType
<1>2. Leave(c) /\ UNCHANGED <<sess, now, given, installs>> /\ now \in Nat
  BY DEF CommitLogin, AccountsInv, AccountsTypeOK
<1>3. /\ old.failed \in Nat /\ old.locked \in Nat /\ LockTime \in Nat /\ MaxFailed \in Nat
      /\ LockTime > 0 /\ MaxFailed > 0
  BY <1>1, AccountsAssumption DEF UserType
<1>4. tries \in Nat /\ until \in Nat BY <1>1, <1>3
<1>5. users \in [User -> UserType] /\ wrong \in [User -> Nat] BY DEF AccountsInv, AccountsTypeOK
<1>6. users' = [users EXCEPT ![u] = x] BY <1>1, <1>5 DEF UserType
<1>7. wrong' \in [User -> Nat] /\ wrong'[u] = wrong[u] + 1
      /\ \A v \in User : v # u => wrong'[v] = wrong[v]
  BY <1>1, <1>5
<1>8. old.locked <= call[c].at BY <1>1
<1> HIDE DEF until, tries
<1>9. /\ x \in UserType /\ x.failed = tries /\ x.locked = until /\ x.exists = old.exists
      /\ x.active = old.active /\ x.admin = old.admin /\ x.pw = old.pw /\ x.must = old.must
  BY <1>1, <1>4 DEF UserType
<1> HIDE DEF x
<1>10. RowIs(u, x) BY <1>1, <1>6, <1>9, RowWritten
<1>11. TablesOK' BY <1>2, <1>7, <1>10 DEF AccountsInv, AccountsTypeOK, TablesOK, RowIs
<1>12. SameAccounts BY <1>2, <1>9, <1>10 DEF RowIs, SameAccounts
<1>13. InstallCounts' /\ GivenPassed' /\ AdminRemains' BY <1>12, AccountsStay
<1>14. SessionOwned' /\ SessionsFresh' /\ ResetHolds' BY <1>2, <1>12, SessionsStay
<1>15. LockGrows'
  <2> SUFFICES ASSUME NEW v \in User
               PROVE  /\ wrong'[v] = users'[v].failed
                      /\ users'[v].locked <= now' + LockTime
                      /\ users'[v].failed >= MaxFailed =>
                            users'[v].locked >= (users'[v].failed - MaxFailed + 1) * LockTime
    BY DEF LockGrows
  <2>0. LockGrows BY DEF AccountsInv, TableInv
  <2>1. CASE v # u BY <1>2, <1>7, <1>10, <2>0, <2>1 DEF RowIs, LockGrows
  <2>2. CASE v = u
    <3>0. users'[u].failed = tries /\ users'[u].locked = until BY <1>9, <1>10 DEF RowIs
    <3>1. wrong'[u] = tries BY <1>1, <1>7, <2>0 DEF LockGrows, tries
    <3>2. until <= now + LockTime BY <1>1, <1>2, <1>3, <1>8, <2>0 DEF LockGrows, until
    <3>3. ASSUME tries >= MaxFailed PROVE until >= (tries - MaxFailed + 1) * LockTime
      <4>1. until = call[c].at + LockTime BY <3>3 DEF until
      <4>2. CASE old.failed >= MaxFailed
        <5> DEFINE k == old.failed - MaxFailed + 1
        <5>1. k \in Int /\ tries - MaxFailed + 1 = k + 1 BY <1>3 DEF tries
        <5>2. old.locked >= k * LockTime BY <1>1, <2>0, <4>2 DEF LockGrows
        <5>3. (k + 1) * LockTime = k * LockTime + LockTime BY <1>3, <5>1, OneMore
        <5>4. k * LockTime \in Int BY <1>3, <5>1
        <5> HIDE DEF k
        <5> QED BY <1>1, <1>3, <1>8, <4>1, <5>1, <5>2, <5>3, <5>4
      <4>3. CASE old.failed < MaxFailed
        <5>1. tries - MaxFailed + 1 = 1 BY <1>3, <3>3, <4>3 DEF tries
        <5>2. 1 * LockTime = LockTime BY <1>3
        <5> QED BY <1>1, <1>3, <4>1, <5>1, <5>2
      <4> QED BY <1>3, <4>2, <4>3
    <3> QED BY <1>2, <2>2, <3>0, <3>1, <3>2, <3>3
  <2> QED BY <2>1, <2>2
<1>16. Bystanders({c}) BY <1>1, <1>2, <1>10, <1>12, HolderLogs DEF RowIs
<1> QED BY <1>2, <1>11, <1>13, <1>14, <1>15, <1>16, Committed DEF TableInv

\* The counter and the lock are cleared together.
LEMMA ClearedLock ==
  ASSUME AccountsInv, NEW u \in User, users'[u].failed = 0, users'[u].locked = 0,
         \A v \in User : v # u => users'[v] = users[v],
         wrong' = [wrong EXCEPT ![u] = 0], UNCHANGED now
  PROVE  LockGrows' /\ wrong' \in [User -> Nat]
<1>1. wrong \in [User -> Nat] /\ now \in Nat /\ LockTime \in Nat /\ MaxFailed \in Nat \ {0}
  BY AccountsAssumption DEF AccountsInv, AccountsTypeOK
<1>2. wrong' \in [User -> Nat] /\ wrong'[u] = 0
      /\ \A v \in User : v # u => wrong'[v] = wrong[v]
  BY <1>1
<1>3. LockGrows BY DEF AccountsInv, TableInv
<1>4. ASSUME NEW v \in User
      PROVE  /\ wrong'[v] = users'[v].failed
             /\ users'[v].locked <= now' + LockTime
             /\ users'[v].failed >= MaxFailed =>
                   users'[v].locked >= (users'[v].failed - MaxFailed + 1) * LockTime
  <2>1. CASE v = u BY <1>1, <1>2, <2>1
  <2>2. CASE v # u BY <1>2, <1>3, <2>2 DEF LockGrows
  <2> QED BY <2>1, <2>2
<1> QED BY <1>2, <1>4 DEF LockGrows

\* The right password: a session with the password the row has.
LEMMA LoggedInKept ==
  ASSUME AccountsInv, NEW c \in Call, CommitLogin(c), call[c].seen.active,
         NEW s \in Free,
         LET u == call[c].user
         IN /\ users' = [users EXCEPT ![u].failed = 0, ![u].locked = 0]
            /\ wrong' = [wrong EXCEPT ![u] = 0]
            /\ sess' = [sess EXCEPT ![s] =
                  [user |-> u, pw |-> call[c].seen.pw, revoked |-> FALSE,
                   expires |-> call[c].at + IdleTime, absolute |-> call[c].at + AbsoluteTime]]
  PROVE  AccountsInv'
<1> DEFINE u == call[c].user
           old == users[u]
           x == [old EXCEPT !.failed = 0, !.locked = 0]
           n == [user |-> u, pw |-> old.pw, revoked |-> FALSE,
                 expires |-> call[c].at + IdleTime, absolute |-> call[c].at + AbsoluteTime]
<1>0. call[c].pc = "locked" /\ call[c].op = "login" BY DEF CommitLogin
<1>1. /\ u \in User /\ old \in UserType /\ call[c].at \in Nat
      /\ call[c].seen = old /\ old.exists /\ Holds(c, u)
  BY <1>0, HolderFacts DEF Holding, CallType
<1>2. Leave(c) /\ UNCHANGED <<now, given, installs>> BY DEF CommitLogin
<1>3. /\ users \in [User -> UserType] /\ sess \in [Session -> SessionType]
      /\ s \in Session /\ sess[s].user = Null
  BY DEF AccountsInv, AccountsTypeOK, Free
<1>4. users' = [users EXCEPT ![u] = x] BY <1>1, <1>3 DEF UserType
<1>5. /\ x \in UserType /\ x.failed = 0 /\ x.locked = 0 /\ x.exists = old.exists
      /\ x.active = old.active /\ x.admin = old.admin /\ x.pw = old.pw
  BY <1>1 DEF UserType
<1> HIDE DEF x
<1>6. RowIs(u, x) BY <1>1, <1>4, <1>5, RowWritten
<1>7. SameAccounts BY <1>2, <1>5, <1>6 DEF RowIs, SameAccounts
<1>8. LockGrows' /\ wrong' \in [User -> Nat] BY <1>1, <1>2, <1>5, <1>6, ClearedLock DEF RowIs
<1>9. call[c].at + IdleTime \in Nat /\ call[c].at + AbsoluteTime \in Nat /\ old.pw \in Nat
  BY <1>1, AccountsAssumption DEF UserType
<1>10. /\ n \in SessionType /\ n.user = u /\ n.pw = old.pw
       /\ sess' = [sess EXCEPT ![s] = n]
  BY <1>1, <1>9 DEF SessionType
<1> HIDE DEF n
<1>11. /\ sess' \in [Session -> SessionType] /\ sess'[s].user = u /\ sess'[s].pw = old.pw
       /\ \A k \in Session : k # s => sess'[k] = sess[k]
  BY <1>3, <1>10
<1>12. TablesOK' BY <1>2, <1>6, <1>8, <1>11 DEF AccountsInv, AccountsTypeOK, TablesOK, RowIs
<1>13. InstallCounts' /\ GivenPassed' /\ AdminRemains' BY <1>7, AccountsStay
<1>14. u # Null /\ \A k \in Session : sess[k].user # Null => sess[k].user \in User
  BY <1>1, <1>3, AccountsAssumption DEF SessionType
<1>15. users'[u].exists /\ users'[u].active /\ users'[u].pw = old.pw
  BY <1>1, <1>5, <1>6 DEF RowIs
<1>16. SessionOwned'
  BY <1>7, <1>11, <1>14, <1>15 DEF SameAccounts, AccountsInv, TableInv, SessionOwned
<1>17. SessionsFresh'
  <2> SUFFICES ASSUME NEW k \in Session, sess'[k].user # Null, ~sess'[k].revoked
               PROVE  users'[sess'[k].user].active /\ sess'[k].pw = users'[sess'[k].user].pw
    BY DEF SessionsFresh
  <2>1. CASE k = s BY <1>11, <1>15, <2>1
  <2>2. CASE k # s
    <3>1. sess'[k] = sess[k] /\ sess[k].user \in User BY <1>11, <1>14, <2>2
    <3>2. users[sess[k].user].active /\ sess[k].pw = users[sess[k].user].pw
      BY <3>1 DEF AccountsInv, TableInv, SessionsFresh
    <3> QED BY <1>7, <3>1, <3>2 DEF SameAccounts
  <2> QED BY <2>1, <2>2
<1>18. ResetHolds'
  <2> SUFFICES ASSUME NEW v \in User, users'[v].exists, given'[v] > 0, users'[v].pw > given'[v]
               PROVE  \E k \in Session : sess'[k].user = v /\ sess'[k].pw = given'[v]
    BY DEF ResetHolds
  <2>1. PICK k \in Session : sess[k].user = v /\ sess[k].pw = given[v]
    BY <1>7 DEF SameAccounts, AccountsInv, TableInv, ResetHolds
  <2>2. k # s BY <1>3, <2>1, AccountsAssumption
  <2>3. sess'[k] = sess[k] BY <1>11, <2>1, <2>2
  <2>4. given'[v] = given[v] BY <1>2
  <2> QED BY <2>1, <2>3, <2>4
<1>19. \A k \in Session : sess[k].user # Null => sess'[k].user = sess[k].user BY <1>3, <1>11
<1>20. \A v \in User : v # u => users'[v] = users[v] BY <1>6 DEF RowIs
<1>21. Bystanders({c}) BY <1>1, <1>7, <1>19, <1>20, HolderLogs
<1> QED BY <1>2, <1>8, <1>12, <1>13, <1>16, <1>17, <1>18, <1>21, Committed DEF TableInv

\* The login commits: a miss, a clear, or a new session.
LEMMA CommitLoginKept ==
  ASSUME AccountsInv, NEW c \in Call, CommitLogin(c)
  PROVE  AccountsInv'
<1>1. CASE UNCHANGED <<users, sess, wrong>>
  BY <1>1, ReturnKept DEF CommitLogin, AccountRows, history
<1>2. CASE call[c].seen.active /\ call[c].seen.locked <= call[c].at /\ call[c].guess # call[c].seen.pw
  BY <1>1, <1>2, MissedKept DEF CommitLogin
<1>3. CASE call[c].seen.active /\ call[c].seen.locked <= call[c].at /\ call[c].guess = call[c].seen.pw
  BY <1>1, <1>3, LoggedInKept DEF CommitLogin
<1> QED BY <1>1, <1>2, <1>3 DEF CommitLogin

\* What a password change, a recovery and an edit have in common: the holder of the
\* row writes it; a new password or a disabled account has no session left; a password
\* is new because somebody gave it or because a session of its user asked for it; and
\* administrator rights go only after the count.
RowChanged(c, u, x) ==
    /\ Holds(c, u) /\ users[u].exists
    /\ x.exists /\ x.pw >= users[u].pw
    /\ RowIs(u, x)
    /\ SessionsAge
    /\ (x.pw # users[u].pw \/ ~x.active) =>
          \A s \in Session : sess[s].user = u => sess'[s].revoked
    /\ given' \in [User -> Nat]
    /\ \A v \in User : v # u => given'[v] = given[v]
    /\ \/ given'[u] = x.pw
       \/ /\ given'[u] = given[u]
          /\ \/ x.pw = users[u].pw
             \/ \E s \in Session : sess[s].user = u /\ sess[s].pw = users[u].pw
    /\ (IsAdmin(u) => x.active /\ x.admin) \/ call[c].pc = "counted"
    /\ UNCHANGED <<now, installs>>

LEMMA RowChangedKept ==
  ASSUME AccountsInv, NEW c \in Call, NEW u \in User, NEW x \in UserType, RowChanged(c, u, x),
         LockGrows', wrong' \in [User -> Nat]
  PROVE  TablesOK' /\ TableInv' /\ Bystanders({c})
<1>0. /\ users \in [User -> UserType] /\ sess \in [Session -> SessionType] /\ now \in Nat
      /\ given \in [User -> Nat] /\ users[u] \in UserType
      /\ TableInv
  BY DEF AccountsInv, AccountsTypeOK
<1>1. users'[u] = x /\ \A v \in User : v # u => users'[v] = users[v]
  BY DEF RowChanged, RowIs
<1>2. \A v \in User : users'[v].exists <=> users[v].exists BY <1>1 DEF RowChanged
<1>3. TablesOK' BY <1>0 DEF AccountsInv, AccountsTypeOK, TablesOK, RowChanged, RowIs, SessionsAge
<1>4. InstallCounts' BY <1>0, <1>2 DEF RowChanged, TableInv, InstallCounts
<1>5. \A s \in Session : /\ sess'[s].user = sess[s].user /\ sess'[s].pw = sess[s].pw
                         /\ sess[s].revoked => sess'[s].revoked
                         /\ sess[s].user # Null => sess[s].user \in User
  BY <1>0 DEF RowChanged, SessionsAge, SessionType
<1>6. SessionOwned' BY <1>0, <1>2, <1>5 DEF TableInv, SessionOwned
<1>7. x.pw \in Nat /\ users[u].pw \in Nat /\ x.pw >= users[u].pw /\ given[u] \in Nat
      /\ given[u] <= users[u].pw
  BY <1>0 DEF UserType, RowChanged, TableInv, GivenPassed
<1>8. GivenPassed'
  <2> SUFFICES ASSUME NEW v \in User PROVE given'[v] <= users'[v].pw BY DEF GivenPassed
  <2>1. CASE v = u BY <1>1, <1>7, <2>1 DEF RowChanged
  <2>2. CASE v # u BY <1>0, <1>1, <2>2 DEF RowChanged, TableInv, GivenPassed
  <2> QED BY <2>1, <2>2
<1>9. (\A v \in User : IsAdmin(v) => users'[v].exists /\ users'[v].active /\ users'[v].admin)
      \/ call[c].pc = "counted"
  BY <1>1 DEF RowChanged, IsAdmin
<1>10. AdminRemains'
  <2>1. CASE call[c].pc = "counted"
    <3>1. PICK v \in User \ {u} : IsAdmin(v)
      BY <2>1 DEF AccountsInv, CallInv, CountStands, RowChanged, Holds
    <3>2. users'[v].exists /\ users'[v].active /\ users'[v].admin BY <1>1, <3>1 DEF IsAdmin
    <3> QED BY <3>2 DEF AdminRemains, IsAdmin
  <2>2. CASE call[c].pc # "counted"
    <3>1. PICK v \in User : IsAdmin(v) BY <1>0 DEF TableInv, AdminRemains, RowChanged
    <3>2. users'[v].exists /\ users'[v].active /\ users'[v].admin BY <1>9, <2>2, <3>1
    <3> QED BY <3>2 DEF AdminRemains, IsAdmin
  <2> QED BY <2>1, <2>2
<1>11. SessionsFresh'
  <2> SUFFICES ASSUME NEW s \in Session, sess'[s].user # Null, ~sess'[s].revoked
               PROVE  users'[sess'[s].user].active /\ sess'[s].pw = users'[sess'[s].user].pw
    BY DEF SessionsFresh
  <2>1. /\ sess[s].user \in User /\ sess'[s].user = sess[s].user /\ sess'[s].pw = sess[s].pw
        /\ users[sess[s].user].active /\ sess[s].pw = users[sess[s].user].pw
    BY <1>0, <1>5 DEF TableInv, SessionsFresh
  <2>2. CASE sess[s].user = u BY <1>1, <2>1, <2>2 DEF RowChanged
  <2>3. CASE sess[s].user # u BY <1>1, <2>1, <2>3
  <2> QED BY <2>2, <2>3
<1>12. ResetHolds'
  <2> SUFFICES ASSUME NEW v \in User, users'[v].exists, given'[v] > 0, users'[v].pw > given'[v]
               PROVE  \E s \in Session : sess'[s].user = v /\ sess'[s].pw = given'[v]
    BY DEF ResetHolds
  <2>1. CASE v # u BY <1>0, <1>1, <1>5, <2>1 DEF TableInv, ResetHolds, RowChanged
  <2>2. CASE v = u
    <3>1. given'[u] = given[u] BY <1>1, <1>7, <2>2 DEF RowChanged
    <3>2. CASE users[u].pw > given[u]
      BY <1>0, <1>2, <1>5, <2>2, <3>1, <3>2 DEF TableInv, ResetHolds
    <3>3. CASE users[u].pw = given[u]
      <4>1. x.pw # users[u].pw /\ x.pw # given'[u] BY <1>1, <1>7, <2>2, <3>1, <3>3
      <4>2. \E s \in Session : sess[s].user = u /\ sess[s].pw = users[u].pw
        BY <4>1 DEF RowChanged
      <4> QED BY <1>5, <2>2, <3>1, <3>3, <4>2
    <3> QED BY <1>7, <3>2, <3>3
  <2> QED BY <2>1, <2>2
<1>13. Bystanders({c})
  BY <1>0, <1>1, <1>2, <1>5, <1>9 DEF Bystanders, RowChanged
<1> QED BY <1>3, <1>4, <1>6, <1>8, <1>10, <1>11, <1>12, <1>13 DEF TableInv

\* _revoke_user_sessions.
LEMMA RevokedAge ==
  ASSUME AccountsInv, NEW u \in User, sess' = Revoked(u)
  PROVE  SessionsAge /\ \A s \in Session : sess[s].user = u => sess'[s].revoked
<1>1. sess \in [Session -> SessionType] BY DEF AccountsInv, AccountsTypeOK
<1>2. ASSUME NEW s \in Session
      PROVE  /\ sess'[s] \in SessionType
             /\ sess'[s].user = sess[s].user /\ sess'[s].pw = sess[s].pw
             /\ sess[s].revoked => sess'[s].revoked
             /\ sess[s].user = u => sess'[s].revoked
  <2>1. sess[s] \in SessionType BY <1>1
  <2>2. CASE sess[s].user = u
    <3>1. sess'[s] = [sess[s] EXCEPT !.revoked = TRUE] BY <2>2 DEF Revoked
    <3> QED BY <2>1, <3>1 DEF SessionType
  <2>3. CASE sess[s].user # u
    <3>1. sess'[s] = sess[s] BY <2>3 DEF Revoked
    <3> QED BY <2>1, <2>3, <3>1
  <2> QED BY <2>2, <2>3
<1>3. sess' \in [Session -> SessionType]
  <2>1. sess' = [s \in Session |-> sess'[s]] BY DEF Revoked
  <2> QED BY <1>2, <2>1
<1> QED BY <1>2, <1>3 DEF SessionsAge

\* A new password, given or asked for.
LEMMA NewPasswordKept ==
  ASSUME AccountsInv, NEW c \in Call, NEW u \in User, NEW must \in BOOLEAN, NewPassword(u, must),
         Holds(c, u), users[u].exists, Leave(c), UNCHANGED <<now, installs>>,
         \/ given' = [given EXCEPT ![u] = users[u].pw + 1]
         \/ UNCHANGED given /\ \E s \in Session : sess[s].user = u /\ sess[s].pw = users[u].pw
  PROVE  AccountsInv'
<1> DEFINE old == users[u]
           n == old.pw + 1
           x == [old EXCEPT !.pw = n, !.must = must, !.failed = 0, !.locked = 0]
<1>1. /\ users \in [User -> UserType] /\ old \in UserType /\ given \in [User -> Nat]
      /\ old.pw \in Nat
  BY DEF AccountsInv, AccountsTypeOK, UserType
<1>2. n \in Nat /\ n > old.pw BY <1>1
<1>3. users' = [users EXCEPT ![u] = x] BY <1>1 DEF NewPassword, UserType
<1>4. given' \in [User -> Nat]
      /\ (\A v \in User : v # u => given'[v] = given[v])
      /\ \/ given'[u] = n
         \/ given'[u] = given[u] /\ \E s \in Session : sess[s].user = u /\ sess[s].pw = old.pw
  BY <1>1, <1>2
<1> HIDE DEF n
<1>5. /\ x \in UserType /\ x.exists = old.exists /\ x.active = old.active
      /\ x.admin = old.admin /\ x.pw = n /\ x.failed = 0 /\ x.locked = 0
  BY <1>1, <1>2 DEF UserType
<1> HIDE DEF x
<1>6. RowIs(u, x) BY <1>3, <1>5, RowWritten
<1>7. SessionsAge /\ \A s \in Session : sess[s].user = u => sess'[s].revoked
  BY RevokedAge DEF NewPassword
<1>8. LockGrows' /\ wrong' \in [User -> Nat] BY <1>5, <1>6, ClearedLock DEF RowIs, NewPassword
<1>9. RowChanged(c, u, x)
  <2>1. IsAdmin(u) => x.active /\ x.admin BY <1>5 DEF IsAdmin
  <2>2. x.exists /\ x.pw >= old.pw BY <1>1, <1>2, <1>5
  <2> QED BY <1>4, <1>5, <1>6, <1>7, <2>1, <2>2 DEF RowChanged
<1>10. TablesOK' /\ TableInv' /\ Bystanders({c}) BY <1>5, <1>8, <1>9, RowChangedKept
<1> QED BY <1>10, Committed

\* change_password: a valid session of the user was opened with the current password.
LEMMA CommitChangeKept ==
  ASSUME AccountsInv, NEW c \in Call, CommitChange(c)
  PROVE  AccountsInv'
<1> DEFINE u == call[c].user
           s == call[c].sess
<1>1. CASE UNCHANGED <<users, sess, wrong>>
  BY <1>1, ReturnKept DEF CommitChange, AccountRows, history
<1>2. CASE Valid(s, call[c].at) /\ NewPassword(u, FALSE)
  <2>1. call[c].pc = "locked" /\ call[c].op = "change" BY DEF CommitChange
  <2>2. u \in User /\ Holds(c, u) BY <2>1, HolderFacts DEF Holding
  <2>3. s \in Session /\ sess[s].user = u
    BY <2>1 DEF AccountsInv, CallInv, CallPlaced, InUse, Holding
  <2>4. u # Null BY <2>2, AccountsAssumption
  <2>5. users[u].exists BY <2>3, <2>4 DEF AccountsInv, TableInv, SessionOwned
  <2>6. sess[s].pw = users[u].pw
    BY <1>2, <2>3, <2>4 DEF Valid, AccountsInv, TableInv, SessionsFresh
  <2>7. Leave(c) /\ UNCHANGED <<now, installs>> /\ UNCHANGED given BY DEF CommitChange
  <2> QED BY <1>2, <2>2, <2>3, <2>5, <2>6, <2>7, NewPasswordKept
<1> QED BY <1>1, <1>2 DEF CommitChange

\* recover_admin.
LEMMA CommitRecoverKept ==
  ASSUME AccountsInv, NEW c \in Call, CommitRecover(c)
  PROVE  AccountsInv'
<1> DEFINE u == call[c].user
<1>1. CASE UNCHANGED <<users, sess, wrong, given>>
  BY <1>1, ReturnKept DEF CommitRecover, AccountRows, history
<1>2. CASE /\ call[c].seen.exists
           /\ NewPassword(u, TRUE) /\ given' = [given EXCEPT ![u] = users[u].pw + 1]
  <2>1. call[c].pc = "locked" BY DEF CommitRecover
  <2>2. u \in User /\ Holds(c, u) /\ users[u].exists
    BY <1>2, <2>1, HolderFacts DEF Holding
  <2>3. Leave(c) /\ UNCHANGED <<now, installs>> BY DEF CommitRecover
  <2> QED BY <1>2, <2>2, <2>3, NewPasswordKept
<1> QED BY <1>1, <1>2 DEF CommitRecover

\* The user page: rights are taken away only from "counted".
LEMMA CommitEditKept ==
  ASSUME AccountsInv, NEW c \in Call, CommitEdit(c)
  PROVE  AccountsInv'
<1> DEFINE u == call[c].user
           f == call[c].form
           old == users[u]
           n == IF f.reset THEN old.pw + 1 ELSE old.pw
           m == f.must \/ f.reset
           x == [old EXCEPT !.active = f.active, !.admin = f.admin, !.must = m, !.pw = n]
<1>1. CASE UNCHANGED <<users, sess, given>>
  BY <1>1, ReturnKept DEF CommitEdit, AccountRows, history
<1>2. CASE /\ users' = [users EXCEPT ![u].active = f.active, ![u].admin = f.admin,
                                     ![u].must = f.must \/ f.reset,
                                     ![u].pw = IF f.reset THEN @ + 1 ELSE @]
           /\ given' = [given EXCEPT ![u] = IF f.reset THEN users[u].pw + 1 ELSE @]
           /\ sess' = IF f.reset \/ ~f.active THEN Revoked(u) ELSE sess
  <2>1. /\ call[c].op = "edit" /\ call[c].pc \in Holding
        /\ call[c].pc = "counted" \/ StaysAdmin(f)
    BY DEF CommitEdit, Approved, Holding
  <2>2. /\ u \in User /\ Holds(c, u) /\ old.exists /\ old \in UserType /\ f \in Form
    BY <2>1, HolderFacts DEF CallType
  <2>3. /\ users \in [User -> UserType] /\ given \in [User -> Nat] /\ old.pw \in Nat
        /\ sess \in [Session -> SessionType]
    BY <2>2 DEF AccountsInv, AccountsTypeOK, UserType
  <2>4. n \in Nat /\ n >= old.pw /\ (~f.reset => n = old.pw) /\ m \in BOOLEAN BY <2>3
  <2>5. f.active \in BOOLEAN /\ f.admin \in BOOLEAN BY <2>2 DEF Form
  <2>6. users' = [users EXCEPT ![u] = x] BY <1>2, <2>2, <2>3 DEF UserType
  <2>7. /\ given' \in [User -> Nat]
        /\ \A v \in User : v # u => given'[v] = given[v]
        /\ given'[u] = n \/ (given'[u] = given[u] /\ n = old.pw)
    <3>1. CASE f.reset
      <4>1. given' = [given EXCEPT ![u] = n] BY <1>2, <3>1
      <4> QED BY <2>2, <2>3, <2>4, <4>1
    <3>2. CASE ~f.reset
      <4>1. given' = given BY <1>2, <2>3, <3>2
      <4> QED BY <2>3, <2>4, <3>2, <4>1
    <3> QED BY <3>1, <3>2
  <2> HIDE DEF n, m
  <2>8. /\ x \in UserType /\ x.exists = old.exists /\ x.active = f.active /\ x.admin = f.admin
        /\ x.pw = n /\ x.failed = old.failed /\ x.locked = old.locked
    BY <2>2, <2>4, <2>5 DEF UserType
  <2> HIDE DEF x
  <2>9. RowIs(u, x) BY <2>2, <2>6, <2>8, RowWritten
  <2>10. /\ SessionsAge
         /\ (f.reset \/ ~f.active) => \A s \in Session : sess[s].user = u => sess'[s].revoked
    <3>1. CASE sess' = Revoked(u) BY <2>2, <3>1, RevokedAge
    <3>2. CASE sess' = sess /\ ~(f.reset \/ ~f.active) BY <2>3, <3>2 DEF SessionsAge
    <3> QED BY <1>2, <3>1, <3>2
  <2>11. Leave(c) /\ UNCHANGED <<now, installs>> /\ UNCHANGED wrong BY DEF CommitEdit
  <2>12. LockGrows' /\ wrong' \in [User -> Nat]
    BY <2>8, <2>9, <2>11 DEF RowIs, AccountsInv, AccountsTypeOK, TableInv, LockGrows
  <2>13. RowChanged(c, u, x)
    <3>1. (IsAdmin(u) => x.active /\ x.admin) \/ call[c].pc = "counted"
      BY <2>1, <2>8 DEF StaysAdmin
    <3>2. x.exists /\ x.pw >= old.pw BY <2>2, <2>4, <2>8
    <3>3. (x.pw # old.pw \/ ~x.active) =>
             \A s \in Session : sess[s].user = u => sess'[s].revoked
      BY <2>4, <2>8, <2>10
    <3> QED BY <2>2, <2>7, <2>8, <2>9, <2>10, <2>11, <3>1, <3>2, <3>3 DEF RowChanged
  <2>14. TablesOK' /\ TableInv' /\ Bystanders({c}) BY <2>2, <2>8, <2>12, <2>13, RowChangedKept
  <2> QED BY <2>11, <2>14, Committed
<1> QED BY <1>1, <1>2 DEF CommitEdit

\* A new account: it has no session, no failure, and the password it was given.
AccountAdded(u, a, b) ==
    /\ ~users[u].exists
    /\ users' = [users EXCEPT ![u] = Account(a, b, TRUE)]
    /\ given' = [given EXCEPT ![u] = 1]
    /\ installs' = 1
    /\ UNCHANGED <<sess, now, wrong>>

LEMMA RowAdded ==
  ASSUME AccountsInv, NEW u \in User, NEW a \in BOOLEAN, NEW b \in BOOLEAN, NEW C \in SUBSET Call,
         AccountAdded(u, a, b),
         (\E v \in User : IsAdmin(v)) \/ (a /\ b /\ \E c \in C : call[c].pc = "empty")
  PROVE  TablesOK' /\ TableInv' /\ Bystanders(C)
<1> DEFINE x == Account(a, b, TRUE)
<1>1. /\ users \in [User -> UserType] /\ given \in [User -> Nat] /\ wrong \in [User -> Nat]
      /\ sess \in [Session -> SessionType] /\ now \in Nat /\ TableInv
      /\ users[u] = NoUser /\ ~users[u].exists /\ installs' = 1 /\ UNCHANGED <<sess, now, wrong>>
  BY DEF AccountsInv, AccountsTypeOK, AccountAdded
<1>2. /\ x \in UserType /\ x.exists /\ x.active = a /\ x.admin = b /\ x.pw = 1
      /\ x.failed = 0 /\ x.locked = 0
  BY DEF Account, UserType
<1>3. ~NoUser.active /\ ~NoUser.exists /\ NoUser.failed = 0 BY DEF NoUser
<1>x. users' = [users EXCEPT ![u] = x] BY DEF AccountAdded
<1> HIDE DEF x
<1>4. RowIs(u, x) BY <1>2, <1>x, RowWritten
<1>5. users'[u] = x /\ \A v \in User : v # u => users'[v] = users[v] BY <1>4 DEF RowIs
<1>6. given' \in [User -> Nat] /\ given'[u] = 1 /\ \A v \in User : v # u => given'[v] = given[v]
  BY <1>1 DEF AccountAdded
<1>7. TablesOK' BY <1>1, <1>4, <1>6 DEF TablesOK, RowIs
<1>8. InstallCounts' BY <1>1, <1>2, <1>5 DEF InstallCounts
<1>9. \A s \in Session : sess[s].user # Null => sess[s].user \in User /\ sess[s].user # u
  BY <1>1 DEF SessionType, TableInv, SessionOwned
<1>10. SessionOwned' /\ SessionsFresh'
  BY <1>1, <1>5, <1>9 DEF TableInv, SessionOwned, SessionsFresh
<1>11. GivenPassed' BY <1>1, <1>2, <1>5, <1>6 DEF TableInv, GivenPassed
<1>12. LockGrows'
  <2> SUFFICES ASSUME NEW v \in User
               PROVE  /\ wrong'[v] = users'[v].failed
                      /\ users'[v].locked <= now' + LockTime
                      /\ users'[v].failed >= MaxFailed =>
                            users'[v].locked >= (users'[v].failed - MaxFailed + 1) * LockTime
    BY DEF LockGrows
  <2>1. CASE v = u
    <3>1. wrong[u] = 0 BY <1>1, <1>3 DEF TableInv, LockGrows
    <3> QED BY <1>1, <1>2, <1>5, <2>1, <3>1, AccountsAssumption
  <2>2. CASE v # u BY <1>1, <1>5, <2>2 DEF TableInv, LockGrows
  <2> QED BY <2>1, <2>2
<1>13. AdminRemains'
  <2>1. ASSUME NEW v \in User, IsAdmin(v)
        PROVE  users'[v].exists /\ users'[v].active /\ users'[v].admin
    BY <1>1, <1>5, <2>1 DEF IsAdmin
  <2>2. CASE a /\ b BY <1>2, <1>5, <2>2 DEF AdminRemains, IsAdmin
  <2> QED BY <2>1, <2>2 DEF AdminRemains, IsAdmin
<1>14. ResetHolds'
  <2> SUFFICES ASSUME NEW v \in User, users'[v].exists, given'[v] > 0, users'[v].pw > given'[v]
               PROVE  \E s \in Session : sess'[s].user = v /\ sess'[s].pw = given'[v]
    BY DEF ResetHolds
  <2>1. v # u BY <1>2, <1>5, <1>6
  <2> QED BY <1>1, <1>5, <1>6, <2>1 DEF TableInv, ResetHolds
<1>15. Bystanders(C)
  <2>1. \A v \in User : users[v].exists => users'[v].exists BY <1>2, <1>5
  <2>2. \A v \in User : users'[v] = users[v] \/ ~users[v].exists BY <1>1, <1>5
  <2>3. \A v \in User : IsAdmin(v) => users'[v].exists /\ users'[v].active /\ users'[v].admin
    BY <1>1, <1>5 DEF IsAdmin
  <2>4. (\E v \in User : users[v].exists) \/ \E c \in C : call[c].pc = "empty"
    BY DEF IsAdmin
  <2> QED BY <1>1, <2>1, <2>2, <2>3, <2>4 DEF Bystanders
<1> QED BY <1>7, <1>8, <1>10, <1>11, <1>12, <1>13, <1>14, <1>15 DEF TableInv

\* The console creates an account beside its administrator.
LEMMA CreateKept ==
  ASSUME AccountsInv, NEW s \in Session, NEW u \in User, NEW f \in Forms, Create(s, u, f)
  PROVE  AccountsInv'
<1>1. Valid(s, now) /\ IsAdmin(sess[s].user)
  BY DEF Create, ConsoleOpen
<1>2. sess[s].user \in User BY <1>1 DEF Valid, AccountsInv, AccountsTypeOK, SessionType
<1>3. \E v \in User : IsAdmin(v) BY <1>1, <1>2
<1>4. installs = 1 BY <1>3 DEF AccountsInv, AccountsTypeOK, TableInv, InstallCounts, IsAdmin
<1>5. f.active \in BOOLEAN /\ f.admin \in BOOLEAN BY AccountsAssumption
<1>6. AccountAdded(u, f.active, f.admin) /\ UNCHANGED call BY <1>4 DEF Create, AccountAdded
<1>7. TablesOK' /\ TableInv' /\ Bystanders({}) BY <1>3, <1>5, <1>6, RowAdded
<1> QED BY <1>6, <1>7, RowsWritten

\* create-admin found no administrator and none has come since, so nobody is there.
LEMMA CommitFirstKept ==
  ASSUME AccountsInv, NEW c \in Call, CommitFirst(c)
  PROVE  AccountsInv'
<1> DEFINE u == call[c].user
<1>1. CASE UNCHANGED <<users, given, installs>>
  BY <1>1, ReturnKept DEF CommitFirst, AccountRows, history
<1>2. CASE /\ ~users[u].exists /\ users' = [users EXCEPT ![u] = Account(TRUE, TRUE, TRUE)]
           /\ given' = [given EXCEPT ![u] = 1] /\ installs' = installs + 1
  <2>1. call[c].pc = "empty" BY DEF CommitFirst
  <2>2. u \in User BY <2>1 DEF AccountsInv, CallInv, CallPlaced, InUse
  <2>3. \A v \in User : ~IsAdmin(v) BY <2>1 DEF AccountsInv, CallInv, EmptyStands, IsAdmin
  <2>4. installs = 0 BY <2>3 DEF AccountsInv, TableInv, AdminRemains, InstallCounts
  <2>5. AccountAdded(u, TRUE, TRUE) /\ Leave(c) BY <1>2, <2>4 DEF CommitFirst, AccountAdded
  <2>6. \E d \in {c} : call[d].pc = "empty" BY <2>1
  <2>7. TablesOK' /\ TableInv' /\ Bystanders({c}) BY <2>2, <2>5, <2>6, RowAdded
  <2> QED BY <2>5, <2>7, Committed
<1> QED BY <1>1, <1>2 DEF CommitFirst
-----------------------------------------------------------------------------
(***************************************************************************)
(* The invariant, and the theorems.                                        *)
(***************************************************************************)

LEMMA AccountsStart == AccountsInit => AccountsInv
<1> SUFFICES ASSUME AccountsInit PROVE AccountsInv OBVIOUS
<1>0. /\ sess = [s \in Session |-> NoSession] /\ call = [c \in Call |-> Idle] /\ now = 0
      /\ given = [u \in User |-> 0] /\ wrong = [u \in User |-> 0]
      /\ installs = IF Installed = {} THEN 0 ELSE 1
  BY DEF AccountsInit
<1> DEFINE a == Account(TRUE, TRUE, FALSE)
<1>1. /\ a \in UserType /\ a.exists /\ a.active /\ a.admin /\ a.pw = 1
      /\ a.failed = 0 /\ a.locked = 0
  BY DEF Account, UserType
<1>2. NoUser \in UserType /\ ~NoUser.exists /\ NoUser.failed = 0 /\ NoUser.locked = 0
      /\ NoUser.pw = 0
  BY DEF NoUser, UserType
<1>3. users = [u \in User |-> IF u \in Installed THEN a ELSE NoUser] BY DEF AccountsInit
<1> HIDE DEF a
<1>4. NoSession \in SessionType /\ NoSession.user = Null BY DEF NoSession, SessionType
<1>5. Idle.pc = "idle" /\ Idle.at = 0 BY DEF Idle
<1>6. Installed \subseteq User BY AccountsAssumption
<1>7. AccountsTypeOK BY <1>1, <1>2, <1>3, <1>4, <1>0, IdleType DEF AccountsTypeOK
<1>8. CallInv
  BY <1>0, <1>5 DEF CallInv, CallPlaced, SeenIsCurrent, OneHolder, OneRole, OneInstall,
              CountStands, EmptyStands, InUse, Holding
<1>9. InstallCounts /\ AdminRemains
  BY <1>0, <1>1, <1>2, <1>3, <1>6 DEF InstallCounts, AdminRemains, IsAdmin
<1>10. SessionOwned /\ SessionsFresh BY <1>0, <1>4 DEF SessionOwned, SessionsFresh
<1>11. GivenPassed /\ ResetHolds BY <1>0, <1>1, <1>2, <1>3 DEF GivenPassed, ResetHolds
<1>12. LockGrows
  <2> SUFFICES ASSUME NEW u \in User
               PROVE  /\ wrong[u] = users[u].failed
                      /\ users[u].locked <= now + LockTime
                      /\ users[u].failed >= MaxFailed =>
                            users[u].locked >= (users[u].failed - MaxFailed + 1) * LockTime
    BY DEF LockGrows
  <2>1. users[u].failed = 0 /\ users[u].locked = 0 BY <1>1, <1>2, <1>3
  <2> QED BY <1>0, <2>1, AccountsAssumption
<1> QED BY <1>7, <1>8, <1>9, <1>10, <1>11, <1>12 DEF AccountsInv, TableInv

\* A new transaction.
LEMMA ArriveKept ==
  ASSUME AccountsInv, NEW c \in Call, Arrive(c)
  PROVE  AccountsInv'
<1>0. NoForm \in Form /\ 0 \in Nat /\ Forms \subseteq Form
  BY AccountsAssumption DEF NoForm, Form
<1>1. ASSUME NEW u \in User, NEW g \in 0..users[u].pw, BeginLogin(c, u, g) PROVE AccountsInv'
  <2>1. g \in Nat BY DEF AccountsInv, AccountsTypeOK, UserType
  <2> QED BY <1>0, <1>1, <2>1, BeginKept DEF BeginLogin
<1>2. ASSUME NEW u \in User, BeginRecover(c, u) \/ BeginFirst(c, u) PROVE AccountsInv'
  BY <1>0, <1>2, BeginKept DEF BeginRecover, BeginFirst
<1>3. ASSUME NEW s \in Session, NEW u \in User, NEW f \in Forms, BeginEdit(c, s, u, f) PROVE AccountsInv'
  BY <1>0, <1>3, BeginKept DEF BeginEdit
<1>4. ASSUME NEW s \in Session, ReadSession(c, s) PROVE AccountsInv' BY <1>4, ReadSessionKept
<1>5. ASSUME NEW s \in Session, NEW g \in 0..MaxPassword, BeginChange(c, s, g) PROVE AccountsInv'
  <2>1. g \in Nat BY AccountsAssumption
  <2>2. sess[s].user \in User BY <1>5 DEF BeginChange, Valid, AccountsInv, AccountsTypeOK, SessionType
  <2> QED BY <1>0, <1>5, <2>1, <2>2, BeginKept DEF BeginChange
<1> QED BY <1>1, <1>2, <1>3, <1>4, <1>5 DEF Arrive

\* Every transaction, and a step that changes nothing.
LEMMA AccountsKeep == AccountsInv /\ [AccountsNext]_accountVars => AccountsInv'
<1> SUFFICES ASSUME AccountsInv, [AccountsNext]_accountVars PROVE AccountsInv' OBVIOUS
<1>1. ASSUME NEW c \in Call, Step(c) PROVE AccountsInv'
  BY <1>1, LockUserKept, RoleKept, FirstKept, CommitLoginKept, CommitChangeKept,
     CommitRecoverKept, CommitEditKept, CommitFirstKept, SlideSessionKept DEF Step
<1>2. ASSUME NEW c \in Call, Fail(c) PROVE AccountsInv' BY <1>2, ReturnKept DEF Fail, AccountRows
<1>3. CASE UNCHANGED accountVars
  <2>1. UNCHANGED AccountRows /\ UNCHANGED call BY <1>3 DEF accountVars, AccountRows, history
  <2>2. TablesOK' /\ TableInv' BY <2>1, TablesKept DEF AccountsInv, AccountsTypeOK, TablesOK
  <2>3. Bystanders({}) BY <2>1 DEF Bystanders, AccountRows, AccountsInv, AccountsTypeOK, IsAdmin
  <2> QED BY <2>1, <2>2, <2>3, RowsWritten
<1> QED BY <1>1, <1>2, <1>3, ArriveKept, LogoutKept, CreateKept, TickKept DEF AccountsNext

\* The inductive invariant holds of every behaviour.
LEMMA AccountsInvariance == AccountsSpec => []AccountsInv
BY AccountsStart, AccountsKeep, PTL DEF AccountsSpec

\* The tables and the open transactions keep their types, whatever is called in
\* whatever order.
THEOREM AccountsTypeCorrect == AccountsSpec => []AccountsTypeOK
<1>1. AccountsInv => AccountsTypeOK BY DEF AccountsInv
<1> QED BY <1>1, AccountsInvariance, PTL

\* create-admin installs at most one administrator, however many are run at once and
\* however a failure interleaves: what it finds under the advisory lock stays true.
THEOREM InstalledAtMostOnce == AccountsSpec => []InstalledOnce
<1>1. AccountsInv => InstalledOnce BY DEF AccountsInv, TableInv, InstallCounts, InstalledOnce
<1> QED BY <1>1, AccountsInvariance, PTL

\* Consoles that demote and disable at the same time leave an enabled administrator:
\* the count under the role lock stays true until its transaction commits.
THEOREM AnAdminRemains == AccountsSpec => []AdminRemains
<1>1. AccountsInv => AdminRemains BY DEF AccountsInv, TableInv
<1> QED BY <1>1, AccountsInvariance, PTL

\* A session that is not revoked belongs to an enabled account and was opened with its
\* current password, in every interleaving of logins with changes, resets and disabling.
THEOREM SessionsStayFresh == AccountsSpec => []SessionsFresh
<1>1. AccountsInv => SessionsFresh BY DEF AccountsInv, TableInv
<1> QED BY <1>1, AccountsInvariance, PTL

\* A password that was set for a user is replaced by the user only after a login
\* with it.
THEOREM ResetsHold == AccountsSpec => []ResetHolds
<1>1. AccountsInv => ResetHolds BY DEF AccountsInv, TableInv
<1> QED BY <1>1, AccountsInvariance, PTL

\* As many guesses as the locks of the time that has passed allow.
LEMMA DivBound ==
  ASSUME NEW k \in Int, NEW n \in Nat, NEW t \in Nat \ {0}, k * t <= n
  PROVE  k <= n \div t
<1> DEFINE q == n \div t
<1>1. q \in Int /\ n < (q + 1) * t BY SMT
<1> HIDE DEF q
<1>2. k < q + 1
  <2> SUFFICES ASSUME k >= q + 1 PROVE FALSE BY <1>1
  <2>1. k * t >= (q + 1) * t BY <1>1, SMT
  <2> QED BY <1>1, <2>1
<1> QED BY <1>1, <1>2 DEF q

\* Concurrent logins together try at most MaxFailed wrong passwords, and then one for
\* every lock that has run out: each takes the row lock, and finds the counter of the
\* one before.
THEOREM GuessesStayBounded == AccountsSpec => []GuessesBounded
<1>1. AccountsInv => GuessesBounded
  <2> SUFFICES ASSUME AccountsInv, NEW u \in User PROVE wrong[u] <= MaxFailed + (now \div LockTime)
    BY DEF GuessesBounded
  <2> DEFINE k == users[u].failed - MaxFailed
  <2>1. /\ users[u].failed \in Nat /\ users[u].locked \in Nat /\ now \in Nat
        /\ LockTime \in Nat \ {0} /\ MaxFailed \in Nat
    BY AccountsAssumption DEF AccountsInv, AccountsTypeOK, UserType
  <2>2. /\ wrong[u] = users[u].failed /\ users[u].locked <= now + LockTime
        /\ users[u].failed >= MaxFailed => users[u].locked >= (k + 1) * LockTime
    BY DEF AccountsInv, TableInv, LockGrows
  <2>3. k \in Int /\ users[u].failed = MaxFailed + k BY <2>1
  <2> HIDE DEF k
  <2>4. now \div LockTime \in Nat
    <3>1. now \div LockTime \in Int BY <2>1, SMT
    <3>2. 0 * LockTime <= now BY <2>1, SMT
    <3>3. 0 <= now \div LockTime BY <2>1, <3>2, DivBound
    <3> QED BY <3>1, <3>3
  <2>5. CASE users[u].failed >= MaxFailed
    <3>1. (k + 1) * LockTime = k * LockTime + LockTime BY <2>1, <2>3, OneMore
    <3>2. k * LockTime \in Int BY <2>1, <2>3
    <3>3. k * LockTime <= now BY <2>1, <2>2, <2>5, <3>1, <3>2
    <3>4. k <= now \div LockTime BY <2>1, <2>3, <3>3, DivBound
    <3> QED BY <2>1, <2>2, <2>3, <2>4, <3>4
  <2>6. CASE users[u].failed < MaxFailed BY <2>1, <2>2, <2>4, <2>6
  <2> QED BY <2>1, <2>5, <2>6
<1> QED BY <1>1, AccountsInvariance, PTL
=============================================================================
