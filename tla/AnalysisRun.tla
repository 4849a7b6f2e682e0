---------------------------- MODULE AnalysisRun ----------------------------
(***************************************************************************)
(* One analysis run: the row of business_analysis_runs, the checkpoint of  *)
(* its graph, and the attempts that work on it one after the other.  An    *)
(* attempt is one call of BusinessAnalysisApplication.analyze; its graph   *)
(* saves its state after every node, so that a later attempt goes on where *)
(* an earlier one failed.  Stops, failures of any call, the death of the   *)
(* process, cancellation, deletion and the 24 hour limit happen at any     *)
(* moment.                                                                 *)
(***************************************************************************)
EXTENDS Naturals, FiniteSets

CONSTANTS
    None,       \* no value
    Attempt,    \* bound: the attempts that may be made
    Who,        \* the askers: owner and question, hashed together in the row
    Tasks,      \* bound: the plan has the tasks 1 .. Tasks (four in the code)
    MaxFaults   \* bound: calls that fail

VARIABLES
    row,        \* the row: status, who, whether expires_at has passed
    disk,       \* the checkpoint of the thread
    att,        \* the attempts
    faults      \* calls that failed so far
vars == <<row, disk, att, faults>>

Task == 1..Tasks
\* A task result: nothing yet, complete, cut at the row limit, failed for want of a
\* service, failed for good.
Result == {"none", "done", "truncated", "outage", "refused"}
Permanent == {"clarify", "cannot"}
Outage == {"llm", "context"}
Failure == Permanent \cup Outage

\* What the constants must satisfy.
RunAssumption == /\ Tasks \in Nat \ {0} /\ MaxFaults \in Nat
                 /\ None \notin Attempt \cup Who \cup Failure

Graph == [candidate : {"none", "good"} \cup Permanent, plan : BOOLEAN,
          results : [Task -> Result], attributed : BOOLEAN,
          report : Attempt \cup {None}, failure : Failure \cup {None}]
Empty == [candidate |-> "none", plan |-> FALSE, results |-> [t \in Task |-> "none"],
          attributed |-> FALSE, report |-> None, failure |-> None]

\* What the caller gets: a report, a verdict that stands, a failure that invites a retry,
\* a refusal of the run id, or nothing (stopped, or an exception out of analyze).
Answer == [kind : {"none", "report", "final", "retry", "conflict", "stopped", "unconfirmed"},
           what : Attempt \cup Failure \cup {None}]
Nothing == [kind |-> "none", what |-> None]
Step == {"idle", "cleanup", "claim", "load", "extract", "validate", "execute",
         "attribute", "summarize", "conclude", "replay", "answered", "left"}
Call == [pc : Step, who : Who \cup {None}, mem : Graph, stop : BOOLEAN,
         clean : BOOLEAN, resumed : BOOLEAN, answer : Answer]

TypeOK ==
    /\ row \in [status : {"none", "active", "completed", "expired"},
                who : Who \cup {None}, due : BOOLEAN]
    /\ disk \in Graph
    /\ att \in [Attempt -> Call]
    /\ faults \in 0..MaxFaults

Init ==
    /\ row = [status |-> "none", who |-> None, due |-> FALSE]
    /\ disk = Empty
    /\ att = [a \in Attempt |-> [pc |-> "idle", who |-> None, mem |-> Empty, stop |-> FALSE,
                                 clean |-> TRUE, resumed |-> FALSE, answer |-> Nothing]]
    /\ faults = 0

At(a, pc) == att[a].pc = pc
Running(a) == att[a].pc \notin {"idle", "left"}
Goto(a, pc) == att' = [att EXCEPT ![a].pc = pc]
Return(a, kind, what) ==
    att' = [att EXCEPT ![a].pc = "answered", ![a].answer = [kind |-> kind, what |-> what]]
\* A call of this attempt fails.
Faulty(a, kind, what) ==
    /\ faults < MaxFaults /\ faults' = faults + 1
    /\ att' = [att EXCEPT ![a].pc = "answered", ![a].clean = FALSE,
                          ![a].answer = [kind |-> kind, what |-> what]]
\* The checkpoint of the execution control raises once the stop is signalled; the node
\* it interrupts saves nothing.
Stopped(a) == att[a].stop /\ Return(a, "stopped", None) /\ UNCHANGED <<row, disk, faults>>
Free(a) == ~att[a].stop

\* Who is answered: the request thread or the worker takes the run of its owner alone.
Reserve(a, w) ==
    /\ At(a, "idle")
    /\ \A b \in Attempt : Running(b) => att[b].who # w
    /\ att' = [att EXCEPT ![a].pc = "cleanup", ![a].who = w]
    /\ UNCHANGED <<row, disk, faults>>

Expires == row.status # "none" /\ row.due /\ (row.status # "expired" \/ disk # Empty)
\* Mutant: a cleanup that leaves the rows alone that were expired by a cancellation.
CleanupUnexpired ==
    IF Expires /\ row.status # "expired"
    THEN row' = [row EXCEPT !.status = "expired"] /\ disk' = Empty
    ELSE UNCHANGED <<row, disk>>

CleanupExpired ==
    IF Expires THEN row' = [row EXCEPT !.status = "expired"] /\ disk' = Empty
               ELSE UNCHANGED <<row, disk>>

CleanupFirst(a) ==
    /\ At(a, "cleanup")
    /\ \/ Stopped(a)
       \/ Free(a) /\ CleanupExpired /\ Goto(a, "claim") /\ UNCHANGED faults
       \/ Free(a) /\ Faulty(a, "retry", "context") /\ UNCHANGED <<row, disk>>

\* The row after the insert that does nothing when there is one.
Claimed(w) == IF row.status = "none" THEN [row EXCEPT !.status = "active", !.who = w] ELSE row
Conflicts(w) == row.status # "none" /\ (row.who # w \/ row.status = "expired" \/ row.due)
\* Mutant: a claim that runs a completed run again.
AfterClaimAgain == "load"

AfterClaim == IF row.status = "completed" THEN "replay" ELSE "load"
Claim(a) ==
    /\ At(a, "claim")
    /\ \/ /\ row' = Claimed(att[a].who)
          /\ \/ ~Conflicts(att[a].who) /\ Free(a) /\ Goto(a, AfterClaim)
             \/ ~Conflicts(att[a].who) /\ ~Free(a) /\ Return(a, "stopped", None)
             \/ Conflicts(att[a].who) /\ Return(a, "conflict", None)
          /\ UNCHANGED <<disk, faults>>
       \/ Faulty(a, "retry", "context") /\ UNCHANGED <<row, disk>>

\* The graph starts from its first node with the values of the last checkpoint.
Load(a) ==
    /\ At(a, "load")
    /\ \/ /\ att' = [att EXCEPT ![a].pc = "extract", ![a].mem = disk,
                                ![a].resumed = disk.plan]
          /\ UNCHANGED <<row, disk, faults>>
       \/ Faulty(a, "retry", "context") /\ UNCHANGED <<row, disk>>

\* A node ends: its state is checkpointed and the graph goes on.
Save(a, g, pc) ==
    /\ disk' = g /\ att' = [att EXCEPT ![a].mem = g, ![a].pc = pc] /\ UNCHANGED <<row, faults>>
SaveFault(a, g) ==
    /\ faults < MaxFaults /\ faults' = faults + 1
    /\ disk' = g
    /\ att' = [att EXCEPT ![a].mem = g, ![a].clean = FALSE, ![a].pc = "conclude"]
    /\ UNCHANGED row
Mem(a) == att[a].mem
Fails(a, f) == [Mem(a) EXCEPT !.failure = f]
RouteAfterNode(g, next) == IF g.failure # None THEN "conclude" ELSE next

\* The extractor asks its model, once more if the call fails, and reads the answer.
ExtractAfresh(a) ==
    \/ Stopped(a)
    \/ /\ Free(a)
       /\ \E c \in {"good"} \cup Permanent : Save(a, [Mem(a) EXCEPT !.candidate = c], "validate")
    \/ Free(a) /\ \E f \in Outage : SaveFault(a, Fails(a, f))

\* A run whose plan was saved goes on from it, the failure of the attempt before forgotten.
Extract(a) ==
    /\ At(a, "extract")
    /\ \/ Mem(a).plan /\ Save(a, Fails(a, None), "validate")
       \/ ~Mem(a).plan /\ ExtractAfresh(a)

Validated(g) ==
    IF g.candidate = "good" THEN [g EXCEPT !.plan = TRUE] ELSE [g EXCEPT !.failure = g.candidate]
ValidateAfresh(a) ==
    \/ Stopped(a)
    \/ /\ Free(a)
       /\ Save(a, Validated(Mem(a)), RouteAfterNode(Validated(Mem(a)), "execute"))
    \/ Free(a) /\ SaveFault(a, Fails(a, "context"))
Validate(a) ==
    /\ At(a, "validate")
    /\ \/ Mem(a).failure # None /\ Save(a, Mem(a), "conclude")
       \/ Mem(a).failure = None /\ Mem(a).plan /\ Save(a, Mem(a), "execute")
       \/ Mem(a).failure = None /\ ~Mem(a).plan /\ ValidateAfresh(a)

\* The tasks that still have to be run; the first of them is next.
Open(g) == {t \in Task : g.results[t] # "done"}
NextTask(g) == CHOOSE t \in Open(g) : \A u \in Open(g) : t <= u
RouteAfterTask(g) ==
    IF g.failure # None THEN "conclude"
    ELSE IF \A t \in Task : g.results[t] # "none" THEN "attribute" ELSE "execute"
Ran(g, r) ==
    [g EXCEPT !.results[NextTask(g)] = r, !.failure = IF r = "done" THEN None ELSE "cannot"]
\* A task that fails for want of a service is run once more at once: "outage" is its
\* second failure.
ExecuteTask(a) ==
    /\ At(a, "execute")
    /\ \/ Stopped(a)
       \/ /\ Free(a) /\ Open(Mem(a)) = {}
          /\ Save(a, Mem(a), RouteAfterTask(Mem(a)))
       \/ /\ Free(a) /\ Open(Mem(a)) # {}
          /\ \E r \in {"done", "truncated", "refused"} :
                Save(a, Ran(Mem(a), r), RouteAfterTask(Ran(Mem(a), r)))
       \/ Free(a) /\ Open(Mem(a)) # {} /\ SaveFault(a, Ran(Mem(a), "outage"))
       \/ SaveFault(a, Fails(a, "context"))

Attribute(a) ==
    /\ At(a, "attribute")
    /\ \/ Stopped(a)
       \/ /\ Free(a) /\ Open(Mem(a)) = {}
          /\ Save(a, [Mem(a) EXCEPT !.attributed = TRUE], "summarize")
       \/ Free(a) /\ Save(a, Fails(a, "cannot"), "conclude")

\* The report carries the attempt that wrote it: the model writes another one each time.
Summarize(a) ==
    /\ At(a, "summarize")
    /\ \/ Stopped(a)
       \/ Free(a) /\ Save(a, [Mem(a) EXCEPT !.report = a], "conclude")
       \/ Free(a) /\ \E f \in Outage : SaveFault(a, Fails(a, f))

\* The store fails in the middle of the graph, or a node raises.
GraphFails(a) ==
    /\ att[a].pc \in {"extract", "validate", "execute", "attribute", "summarize"}
    /\ Faulty(a, "retry", "context") /\ UNCHANGED <<row, disk>>

RetryableFailure(g) == g.failure \in Outage \/ \E t \in Task : g.results[t] = "outage"
\* Mutant: a completion that does not look at the status.
MarkAnyCompleted == row' = [row EXCEPT !.status = "completed"]

MarkCompleted == row.status = "active" /\ row' = [row EXCEPT !.status = "completed"]
CannotMark == ~(row.status = "active") /\ UNCHANGED row

Conclude(a) ==
    /\ At(a, "conclude") /\ UNCHANGED disk
    /\ LET g == Mem(a)
           final == g.failure # None /\ ~RetryableFailure(g)
           whole == g.failure = None /\ g.plan /\ g.attributed /\ g.report # None
       IN \/ Stopped(a)
          \/ /\ Free(a) /\ g.failure # None /\ RetryableFailure(g)
             /\ Return(a, "retry", g.failure) /\ UNCHANGED <<row, faults>>
          \/ /\ Free(a) /\ final
             /\ \/ MarkCompleted /\ Return(a, "final", g.failure)
                \/ CannotMark /\ Return(a, "unconfirmed", None)
             /\ UNCHANGED faults
          \/ /\ Free(a) /\ whole
             /\ \/ MarkCompleted /\ Return(a, "report", g.report)
                \/ CannotMark /\ Return(a, "retry", "context")
             /\ UNCHANGED faults
          \/ /\ Free(a) /\ (final \/ whole)
             /\ (MarkCompleted \/ UNCHANGED row)
             /\ IF final THEN Faulty(a, "unconfirmed", None) ELSE Faulty(a, "retry", "context")

\* A completed run answers from its checkpoint.
CompletedResult(a) ==
    /\ At(a, "replay") /\ UNCHANGED <<row, disk>>
    /\ \/ /\ disk.failure # None /\ Return(a, "final", disk.failure) /\ UNCHANGED faults
       \/ /\ disk.failure = None /\ disk.report # None /\ disk.attributed
          /\ Return(a, "report", disk.report) /\ UNCHANGED faults
       \/ /\ disk.failure = None /\ (disk.report = None \/ ~disk.attributed)
          /\ Return(a, "retry", "context") /\ UNCHANGED faults
       \/ Faulty(a, "retry", "context")

Leave(a) == At(a, "answered") /\ Goto(a, "left") /\ UNCHANGED <<row, disk, faults>>

Attempts(a) ==
    \/ CleanupFirst(a) \/ Claim(a) \/ Load(a) \/ Extract(a) \/ Validate(a) \/ ExecuteTask(a)
    \/ Attribute(a) \/ Summarize(a) \/ Conclude(a) \/ CompletedResult(a) \/ Leave(a)

----------------------------------------------------------------------------
\* A time limit, a lost permission, a shutdown or the signal after a cancellation.
Signal(a) ==
    /\ Running(a) /\ ~At(a, "answered") /\ ~att[a].stop
    /\ att' = [att EXCEPT ![a].stop = TRUE] /\ UNCHANGED <<row, disk, faults>>

\* The user cancels the execution: the run is expired in the transaction that persists
\* the stop, and has a row afterwards if it had none.
ExpireCancelled ==
    /\ \E a \in Attempt :
          /\ Running(a) /\ (row.status = "none" \/ row.who = att[a].who)
          /\ row.status # "expired"
          /\ row' = [row EXCEPT !.status = "expired", !.who = att[a].who]
    /\ UNCHANGED <<disk, att, faults>>

DeleteHistory ==
    /\ \E w \in Who :
          /\ row.status = "none" \/ row.who = w
          /\ \A a \in Attempt : Running(a) => att[a].who # w
          /\ row' = [status |-> "expired", who |-> w, due |-> TRUE]
    /\ UNCHANGED <<disk, att, faults>>

\* 24 hours after the claim.
Due ==
    /\ row.status # "none" /\ ~row.due /\ row' = [row EXCEPT !.due = TRUE]
    /\ UNCHANGED <<disk, att, faults>>

\* The thread that cleans up once a minute.
Cleanup == Expires /\ CleanupExpired /\ UNCHANGED <<att, faults>>

\* The API process dies with every attempt in it.
Crash ==
    /\ faults < MaxFaults /\ faults' = faults + 1
    /\ \E a \in Attempt : Running(a)
    /\ att' = [a \in Attempt |-> IF Running(a) THEN [att[a] EXCEPT !.pc = "left"] ELSE att[a]]
    /\ UNCHANGED <<row, disk>>

Next ==
    \/ \E a \in Attempt, w \in Who : Reserve(a, w)
    \/ \E a \in Attempt : Attempts(a) \/ GraphFails(a) \/ Signal(a)
    \/ ExpireCancelled \/ DeleteHistory \/ Due \/ Cleanup \/ Crash

Spec == Init /\ [][Next]_vars
\* A thread that works goes on and its calls return; the clock runs; the cleanup thread runs.
Fairness ==
    /\ \A a \in Attempt : WF_vars(Attempts(a))
    /\ WF_vars(Due) /\ WF_vars(Cleanup)
FairSpec == Spec /\ Fairness

----------------------------------------------------------------------------
Lasting(a) == att[a].answer.kind \in {"report", "final"}
Replayed == IF disk.failure # None THEN [kind |-> "final", what |-> disk.failure]
                                   ELSE [kind |-> "report", what |-> disk.report]
(***************************************************************************)
(* A run has one outcome: two attempts of the same asker that got a report *)
(* or a verdict got the same one, and it is the one the checkpoint of the  *)
(* completed run replays, whatever was retried, resumed, cancelled or cut  *)
(* short between them (application.py:302, run_store.py:94).               *)
(***************************************************************************)
OneOutcome ==
    \A a \in Attempt : Lasting(a) =>
        /\ \A b \in Attempt : Lasting(b) => att[a].answer = att[b].answer
        /\ row.status = "completed" => Replayed = att[a].answer

(***************************************************************************)
(* What was expired stays expired: a cancelled, deleted or overdue run is  *)
(* never completed, and no report or verdict is concluded from it, by the  *)
(* worker that was about to mark it either (run_store.py:105).             *)
(***************************************************************************)
KeepsExpired ==
    row.status = "expired"
      => /\ row'.status = "expired"
         /\ \A a \in Attempt : At(a, "conclude") /\ att'[a].pc # "conclude"
              => att'[a].answer.kind \notin {"report", "final"}
ExpiredForGood == [][KeepsExpired]_vars

(***************************************************************************)
(* An attempt on a run whose plan was saved, in which nothing fails and    *)
(* which nobody stops, ends in a report or a verdict as long as the run is *)
(* not expired: the failure and the unfinished tasks of the attempts       *)
(* before are made good (application.py:403, 554).                         *)
(***************************************************************************)
CleanResumeConcludes ==
    \A a \in Attempt :
        /\ att[a].pc = "answered" /\ att[a].clean /\ att[a].resumed
        /\ row.status # "expired"
        => att[a].answer.kind \in {"report", "final", "stopped"}

(***************************************************************************)
(* docs/specs/business-analysis.md:64: after an outage the checkpoint is   *)
(* kept and the run can be resumed.  Whatever failed before, an attempt in *)
(* which no call fails does not come back with a failure of the service.   *)
(***************************************************************************)
OutageIsOver ==
    \A a \in Attempt :
        att[a].pc = "answered" /\ att[a].clean /\ att[a].answer.kind = "retry"
        => att[a].answer.what \notin Outage \/ row.status = "expired"

(***************************************************************************)
(* The checkpoint of a run that is overdue is reclaimed for good, also     *)
(* when the run was expired by a cancellation or when an attempt went on   *)
(* writing after the cleanup (run_store.py:115).                           *)
(***************************************************************************)
CheckpointsReclaimed == row.due ~> [](disk = Empty)
=============================================================================
