-------------------------- MODULE ExecutionContract --------------------------
(***************************************************************************)
(* What a background execution promises its owner, told only through the   *)
(* persisted row (chatbi_control/execution.py) and the history's context   *)
(* revision: an execution is accepted when no other execution of the same  *)
(* history is live, it may start, it may be asked to stop for ONE reason,  *)
(* and it is concluded at most once, a stop request deciding the outcome   *)
(* whenever one came first.  Only a success moves the context.             *)
(* ExecutionLifecycle implements this module.                              *)
(***************************************************************************)
EXTENDS Naturals

CONSTANTS Execution, History, None

Reason == {"user", "deadline", "auth"}
Open == {"accepted", "running"}
Live == Open \cup {"stopping"}

\* The terminal status a persisted stop reason leads to.
Verdict == [user |-> "cancelled", deadline |-> "timed_out", auth |-> "failed"]

VARIABLES
    status,   \* status of each execution row, "none" before and "gone" after it
    reason,   \* the persisted stop reason, None while nobody asked to stop
    hist,     \* the history an execution belongs to
    context   \* context_revision of each history

contractVars == <<status, reason, hist, context>>

LiveOn(h) == {e \in Execution : status[e] \in Live /\ hist[e] = h}

Init ==
    /\ status = [e \in Execution |-> "none"]
    /\ reason = [e \in Execution |-> None]
    /\ hist = [e \in Execution |-> None]
    /\ context = [h \in History |-> 0]

Accept(e, h) ==
    /\ status[e] = "none"
    /\ LiveOn(h) = {}
    /\ status' = [status EXCEPT ![e] = "accepted"]
    /\ hist' = [hist EXCEPT ![e] = h]
    /\ UNCHANGED <<reason, context>>

Start(e) ==
    /\ status[e] = "accepted"
    /\ status' = [status EXCEPT ![e] = "running"]
    /\ UNCHANGED <<reason, hist, context>>

Stop(e, r) ==
    /\ status[e] \in Open
    /\ status' = [status EXCEPT ![e] = "stopping"]
    /\ reason' = [reason EXCEPT ![e] = r]
    /\ UNCHANGED <<hist, context>>

Succeed(e) ==
    /\ status[e] \in Open
    /\ status' = [status EXCEPT ![e] = "succeeded"]
    /\ context' = [context EXCEPT ![hist[e]] = @ + 1]
    /\ UNCHANGED <<reason, hist>>

Fail(e) ==
    /\ status[e] \in Open
    /\ status' = [status EXCEPT ![e] = "failed"]
    /\ UNCHANGED <<reason, hist, context>>

ConcludeStop(e) ==
    /\ status[e] = "stopping"
    /\ status' = [status EXCEPT ![e] = Verdict[reason[e]]]
    /\ UNCHANGED <<reason, hist, context>>

\* Nobody can prove how these live executions ended.
Unconfirm(lost) ==
    /\ lost # {}
    /\ \A e \in lost : status[e] \in Live
    /\ status' = [e \in Execution |-> IF e \in lost THEN "unconfirmed" ELSE status[e]]
    /\ UNCHANGED <<reason, hist, context>>

\* The owner deletes a history on which nothing is live.
Forget(h) ==
    /\ LiveOn(h) = {}
    /\ status' = [e \in Execution |-> IF hist[e] = h THEN "gone" ELSE status[e]]
    /\ UNCHANGED <<reason, hist, context>>

Next ==
    \/ \E e \in Execution, h \in History : Accept(e, h)
    \/ \E e \in Execution, r \in Reason : Stop(e, r)
    \/ \E e \in Execution : Start(e) \/ Succeed(e) \/ Fail(e) \/ ConcludeStop(e)
    \/ \E lost \in SUBSET Execution : Unconfirm(lost)
    \/ \E h \in History : Forget(h)

Spec == Init /\ [][Next]_contractVars
=============================================================================
