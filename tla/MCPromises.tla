----------------------------- MODULE MCPromises -----------------------------
(***************************************************************************)
(* Small instances of the services that must always come to an end under   *)
(* fair scheduling: an analysis run, the export runtime, the stream of     *)
(* events of an execution and the account transactions.  They have no      *)
(* state in common.  `part' says which of them a behaviour is about; each  *)
(* of them keeps its state in the variables x1, x2, ... and leaves the     *)
(* rest at None.                                                           *)
(***************************************************************************)
EXTENDS Naturals, TLC

CONSTANTS None, a1, a2, w1, o1, o2, r1, r2, p1, n1, u1, u2, s1, c1, c2

VARIABLES part, x1, x2, x3, x4, x5, x6, x7, x8, x9, x10, x11, x12, x13

all == <<part, x1, x2, x3, x4, x5, x6, x7, x8, x9, x10, x11, x12, x13>>
from5 == <<x5, x6, x7, x8, x9, x10, x11, x12, x13>>
from7 == <<x7, x8, x9, x10, x11, x12, x13>>
from8 == <<x8, x9, x10, x11, x12, x13>>

(* Two attempts at a run of one task; one attempt at it, with two failures. *)
A == INSTANCE AnalysisRun WITH
       Attempt <- {a1, a2}, Who <- {w1}, Tasks <- 1, MaxFaults <- 0,
       row <- x1, disk <- x2, att <- x3, faults <- x4
B == INSTANCE AnalysisRun WITH
       Attempt <- {a1}, Who <- {w1}, Tasks <- 1, MaxFaults <- 2,
       row <- x1, disk <- x2, att <- x3, faults <- x4

(* Two accounts ask for two files, one at a time; renderers hang or fail. *)
X == INSTANCE ExportRuntime WITH
       Owner <- {o1, o2}, Request <- {r1, r2}, Sender <- r1 :> {o1} @@ r2 :> {o1, o2},
       MaxTotal <- 1, MaxLives <- 1, Faults <- {"worker", "removal"},
       phase <- x1, lives <- x2, rt <- x3, disk <- x4, workers <- x5, job <- x6

(* One page that reconnects after an outage or a restart. *)
E == INSTANCE ExecutionEvents WITH
       Page <- {p1}, Conn <- {n1}, TextField <- {}, ListField <- {}, MaxItems <- 1,
       MaxStage <- 0, Total <- 0, MaxEvents <- 1, MaxBytes <- 4, Overhead <- 1, MaxDelta <- 2,
       MaxDraft <- 4, MaxSubscribers <- 2, MaxText <- 1, MaxSequence <- 2, MaxReset <- 1,
       Outages <- 1, Happens <- {"outage", "restart"}, Outcome <- {"succeeded"},
       row <- x1, ran <- x2, chan <- x3, seq <- x4, state <- x5, ring <- x6, subs <- x7,
       past <- x8, conn <- x9, wire <- x10, page <- x11, revoked <- x12, cut <- x13

(* An administrator demotes and disables another one, and himself. *)
U == INSTANCE Accounts WITH
       Null <- None, User <- {u1, u2}, Installed <- {u1, u2}, Session <- {s1}, Call <- {c1, c2},
       MaxFailed <- 1, LockTime <- 2, IdleTime <- 2, AbsoluteTime <- 3, MaxTime <- 0,
       MaxPassword <- 1, Operations <- {"login", "edit", "recover"},
       Forms <- {f \in [active : BOOLEAN, admin : BOOLEAN, must : {FALSE}, reset : {FALSE}] : f.active # f.admin},
       users <- x1, sess <- x2, call <- x3, now <- x4, given <- x5, wrong <- x6, installs <- x7

ASSUME A!RunAssumption /\ B!RunAssumption /\ X!ExportAssumption /\ E!EventsAssumption

Rest8 == x8 = None /\ x9 = None /\ x10 = None /\ x11 = None /\ x12 = None /\ x13 = None
Rest7 == x7 = None /\ Rest8
Rest5 == x5 = None /\ x6 = None /\ Rest7

Init ==
  \/ part = "analysis" /\ A!Init /\ Rest5
  \/ part = "failing" /\ B!Init /\ Rest5
  \/ part = "export" /\ X!Init /\ Rest7
  \/ part = "events" /\ E!Init
  \/ part = "accounts" /\ U!AccountsInit /\ Rest8

Analysis(step) == part = "analysis" /\ step /\ UNCHANGED <<part, from5>>
Failing(step) == part = "failing" /\ step /\ UNCHANGED <<part, from5>>
Export(step) == part = "export" /\ step /\ UNCHANGED <<part, from7>>
Events(step) == part = "events" /\ step /\ UNCHANGED part
Account(step) == part = "accounts" /\ step /\ UNCHANGED <<part, from8>>

Next == Analysis(A!Next) \/ Failing(B!Next) \/ Export(X!Next) \/ Events(E!Next) \/ Account(U!AccountsNext)

(* The fairness each module states, for the part that runs. *)
Fairness ==
  /\ \A a \in {a1, a2} : WF_all(Analysis(A!Attempts(a)))
  /\ WF_all(Analysis(A!Due)) /\ WF_all(Analysis(A!Cleanup))
  /\ WF_all(Failing(B!Attempts(a1))) /\ WF_all(Failing(B!Due)) /\ WF_all(Failing(B!Cleanup))
  /\ \A r \in {r1, r2} : WF_all(Export(X!Steps(r))) /\ WF_all(Export(X!Deadline(r)))
  /\ WF_all(Export(X!ShutdownStop)) /\ WF_all(Export(X!ShutdownEnd))
  /\ WF_all(Events(E!Conclude)) /\ WF_all(Events(E!Reconcile))
  /\ WF_all(Events(E!Stream(n1))) /\ WF_all(Events(E!Observe(p1)))
  /\ \A c \in {c1, c2} : SF_all(Account(U!Step(c)))
  /\ WF_all(Account(\E c \in {c1, c2} : U!Abort(c)))

Spec == Init /\ [][Next]_all /\ Fairness

-----------------------------------------------------------------------------
(* The checkpoint of an overdue run is reclaimed for good: AnalysisRun. *)
Analysed == part \in {"analysis", "failing"}
CheckpointsReclaimed == (Analysed /\ x1.due) ~> [](Analysed /\ x2 = A!Empty)

(* Every slot comes back, a hung renderer's too: ExportRuntime. *)
SlotsComeBack ==
  \A o \in {o1, o2} : (part = "export" /\ o \in x3.slots)
     ~> (part = "export" /\ (o \notin x3.slots \/ X!Pinned(o)))

(* The outcome of an execution reaches a page that listens, after an outage or a restart
   too, and the subscription of a client that is gone is given back: ExecutionEvents. *)
StreamsEnd ==
  /\ (part = "events" /\ x1.status \in E!Terminal)
       ~> ((part = "events" /\ E!Ended(p1)) \/ [](part = "events" /\ E!Deaf(p1)))
  /\ (part = "events" /\ x9[n1].gone) ~> (part = "events" /\ ~x9[n1].gone)

(* Every account transaction returns, those that wait for each other too: Accounts. *)
CallsReturn ==
  \A c \in {c1, c2} : (part = "accounts" /\ x3[c].pc # "idle") ~> (part = "accounts" /\ x3[c].pc = "idle")
=============================================================================
