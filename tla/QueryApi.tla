------------------------------ MODULE QueryApi ------------------------------
(***************************************************************************)
(* The synchronous entries of query_api/app.py: POST /api/v1/query for a   *)
(* question (alone, or a turn of a short conversation) and for an          *)
(* analysis.  Every request is authorized and audited, admitted on recent  *)
(* evidence that the dependencies answer (operations.py, fed by the        *)
(* monitor of bootstrap/operations.py), takes a place in the shared        *)
(* capacity (admission.py) and works until it ends or meets its deadline.  *)
(* Conversations live in the process (conversation.py).                    *)
(***************************************************************************)
EXTENDS Naturals, Sequences, FiniteSets

CONSTANTS
  None,
  Turns,        \* requests, numbered as they arrive
  Owner,        \* authenticated subjects
  Conv,         \* conversation ids
  Kinds,        \* what is asked: "query", "analysis"
  TTL,          \* CONVERSATION_IDLE_TTL, 30 minutes in the code
  Limit,        \* the protection time of a request, 180 or 1200 s
  Stale,        \* evidence older than this is unknown, 30 s
  ProbeTime,    \* the timeout of the probe process, 10 s
  MaxPerUser, MaxTotal,
  MaxProbes,    \* bound on the probes made
  Happens,      \* "outage": the dependencies go; "close": the runtime closes
  MaxTime

Turn == 1..Turns

\* A conversation as the store keeps it, and what a turn takes of it.
Entry == [owner : Owner, at : Nat, state : Seq(Turn), token : Turn \cup {None}]
Base == [at : Nat, state : Seq(Turn)]

\* What the constants must satisfy; None is none of the values it stands for the absence of.
QueryApiAssumption ==
  /\ None \notin Turn \cup Owner \cup Conv \cup Entry \cup Base
  /\ Kinds \subseteq {"query", "analysis"}
  /\ TTL \in Nat \ {0} /\ Stale \in Nat \ {0} /\ ProbeTime \in Nat
  /\ Limit \in Nat /\ MaxTime \in Nat /\ MaxProbes \in Nat /\ Turns \in Nat
  /\ Happens \subseteq {"outage", "close"}
  /\ MaxPerUser \in Nat \ {0} /\ MaxTotal \in Nat \ {0}

VARIABLES
  now,        \* the clock
  accepting,  \* of the execution runtime
  up,         \* whether the dependencies answer, and the last instant at which they did
  monitor,    \* the readiness thread
  checks,     \* OperationsState: the last verdict and when it was recorded
  active,     \* [Owner -> Nat]: places taken
  running,    \* subjects whose analysis run is in the guard
  entries,    \* conversations of the store
  told,       \* history: the turns answered with success, by conversation
  turn

vars == <<now, accepting, up, monitor, checks, active, running, entries, told, turn>>
world == <<now, up, monitor, checks>>

Waiting == [pc |-> "idle", kind |-> None, owner |-> None, conv |-> None,
            base |-> None, deadline |-> 0, answer |-> None]

Init ==
  /\ now = 0 /\ accepting = TRUE
  /\ up = [is |-> TRUE, last |-> 0]
  /\ monitor = [found |-> None, since |-> 0, probes |-> 0]
  /\ checks = [verdict |-> "unknown", at |-> None]
  /\ active = [o \in Owner |-> 0] /\ running = {}
  /\ entries = [c \in Conv |-> None] /\ told = [c \in Conv |-> <<>>]
  /\ turn = [t \in Turn |-> Waiting]

Go(t, pc) == turn' = [turn EXCEPT ![t].pc = pc]
Reply(t, pc, answer) == turn' = [turn EXCEPT ![t].pc = pc, ![t].answer = answer]
Over(t) == turn' = [turn EXCEPT ![t] = [Waiting EXCEPT !.pc = "over"]]

(***************************************************************************)
(* Readiness.  The probe is a child process killed after ProbeTime; its    *)
(* verdict is stamped when it is recorded, not when it was taken.          *)
(***************************************************************************)
(* The probe looks when it starts: a later look only brings fresher evidence. *)
ProbeLooks ==
  /\ monitor.found = None /\ monitor.probes < MaxProbes
  /\ monitor' = [found |-> IF up.is THEN "ready" ELSE "not_ready",
                 since |-> now, probes |-> monitor.probes + 1]
  /\ UNCHANGED <<now, accepting, up, checks, active, running, entries, told, turn>>

(* A probe that fails, is killed or prints anything else counts as unknown. *)
RecordChecks ==
  /\ monitor.found # None
  /\ \E verdict \in {"unknown", monitor.found} : checks' = [verdict |-> verdict, at |-> now]
  /\ monitor' = [monitor EXCEPT !.found = None, !.since = 0]
  /\ UNCHANGED <<now, accepting, up, active, running, entries, told, turn>>

\* Mutant: the age of the verdict is not looked at.
ReadyOnce == checks.verdict = "ready"

(* OperationsState.ready: a verdict, and not a stale one. *)
Ready == checks.verdict = "ready" /\ now < checks.at + Stale

(***************************************************************************)
(* Conversations.                                                          *)
(***************************************************************************)
Expired(c) == entries[c] # None /\ now >= entries[c].at + TTL

Purged == [c \in Conv |-> IF Expired(c) THEN None ELSE entries[c]]

\* Mutant: a second turn on a conversation is let in.
ConflictNever(c) == FALSE

(* The three refusals of acquire, then the one for a turn in flight. *)
Unavailable(t, c) == entries[c] = None \/ entries[c].owner # turn[t].owner \/ Expired(c)
Conflict(c) == entries[c].token # None

LeaseHeld(t) ==
  LET c == turn[t].conv IN
  /\ entries[c] # None /\ entries[c].token = t /\ entries[c].owner = turn[t].owner

Aborted(t) ==
  LET c == turn[t].conv IN
  IF entries[c] # None /\ entries[c].token = t
  THEN [entries EXCEPT ![c].token = None] ELSE entries

(***************************************************************************)
(* A request.                                                              *)
(***************************************************************************)
(* Begin and AuthorizedQueryService.authorize: a decision that cannot be audited is a
   refusal. *)
Begin(t) ==
  /\ turn[t].pc = "idle" /\ \A u \in Turn : u < t => turn[u].pc # "idle"
  /\ \E o \in Owner, k \in Kinds, c \in Conv \cup {None},
        decision \in {"allow", "deny", "unavailable"}, audited \in BOOLEAN :
       /\ k = "analysis" => c = None
       /\ IF decision = "allow" /\ audited
          THEN turn' = [turn EXCEPT ![t] = [@ EXCEPT !.pc = "ready", !.owner = o, !.kind = k, !.conv = c]]
          ELSE Over(t)
  /\ UNCHANGED <<accepting, active, running, entries, told>> /\ UNCHANGED world

CheckReady(t) ==
  /\ turn[t].pc = "ready"
  /\ IF Ready THEN Go(t, "reserve") ELSE Over(t)
  /\ UNCHANGED <<accepting, active, running, entries, told>> /\ UNCHANGED world

Sum == LET f[S \in SUBSET Owner] ==
             IF S = {} THEN 0 ELSE LET o == CHOOSE o \in S : TRUE IN active[o] + f[S \ {o}]
       IN f[Owner]

AfterReserve(t) ==
  IF turn[t].kind = "analysis" THEN "guard" ELSE IF turn[t].conv = None THEN "execute" ELSE "acquire"

ReserveOwner(t) ==
  LET o == turn[t].owner IN
  /\ turn[t].pc = "reserve"
  /\ IF accepting /\ active[o] < MaxPerUser /\ Sum < MaxTotal
     THEN /\ active' = [active EXCEPT ![o] = @ + 1]
          /\ turn' = [turn EXCEPT ![t].pc = AfterReserve(t), ![t].deadline = now + Limit]
     ELSE Over(t) /\ UNCHANGED active
  /\ UNCHANGED <<accepting, running, entries, told>> /\ UNCHANGED world

Acquire(t) ==
  LET c == turn[t].conv IN
  /\ turn[t].pc = "acquire"
  /\ IF Unavailable(t, c)
     THEN /\ Reply(t, "release", "refused")
          /\ entries' = IF Expired(c) /\ entries[c].owner = turn[t].owner
                        THEN [entries EXCEPT ![c] = None] ELSE entries
     ELSE IF Conflict(c) THEN Reply(t, "release", "refused") /\ UNCHANGED entries
     ELSE /\ entries' = [entries EXCEPT ![c].token = t]
          /\ turn' = [turn EXCEPT ![t].pc = "revise",
                                  ![t].base = [at |-> entries[c].at, state |-> entries[c].state]]
  /\ UNCHANGED <<accepting, active, running, told>> /\ UNCHANGED world

\* Mutant: a turn that fails forgets its lease.
RefusedKeeps(t) == "release"

(* Where a turn that fails goes, with or without a lease. *)
Refused(t) == IF turn[t].base = None THEN "release" ELSE "abort"

Revise(t) ==
  /\ turn[t].pc = "revise"
  /\ \E revised \in BOOLEAN :
       IF revised THEN Go(t, "execute") ELSE Reply(t, Refused(t), "refused")
  /\ UNCHANGED <<accepting, active, running, entries, told>> /\ UNCHANGED world

Checkpoint(t) == now < turn[t].deadline

Execute(t) ==
  /\ turn[t].pc = "execute"
  /\ IF Checkpoint(t) THEN Go(t, "running") ELSE Reply(t, Refused(t), "refused")
  /\ UNCHANGED <<accepting, active, running, entries, told>> /\ UNCHANGED world

(* execute_authorized returns or raises, whenever that is; the deadline is looked at again. *)
Executed(t) ==
  /\ turn[t].pc = "running"
  /\ \E result \in {"success", "failure"} :
       IF ~Checkpoint(t) THEN Reply(t, Refused(t), "refused")
       ELSE IF result = "failure" THEN Reply(t, Refused(t), "refused")
       ELSE Go(t, IF turn[t].base = None THEN "create" ELSE "commit")
  /\ UNCHANGED <<accepting, active, running, entries, told>> /\ UNCHANGED world

(* create purges every expired conversation, one with a turn in flight too. *)
Create(t) ==
  /\ turn[t].pc = "create"
  /\ \E c \in {d \in Conv : told[d] = <<>>} :
       /\ entries' = [Purged EXCEPT ![c] =
                       [owner |-> turn[t].owner, at |-> now, state |-> <<t>>, token |-> None]]
       /\ told' = [told EXCEPT ![c] = <<t>>]
  /\ Reply(t, "release", "success")
  /\ UNCHANGED <<accepting, active, running>> /\ UNCHANGED world

Commit(t) ==
  LET c == turn[t].conv IN
  /\ turn[t].pc = "commit"
  /\ IF LeaseHeld(t)
     THEN /\ entries' = [entries EXCEPT ![c].at = now, ![c].token = None,
                                        ![c].state = Append(turn[t].base.state, t)]
          /\ told' = [told EXCEPT ![c] = Append(@, t)]
          /\ Reply(t, "release", "success")
     ELSE /\ entries' = Aborted(t) /\ UNCHANGED told
          /\ Reply(t, "release", "lost")
  /\ UNCHANGED <<accepting, active, running>> /\ UNCHANGED world

Abort(t) ==
  /\ turn[t].pc = "abort"
  /\ entries' = Aborted(t)
  /\ Go(t, "release")
  /\ UNCHANGED <<accepting, active, running, told>> /\ UNCHANGED world

(* An analysis holds its run in the guard while it works; the analysis itself is
   AnalysisRun. *)
Guard(t) ==
  /\ turn[t].pc = "guard"
  /\ IF turn[t].owner \in running
     THEN Reply(t, "release", "refused") /\ UNCHANGED running
     ELSE running' = running \cup {turn[t].owner} /\ Go(t, "analysing")
  /\ UNCHANGED <<accepting, active, entries, told>> /\ UNCHANGED world

Analysed(t) ==
  /\ turn[t].pc = "analysing"
  /\ running' = running \ {turn[t].owner}
  /\ \E answer \in {"success", "refused"} :
       Reply(t, "release", IF Checkpoint(t) THEN answer ELSE "refused")
  /\ UNCHANGED <<accepting, active, entries, told>> /\ UNCHANGED world

Release(t) ==
  /\ turn[t].pc = "release"
  /\ active' = [active EXCEPT ![turn[t].owner] = @ - 1]
  /\ Over(t)
  /\ UNCHANGED <<accepting, running, entries, told>> /\ UNCHANGED world

(***************************************************************************)
(* The environment: time, the dependencies, the shutdown.  The probe       *)
(* process is killed in time.                                              *)
(***************************************************************************)
Tick ==
  /\ now < MaxTime
  /\ monitor.found # None => now < monitor.since + ProbeTime
  /\ now' = now + 1
  /\ up' = IF up.is THEN [up EXCEPT !.last = now + 1] ELSE up
  /\ UNCHANGED <<accepting, monitor, checks, active, running, entries, told, turn>>

Outage ==
  /\ "outage" \in Happens /\ up.is
  /\ up' = [up EXCEPT !.is = FALSE]
  /\ UNCHANGED <<now, accepting, monitor, checks, active, running, entries, told, turn>>

Close ==
  /\ "close" \in Happens /\ accepting
  /\ accepting' = FALSE
  /\ UNCHANGED <<active, running, entries, told, turn>> /\ UNCHANGED world

Next ==
  \/ ProbeLooks \/ RecordChecks
  \/ \E t \in Turn :
       \/ Begin(t) \/ CheckReady(t) \/ ReserveOwner(t)
       \/ Acquire(t) \/ Revise(t) \/ Execute(t) \/ Executed(t)
       \/ Create(t) \/ Commit(t) \/ Abort(t)
       \/ Guard(t) \/ Analysed(t) \/ Release(t)
  \/ Tick \/ Outage \/ Close

Spec == Init /\ [][Next]_vars

-----------------------------------------------------------------------------
Held == {"revise", "execute", "running", "commit", "abort"}
Placed == {"acquire", "create", "guard", "analysing", "release"} \cup Held

\* The requests that have a place of an account.
PlacedOf(o) == {t \in Turn : turn[t].owner = o /\ turn[t].pc \in Placed}

TypeOK ==
  /\ now \in 0..MaxTime /\ accepting \in BOOLEAN
  /\ active \in [Owner -> 0..MaxPerUser] /\ running \subseteq Owner
  /\ checks.verdict \in {"unknown", "ready", "not_ready"}
  /\ \A c \in Conv : entries[c] = None
       \/ entries[c] \in [owner : Owner, at : 0..MaxTime, state : Seq(Turn), token : Turn \cup {None}]
  /\ \A t \in Turn : turn[t].pc \in {"idle", "ready", "reserve", "over"} \cup Placed

(* A conversation is the chain of the turns its owner was told succeeded, each built on all
   the ones before it; and a turn whose query succeeded is lost at the commit only when its
   conversation had been idle for the whole TTL: conversation.py create purges a
   conversation with a turn in flight, acquire and commit are the only other writers. *)
TurnsChain ==
  /\ \A c \in Conv : entries[c] # None => entries[c].state = told[c]
  /\ \A t \in Turn : turn[t].pc = "release" /\ turn[t].answer = "lost"
                       => now >= turn[t].base.at + TTL

(* Nothing blocks a conversation or a place for good: the token in a conversation belongs to
   a turn that is still to commit or to abort, and every place belongs to a request that
   still has to release it.  (app.py _run_authorized_query, admission.py admit_owner) *)
NothingOrphaned ==
  /\ \A c \in Conv : entries[c] # None /\ entries[c].token # None =>
       LET t == entries[c].token IN turn[t].conv = c /\ turn[t].pc \in Held
  /\ \A o \in Owner : active[o] = Cardinality(PlacedOf(o))

(* A request passes the readiness check only if every dependency answered within the
   staleness limit plus the time a probe may take, however the monitor is delayed or dies.
   (operations.py snapshot, bootstrap/operations.py _run) *)
EvidenceRecent ==
  \A t \in Turn : turn[t].pc = "ready" /\ turn'[t].pc = "reserve"
     => now < up.last + Stale + ProbeTime
AdmittedOnEvidence == [][EvidenceRecent]_vars
=============================================================================
