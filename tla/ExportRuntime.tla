--------------------------- MODULE ExportRuntime ---------------------------
(***************************************************************************)
(* Result files: query_api/export_runtime.py (slots, worker processes,     *)
(* working directories), the request handler of result_export_api.py and   *)
(* the life of the API process around them.                                *)
(*                                                                         *)
(* A request runs on two threads: the handler coroutine polls the client,  *)
(* a pool thread acquires the slot, starts the renderer as a child process *)
(* and waits for it.  A slot belongs to an account, not to a request:      *)
(* `release' discards the account.  The probe of the fonts starts          *)
(* fc-match; when that call fails or times out it raises an exception of   *)
(* the subprocess module, which none of the handlers around it names.      *)
(***************************************************************************)
EXTENDS Naturals, FiniteSets

CONSTANTS
  None,
  Owner,       \* accounts
  Request,     \* HTTP requests, each used once
  Sender,      \* the accounts a request may come from
  MaxTotal,    \* files in production at a time (2 in the code)
  MaxLives,    \* starts of the API process
  Faults       \* what may go wrong, see Fault

\* assets: the bundle, Chromium or a font is missing;  probe: fc-match fails;
\* spawn: the input is too large or the process cannot be started;  worker: the
\* renderer fails;  removal: a directory cannot be deleted;  crash: the API dies.
Fault == {"assets", "probe", "spawn", "worker", "removal", "crash"}

\* What the constants must satisfy.
ExportAssumption ==
  /\ MaxTotal \in Nat \ {0} /\ MaxLives \in Nat
  /\ Faults \subseteq Fault /\ Sender \in [Request -> SUBSET Owner]

VARIABLES
  phase,    \* of the API process: down, serving, closing, stopped
  lives,    \* starts so far
  rt,       \* the ExportRuntime object
  disk,     \* requests whose working directory exists
  workers,  \* requests whose renderer process is alive
  job       \* the requests

vars == <<phase, lives, rt, disk, workers, job>>

Idle == [pc |-> "idle", owner |-> None, format |-> "xlsx", life |-> 0,
         cancelled |-> FALSE, late |-> FALSE, exit |-> "none"]

NewRuntime == [initialized |-> FALSE, closing |-> FALSE, lock |-> FALSE, config |-> FALSE,
               slots |-> {}, active |-> {}, doomed |-> {}]

Init ==
  /\ phase = "down" /\ lives = 0 /\ rt = NewRuntime
  /\ disk = {} /\ workers = {}
  /\ job = [r \in Request |-> Idle]

(* Stages at which a request holds, or may hold, a slot. *)
Working == {"assets", "spawn", "register", "wait", "collect", "clean",
            "artifact", "verify", "sending", "finish"}

Set(r, changes) ==
  job' = [job EXCEPT ![r] = [f \in DOMAIN @ |-> IF f \in DOMAIN changes THEN changes[f] ELSE @[f]]]

(* A request that failed or ended keeps nothing; one on its way to the cleanup keeps who it
   is.  The error code of the answer tells the client why and is left out. *)
Over(r) == job' = [job EXCEPT ![r] = [Idle EXCEPT !.pc = "over"]]
ToEnd(r, pc) == job' = [job EXCEPT ![r] = [Idle EXCEPT !.pc = pc, !.owner = job[r].owner, !.life = job[r].life]]

(***************************************************************************)
(* startup: what it may leave behind, by the way the renderer's resources  *)
(* answer.  The lock on the temporary root is taken and the root emptied   *)
(* before the resources are looked at.                                     *)
(***************************************************************************)
Unlocked == ~rt.initialized /\ ~rt.closing /\ ~rt.lock

Startups ==
  IF rt.initialized THEN {[rt |-> rt, disk |-> disk, raised |-> "no"]}
  ELSE IF ~Unlocked THEN {[rt |-> rt, disk |-> disk, raised |-> "unavailable"]}
  ELSE {[rt |-> [rt EXCEPT !.lock = TRUE, !.initialized = TRUE, !.config = has],
         disk |-> {}, raised |-> "no"] : has \in {TRUE} \cup {"assets" \notin Faults}}
       \cup {[rt |-> [rt EXCEPT !.lock = TRUE], disk |-> {}, raised |-> "probe"] :
             f \in Faults \cap {"probe"}}

(* The process starts; an exception that startup's caller does not name ends it. *)
Start ==
  /\ phase = "down" /\ lives < MaxLives
  /\ lives' = lives + 1
  /\ \E s \in Startups :
       /\ disk' = s.disk
       /\ IF s.raised = "probe" THEN phase' = "down" /\ UNCHANGED rt
          ELSE phase' = "serving" /\ rt' = s.rt
  /\ UNCHANGED <<workers, job>>

(* identity, permission, snapshot and format are checked before a slot is asked for *)
Prepare(r) ==
  /\ phase = "serving" /\ job[r].pc = "idle"
  /\ \E o \in Sender[r], f \in {"xlsx", "png"} :
       Set(r, [pc |-> "prepared", owner |-> o, format |-> f, life |-> lives])
  /\ UNCHANGED <<phase, lives, rt, disk, workers>>

MayAcquire(o, run) ==
  ~run.closing /\ o \notin run.slots /\ Cardinality(run.slots) < MaxTotal

Acquire(r) ==
  /\ job[r].pc = "prepared"
  /\ \E s \in Startups :
       /\ disk' = s.disk
       /\ IF s.raised # "no"
            THEN Over(r) /\ rt' = s.rt
            ELSE IF MayAcquire(job[r].owner, s.rt)
            THEN /\ rt' = [s.rt EXCEPT !.slots = @ \cup {job[r].owner}]
                 /\ Set(r, [pc |-> IF job[r].format = "xlsx" THEN "spawn" ELSE "assets"])
            ELSE Over(r) /\ rt' = s.rt
  /\ UNCHANGED <<phase, lives, workers>>

Release(o) == [rt EXCEPT !.slots = @ \ {o}]

(* A picture needs the renderer's resources, looked at again under the slot. *)
CheckAssets(r) ==
  /\ job[r].pc = "assets"
  /\ \E found \in {"all"} \cup (Faults \cap {"assets", "probe"}) :
       /\ rt' = CASE found = "all" -> [rt EXCEPT !.config = TRUE]
                  [] found = "assets" -> [Release(job[r].owner) EXCEPT !.config = FALSE]
                  [] found = "probe" -> rt
       /\ IF found = "all" THEN Set(r, [pc |-> "spawn"]) ELSE Over(r)
  /\ UNCHANGED <<phase, lives, disk, workers>>

(* The directory is made, then the process started; another request may have found the
   resources missing in between. *)
Spawn(r) ==
  /\ job[r].pc = "spawn"
  /\ \/ job[r].late /\ ToEnd(r, "clean") /\ UNCHANGED <<disk, workers>>
     \/ /\ "spawn" \in Faults \/ (job[r].format = "png" /\ ~rt.config)
        /\ ToEnd(r, "clean")
        /\ disk' \in {disk, disk \cup {r}} /\ UNCHANGED workers
     \/ /\ ~job[r].late /\ (job[r].format = "png" => rt.config)
        /\ disk' = disk \cup {r} /\ workers' = workers \cup {r}
        /\ Set(r, [pc |-> "register", format |-> "xlsx"])
  /\ UNCHANGED <<phase, lives, rt>>

Register(r) ==
  /\ job[r].pc = "register"
  /\ IF rt.closing
       THEN workers' = workers \ {r} /\ ToEnd(r, "clean") /\ UNCHANGED rt
       ELSE rt' = [rt EXCEPT !.active = @ \cup {r}] /\ Set(r, [pc |-> "wait"]) /\ UNCHANGED workers
  /\ UNCHANGED <<phase, lives, disk>>

(* The renderer ends by itself (external: export_worker.py and Chromium). *)
WorkerExit(r) ==
  /\ r \in workers
  /\ workers' = workers \ {r}
  /\ \E how \in {"good"} \cup {"bad" : f \in Faults \cap {"worker"}} : Set(r, [exit |-> how])
  /\ UNCHANGED <<phase, lives, rt, disk>>

(* Sixty seconds are over. *)
Deadline(r) ==
  /\ job[r].pc \in {"spawn", "register", "wait", "collect", "artifact", "verify"} /\ ~job[r].late
  /\ Set(r, [late |-> TRUE])
  /\ UNCHANGED <<phase, lives, rt, disk, workers>>

(* The handler sees the client gone, or is cancelled itself; it can no longer do so once it
   has taken the artifact. *)
Disconnect(r) ==
  /\ job[r].pc \in {"prepared", "assets", "spawn", "register", "wait", "collect", "artifact"}
  /\ ~job[r].cancelled
  /\ Set(r, [cancelled |-> TRUE])
  /\ UNCHANGED <<phase, lives, rt, disk, workers>>

\* Mutant: the client is watched, the clock is not.
PollUntilGone(r) == r \in workers /\ job[r].cancelled

(* One turn of the waiting loop: an ended process first, then the client, then the clock. *)
PollGivesUp(r) == r \in workers /\ (job[r].cancelled \/ job[r].late)

Inactive(r) == [rt EXCEPT !.active = @ \ {r}]

Poll(r) ==
  /\ job[r].pc = "wait"
  /\ \/ r \notin workers /\ Set(r, [pc |-> "collect"]) /\ UNCHANGED <<workers, rt>>
     \/ /\ PollGivesUp(r)
        /\ workers' = workers \ {r} /\ rt' = Inactive(r)
        /\ ToEnd(r, "clean")
  /\ UNCHANGED <<phase, lives, disk>>

(* The file counts when the process ended well in time and left it behind. *)
Collect(r) ==
  /\ job[r].pc = "collect"
  /\ rt' = Inactive(r)
  /\ IF ~job[r].late /\ job[r].exit = "good" /\ r \in disk
       THEN Set(r, [pc |-> "artifact", exit |-> "none"])
       ELSE ToEnd(r, "clean")
  /\ UNCHANGED <<phase, lives, disk, workers>>

\* Mutant: the slot is given back whatever becomes of the directory.
ReleaseAnyway(r) ==
  /\ rt' = Release(job[r].owner) /\ ToEnd(r, "over")
  /\ \/ disk' = disk \ {r}
     \/ "removal" \in Faults /\ UNCHANGED disk

(* The directory goes first, the slot after it; when the directory cannot be removed the
   slot stays taken. *)
RemoveThenRelease(r) ==
  \/ disk' = disk \ {r} /\ rt' = Release(job[r].owner) /\ Over(r)
  \/ "removal" \in Faults /\ r \in disk /\ ToEnd(r, "pinned") /\ UNCHANGED <<disk, rt>>

Clean(r) ==
  /\ job[r].pc = "clean" /\ RemoveThenRelease(r)
  /\ UNCHANGED <<phase, lives, workers>>

(* The handler takes the artifact, unless its client left before. *)
Claim(r) ==
  /\ job[r].pc = "artifact"
  /\ IF job[r].cancelled THEN ToEnd(r, "finish") ELSE Set(r, [pc |-> "verify"])
  /\ UNCHANGED <<phase, lives, rt, disk, workers>>

(* Account, permission and the hash of the source once more, and the clock. *)
Verify(r) ==
  /\ job[r].pc = "verify"
  /\ \E same \in BOOLEAN :
       ToEnd(r, IF same /\ ~job[r].late THEN "sending" ELSE "finish")
  /\ UNCHANGED <<phase, lives, rt, disk, workers>>

(* Delivered or broken off, the response ends in the cleanup. *)
Send(r) ==
  /\ job[r].pc = "sending" /\ ToEnd(r, "finish")
  /\ UNCHANGED <<phase, lives, rt, disk, workers>>

Finish(r) ==
  /\ job[r].pc = "finish" /\ RemoveThenRelease(r)
  /\ UNCHANGED <<phase, lives, workers>>

(***************************************************************************)
(* shutdown, in the three parts its locks make of it; then the process     *)
(* ends.  It may also die at any moment.  A renderer dies with its parent  *)
(* (prctl in the worker); directories stay until the next start.           *)
(***************************************************************************)
ShutdownBegin ==
  /\ phase = "serving" /\ phase' = "closing"
  /\ rt' = [rt EXCEPT !.closing = TRUE, !.doomed = rt.active]
  /\ UNCHANGED <<lives, disk, workers, job>>

ShutdownStop ==
  /\ phase = "closing" /\ rt.doomed # {}
  /\ workers' = workers \ rt.doomed
  /\ job' = [r \in Request |-> IF r \in rt.doomed \cap workers THEN [job[r] EXCEPT !.exit = "bad"] ELSE job[r]]
  /\ rt' = [rt EXCEPT !.doomed = {}]
  /\ UNCHANGED <<phase, lives, disk>>

ShutdownEnd ==
  /\ phase = "closing" /\ rt.doomed = {} /\ phase' = "stopped"
  /\ \/ rt.initialized /\ disk' = {} /\ rt' = NewRuntime
     \/ ~rt.initialized /\ rt' = [rt EXCEPT !.closing = FALSE] /\ UNCHANGED disk
     \/ rt.initialized /\ "removal" \in Faults /\ disk # {} /\ UNCHANGED <<rt, disk>>
  /\ UNCHANGED <<lives, workers, job>>

Die ==
  /\ phase # "down" /\ (phase = "stopped" \/ "crash" \in Faults)
  /\ phase' = "down" /\ workers' = {} /\ rt' = NewRuntime
  /\ job' = [r \in Request |-> IF job[r].pc \in Working \cup {"prepared", "pinned"}
                                 THEN [Idle EXCEPT !.pc = "over"] ELSE job[r]]
  /\ UNCHANGED <<lives, disk>>

Steps(r) ==
  \/ Acquire(r) \/ CheckAssets(r) \/ Spawn(r) \/ Register(r) \/ Poll(r) \/ Collect(r)
  \/ Clean(r) \/ Claim(r) \/ Verify(r) \/ Send(r) \/ Finish(r)

Next ==
  \/ Start \/ ShutdownBegin \/ ShutdownStop \/ ShutdownEnd \/ Die
  \/ \E r \in Request : Prepare(r) \/ Steps(r) \/ WorkerExit(r) \/ Deadline(r) \/ Disconnect(r)

Spec == Init /\ [][Next]_vars

(* Threads run, the clock runs, a download ends; nothing makes a renderer end by itself. *)
Fairness ==
  /\ \A r \in Request : WF_vars(Steps(r)) /\ WF_vars(Deadline(r))
  /\ WF_vars(ShutdownStop) /\ WF_vars(ShutdownEnd)

FairSpec == Spec /\ Fairness

TypeOK ==
  /\ phase \in {"down", "serving", "closing", "stopped"} /\ lives \in 0..MaxLives
  /\ rt \in [initialized : BOOLEAN, closing : BOOLEAN, lock : BOOLEAN, config : BOOLEAN,
             slots : SUBSET Owner, active : SUBSET Request, doomed : SUBSET Request]
  /\ disk \subseteq Request /\ workers \subseteq Request
  /\ \A r \in Request : job[r].pc \in Working \cup {"idle", "prepared", "pinned", "over"}

(* While the service runs a slot is given back only after the work it stands for is over:
   a renderer that is alive, and a directory on disk, belong to a request of this process
   whose account still holds its slot; an account has one request under way, and the
   service no more than its limit.  Timeouts, lost clients, failing renderers and failing
   removals included. *)
SlotCoversWork ==
  phase = "serving" =>
    /\ \A r \in workers \cup disk : job[r].life = lives /\ job[r].owner \in rt.slots
    /\ \A r, s \in Request :
         (job[r].pc \in Working /\ job[s].pc \in Working /\ job[r].owner = job[s].owner) => r = s
    /\ Cardinality({r \in Request : job[r].pc \in Working}) <= MaxTotal

(* A slot whose directory could not be removed is kept on purpose. *)
Pinned(o) == \E r \in Request : job[r].owner = o /\ job[r].pc = "pinned"

(* "完成或明确失败解除占用": an account that holds a slot has a request under way (or a
   directory that could not be removed).  The code breaks it: when fc-match fails or times
   out while `generate' looks at the fonts, the exception passes the handlers and the slot
   stays taken until the API restarts. *)
FailureFreesSlot ==
  phase = "serving" =>
    \A o \in rt.slots : Pinned(o) \/ \E r \in Request : job[r].owner = o /\ job[r].pc \in Working

(* A hung renderer does not keep its slot: every slot that is taken is given back, because
   the deadline kills the process, unless the removal of the directory failed. *)
SlotsComeBack == \A o \in Owner : o \in rt.slots ~> (o \notin rt.slots \/ Pinned(o))
=============================================================================
