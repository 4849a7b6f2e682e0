---------------------------- MODULE HistoryStore ----------------------------
(***************************************************************************)
(* The histories of one account and its saved results                      *)
(* (chatbi_control/history.py), as the synchronous routes of               *)
(* query_api/history_api.py use them: creating, continuing, resuming and   *)
(* requerying, renaming, deleting, keeping a result, paging through the    *)
(* list.  Every action on the rows is one transaction.  An attempt takes   *)
(* the lease of its history in the process (history_runtime.py), is        *)
(* accepted, works without a transaction and is finished in a second one.  *)
(* Executions with a row of their own are in ExecutionLifecycle.  A row of *)
(* another account is never found (_owned), so one account is enough.  A   *)
(* snapshot is named by the turn that computed it.                         *)
(***************************************************************************)
EXTENDS Naturals, Sequences, FiniteSets, SequencesExt

CONSTANTS
  None,
  Ids,          \* bound: histories, 1 .. Ids; the order of their identifiers is any
  Turns,        \* bound: turns, 1 .. Turns
  Op,           \* operation ids
  Thread,       \* bound: requests, each in a thread of its own
  There,        \* kinds of the histories that are there at the start, "query" or "analysis"
  Acts,         \* bound: what is done: "create", "submit", "resume", "requery", "rename", "delete", "list"
  Page,         \* the limit of a page of the list
  MaxSaved,     \* bound: results kept
  MaxRename,    \* bound: titles given
  MaxLives,     \* bound: starts of the process
  MaxTime       \* bound: instants told apart

History == 1..Ids
Turn == 1..Turns
Kinds == Range(There)
Status == {"accepted", "succeeded", "failed", "unconfirmed"}

\* What a page asks for, and the rows of the tables history_records and history_turns.
Request == [act : {"submit", "resume", "requery", "requery saved"}, of : History \cup Turn, op : Op, rev : Nat]
HistoryRow ==
  [kind : Kinds, op : Op \cup {None}, hash : {None} \cup Request \cup [act : {"create"}, kind : Kinds],
   deleted : BOOLEAN, active : Turn \cup {None}, gen : Nat, ctx : Nat, rev : Nat,
   last : Turn \cup {None}, title : Nat, at : Nat]
TurnRow ==
  [of : History \cup {None}, op : Op, hash : Request, status : Status, gen : Nat, epoch : Nat,
   base : Turn \cup {None}]
Cursor == [at : Nat, id : History]

StoreAssumption ==
  /\ Ids \in Nat /\ Turns \in Nat /\ Page \in Nat \ {0}
  /\ MaxSaved \in Nat /\ MaxLives \in Nat \ {0} /\ MaxTime \in Nat \ {0} /\ MaxRename \in Nat
  /\ There \in Seq({"query", "analysis"}) /\ Len(There) <= Ids
  /\ Acts \subseteq {"create", "submit", "resume", "requery", "rename", "delete", "list"}
  /\ None \notin History /\ None \notin Turn /\ None \notin HistoryRow /\ None \notin TurnRow
  /\ None \notin Cursor

VARIABLES
  hist,     \* table history_records
  turns,    \* table history_turns
  saved,    \* table saved_results
  lease,    \* HistoryRuntime._running
  epoch,    \* runtime_epoch, that of the process and that of the row
  thread,   \* the request threads
  view,     \* the header the page of the account has read last
  scan,     \* the pages of the list it has read
  told,     \* history: what was answered to which request
  now       \* CURRENT_TIMESTAMP

vars == <<hist, turns, saved, lease, epoch, thread, view, scan, told, now>>
client == <<view, scan>>

Idle == [pc |-> "idle", req |-> None, of |-> None, turn |-> None, gen |-> 0, result |-> None]
Over == [Idle EXCEPT !.pc = "over"]
NoView == [of |-> None, rev |-> 0, content |-> None]
NoScan == [done |-> FALSE, cursor |-> None, seen |-> <<>>, start |-> <<>>]

Record(kind, op, hash, at) ==
  [kind |-> kind, op |-> op, hash |-> hash, deleted |-> FALSE, active |-> None, gen |-> 0,
   ctx |-> 0, rev |-> 0, last |-> None, title |-> 0, at |-> at]

(* Histories created before, at one or at two instants. *)
Init ==
  /\ now = 1
  /\ \E at \in [History -> {1} \cup (IF "list" \in Acts THEN {0} ELSE {})] :
       hist = [h \in History |-> IF h <= Len(There) THEN Record(There[h], None, None, at[h]) ELSE None]
  /\ turns = [t \in Turn |-> None] /\ saved = {}
  /\ lease = {} /\ epoch = 1 /\ thread = [k \in Thread |-> Idle]
  /\ view = NoView /\ scan = NoScan /\ told = {}

Live(h) == hist[h] # None /\ ~hist[h].deleted
TurnsOf(h) == {t \in Turn : turns[t] # None /\ turns[t].of = h}
Free(S, f) == {x \in S : f[x] = None}
\* The row a transaction inserts takes the next identifier that was never used.
NextTurn == CHOOSE t \in Free(Turn, turns) : \A u \in Free(Turn, turns) : t <= u

\* What a page shows of a history: its title and its turns with their status.
Content(h) == [title |-> hist[h].title, turns |-> {<<t, turns[t].status>> : t \in TurnsOf(h)}]

-----------------------------------------------------------------------------
(***************************************************************************)
(* create: ON CONFLICT DO NOTHING, then the row of the operation.          *)
(***************************************************************************)
ByOperation(op) == {h \in History : hist[h] # None /\ hist[h].op = op}

Create ==
  \E kind \in Kinds, op \in Op :
    /\ "create" \in Acts /\ ByOperation(op) = {}
    /\ \E h \in Free(History, hist) : hist' = [hist EXCEPT ![h] = Record(kind, op, [act |-> "create", kind |-> kind], now)]
    /\ UNCHANGED <<turns, saved, lease, epoch, thread, client, told, now>>

(***************************************************************************)
(* A request arrives.  submit_query and requery look at nothing that can   *)
(* change before they reserve; resume_analysis decides on the header it    *)
(* has read, and answers from it when the analysis is done.                *)
(***************************************************************************)
Tell(k, t) ==
  /\ told' = told \cup {[req |-> thread[k].req, turn |-> t, status |-> turns[t].status]}
  /\ thread' = [thread EXCEPT ![k] = Over]

Arrives(k, req) ==
  /\ thread[k].pc = "idle"
  /\ thread' = [thread EXCEPT ![k] = [Idle EXCEPT !.pc = IF req.act = "resume" THEN "header" ELSE "reserve",
                                                  !.req = req]]
  /\ UNCHANGED <<hist, turns, saved, lease, epoch, client, told, now>>

Submit(k) ==
  \E h \in History, op \in Op :
    /\ "submit" \in Acts /\ Live(h) /\ hist[h].kind = "query"
    /\ \E rev \in 0..hist[h].ctx : Arrives(k, [act |-> "submit", of |-> h, op |-> op, rev |-> rev])

Resume(k) ==
  \E h \in History, op \in Op :
    /\ "resume" \in Acts /\ Live(h) /\ hist[h].kind = "analysis"
    /\ \E rev \in 0..hist[h].rev : Arrives(k, [act |-> "resume", of |-> h, op |-> op, rev |-> rev])

(* The source is a turn, which stands for its history when that is an analysis, or a saved
   result.  An analysis without a turn is not requeried here. *)
Requery(k) ==
  \E t \in Turn, op \in Op, kept \in BOOLEAN :
    /\ "requery" \in Acts /\ (IF kept THEN \E s \in saved : s.turn = t ELSE turns[t] # None)
    /\ Arrives(k, [act |-> IF kept THEN "requery saved" ELSE "requery", of |-> t, op |-> op, rev |-> 0])

(* header refuses a history that is gone and an analysis that cannot be recovered, which
   depends on its latest failure and on its run (AnalysisRun): either may happen. *)
ReadHeader(k) ==
  LET h == thread[k].req.of IN
  /\ thread[k].pc = "header"
  /\ \/ hist[h].last = None /\ thread' = [thread EXCEPT ![k] = Over] /\ UNCHANGED told
     \/ Live(h) /\ hist[h].last # None /\ Tell(k, hist[h].last)
     \/ /\ Live(h) /\ hist[h].last = None
        /\ thread' = [thread EXCEPT ![k].pc = "reserve"] /\ UNCHANGED told
  /\ UNCHANGED <<hist, turns, saved, lease, epoch, client, now>>

(* HistoryRuntime.reserve; a requery reserves the identifier of a history that is not there. *)
Reserve(k) ==
  /\ thread[k].pc = "reserve"
  /\ IF thread[k].req.act \in {"submit", "resume"} /\ thread[k].req.of \in lease
     THEN thread' = [thread EXCEPT ![k] = Over] /\ UNCHANGED lease
     ELSE /\ thread' = [thread EXCEPT ![k].pc = "begin"]
          /\ lease' = IF thread[k].req.act \in {"submit", "resume"}
                      THEN lease \cup {thread[k].req.of} ELSE lease
  /\ UNCHANGED <<hist, turns, saved, epoch, client, told, now>>

(***************************************************************************)
(* _begin: the operation is looked up first, then the history must have no *)
(* active turn and the context the page knows.                             *)
(***************************************************************************)
Release(k, h) ==
  /\ thread' = [thread EXCEPT ![k] = Over]
  /\ lease' = lease \ {h}

Previous(h, op) == {t \in TurnsOf(h) : turns[t].op = op}

(* A request repeated: the stored answer, unless it is another request, still running or was
   given up. *)
Repeats(k, h, t) ==
  /\ lease' = lease \ {h}
  /\ IF turns[t].hash = thread[k].req /\ turns[t].status \in {"succeeded", "failed"}
     THEN Tell(k, t)
     ELSE thread' = [thread EXCEPT ![k] = Over] /\ UNCHANGED told
  /\ UNCHANGED <<hist, turns, saved, epoch, client, now>>

\* Mutant: a resumed analysis is not held to the record the page has read.
ContextAny(k, h) == thread[k].req.act = "submit" => hist[h].ctx = thread[k].req.rev

(* begin_attempt is held to the context revision, begin_analysis_attempt to the record's. *)
ContextKnown(k, h) ==
  CASE thread[k].req.act = "submit" -> hist[h].ctx = thread[k].req.rev
    [] thread[k].req.act = "resume" -> hist[h].rev = thread[k].req.rev

Insert(k, h, record, base) ==
  LET t == NextTurn IN
  /\ Free(Turn, turns) # {}
  /\ turns' = [turns EXCEPT ![t] = [of |-> h, op |-> thread[k].req.op, hash |-> thread[k].req,
                                     status |-> "accepted", gen |-> record.gen + 1, epoch |-> epoch,
                                     base |-> base]]
  /\ hist' = [hist EXCEPT ![h] = [record EXCEPT !.active = t, !.gen = @ + 1, !.rev = @ + 1, !.at = now]]
  /\ thread' = [thread EXCEPT ![k] = [@ EXCEPT !.pc = "work", !.of = h, !.turn = t, !.gen = record.gen + 1]]

(* Admission may refuse before the row is written (before_accept). *)
Begin(k) ==
  LET h == thread[k].req.of  op == thread[k].req.op IN
  /\ thread[k].pc = "begin" /\ thread[k].req.act \in {"submit", "resume"}
  /\ IF Live(h) /\ Previous(h, op) # {}
     THEN \E t \in Previous(h, op) : Repeats(k, h, t)
     ELSE /\ \/ Release(k, h) /\ UNCHANGED <<hist, turns>>
             \/ /\ Live(h) /\ hist[h].active = None /\ ContextKnown(k, h)
                /\ Insert(k, h, hist[h], IF hist[h].kind = "query" THEN hist[h].last ELSE None)
                /\ UNCHANGED lease
          /\ UNCHANGED <<saved, epoch, client, told, now>>

(***************************************************************************)
(* begin_requery: one history for each operation, its first turn computed  *)
(* from the snapshot of the source.                                        *)
(***************************************************************************)
Source(k) ==
  LET t == thread[k].req.of IN
  IF thread[k].req.act = "requery saved"
  THEN {s.kind : s \in {r \in saved : r.turn = t}}
  ELSE {hist[h].kind : h \in {g \in History : Live(g) /\ t \in TurnsOf(g)
                                              /\ (hist[g].kind = "query" => turns[t].status = "succeeded")}}

BeginRequery(k) ==
  LET op == thread[k].req.op IN
  /\ thread[k].pc = "begin" /\ thread[k].req.act \notin {"submit", "resume"}
  /\ IF ByOperation(op) # {}
     THEN \E h \in ByOperation(op) :
            IF hist[h].hash = thread[k].req /\ Live(h)
            THEN \E t \in Previous(h, op) : Repeats(k, None, t)
            ELSE /\ thread' = [thread EXCEPT ![k] = Over]
                 /\ UNCHANGED <<hist, turns, saved, lease, epoch, client, told, now>>
     ELSE /\ \/ thread' = [thread EXCEPT ![k] = Over] /\ UNCHANGED <<hist, turns, lease>>
             \/ \E h \in Free(History, hist), kind \in Source(k) :
                  /\ Insert(k, h, Record(kind, op, thread[k].req, now),
                            IF kind = "query" THEN thread[k].req.of ELSE None)
                  /\ lease' = lease \cup {h}
          /\ UNCHANGED <<saved, epoch, client, told, now>>

(***************************************************************************)
(* _execute_attempt.  The business fails or answers; where the identity,   *)
(* the guard connection or the database is gone nothing is finished, and   *)
(* the page is told to look again.                                         *)
(***************************************************************************)
Work(k) ==
  /\ thread[k].pc = "work"
  /\ \E result \in {"succeeded", "failed", "unconfirmed"} :
       thread' = [thread EXCEPT ![k].pc = IF result = "unconfirmed" THEN "release" ELSE "finish",
                                ![k].result = result]
  /\ UNCHANGED <<hist, turns, saved, lease, epoch, client, told, now>>

Finished(h, t, success) ==
  [hist[h] EXCEPT !.active = None, !.rev = @ + 1, !.ctx = IF success THEN @ + 1 ELSE @,
                  !.last = IF success THEN t ELSE @, !.at = now]

(* finish_attempt: only the holder of the active turn; its answer is sent when the lease is
   back.  A commit may be lost, or done and reported as lost. *)
Finish(k) ==
  LET t == thread[k].turn  h == thread[k].of  done == thread[k].result IN
  /\ thread[k].pc = "finish"
  /\ \/ /\ Live(h) /\ hist[h].active = t /\ hist[h].gen = thread[k].gen
        /\ turns[t].epoch = epoch /\ turns[t].status = "accepted"
        /\ turns' = [turns EXCEPT ![t].status = done]
        /\ hist' = [hist EXCEPT ![h] = Finished(h, t, done = "succeeded")]
        /\ \E reported \in BOOLEAN :
             thread' = [thread EXCEPT ![k].pc = IF reported THEN "answer" ELSE "release"]
     \/ thread' = [thread EXCEPT ![k].pc = "release"] /\ UNCHANGED <<turns, hist>>
  /\ UNCHANGED <<saved, lease, epoch, client, told, now>>

(* The lease goes back.  The answer carries the header, which is gone if the history is; the
   failure of a question or of a resumed analysis is answered without it. *)
Answer(k) ==
  /\ thread[k].pc \in {"answer", "release"}
  /\ lease' = lease \ {thread[k].of}
  /\ IF /\ thread[k].pc = "answer"
        /\ Live(thread[k].of) \/ (thread[k].result = "failed" /\ thread[k].req.act \in {"submit", "resume"})
     THEN Tell(k, thread[k].turn)
     ELSE thread' = [thread EXCEPT ![k] = Over] /\ UNCHANGED told
  /\ UNCHANGED <<hist, turns, saved, epoch, client, now>>

-----------------------------------------------------------------------------
(***************************************************************************)
(* The page of the account: it reads a header, whose turn is given up when *)
(* nobody in this process works on it, and edits what it has read.         *)
(***************************************************************************)
GivenUp(h) == [hist[h] EXCEPT !.active = None, !.gen = @ + 1, !.rev = @ + 1, !.at = now]
Unconfirmed(T) == [t \in Turn |-> IF t \in T THEN [turns[t] EXCEPT !.status = "unconfirmed"] ELSE turns[t]]

(* The second read of header happens after the reconciliation. *)
Reconcile ==
  \E h \in History :
    /\ Live(h) /\ hist[h].active # None /\ h \notin lease
    /\ turns[hist[h].active].status = "accepted" /\ turns[hist[h].active].epoch = epoch
    /\ turns' = Unconfirmed({hist[h].active}) /\ hist' = [hist EXCEPT ![h] = GivenUp(h)]
    /\ UNCHANGED <<saved, lease, epoch, thread, client, told, now>>

Header(h) == [of |-> h, rev |-> hist[h].rev, content |-> Content(h)]

Look ==
  \E h \in History :
    /\ Acts \cap {"rename", "delete"} # {} /\ Live(h) /\ view # Header(h)
    /\ view' = Header(h)
    /\ UNCHANGED <<hist, turns, saved, lease, epoch, thread, scan, told, now>>

AsRead(h) == view.of = h /\ Live(h) /\ hist[h].rev = view.rev

RenameHistory ==
  \E h \in History :
    /\ "rename" \in Acts /\ AsRead(h) /\ hist[h].title < MaxRename
    /\ hist' = [hist EXCEPT ![h] = [hist[h] EXCEPT !.title = @ + 1, !.rev = @ + 1, !.at = now]]
    /\ UNCHANGED <<turns, saved, lease, epoch, thread, client, told, now>>

(* The row stays, emptied, for its operation id; the turns go (their rows are kept here,
   out of every history, for `told'). *)
DeleteHistory ==
  \E h \in History :
    /\ "delete" \in Acts /\ AsRead(h) /\ hist[h].active = None
    /\ hist' = [hist EXCEPT ![h] = [hist[h] EXCEPT !.deleted = TRUE, !.last = None, !.title = 0,
                                              !.gen = @ + 1, !.rev = @ + 1, !.at = now]]
    /\ turns' = [t \in Turn |-> IF t \in TurnsOf(h) THEN [turns[t] EXCEPT !.of = None] ELSE turns[t]]
    /\ UNCHANGED <<saved, lease, epoch, thread, client, told, now>>

(* copy_result, and rename_saved_result and delete_saved_result with it: kept results. *)
CopyResult ==
  \E t \in Turn :
    /\ Cardinality(saved) < MaxSaved /\ \A s \in saved : s.turn # t
    /\ turns[t] # None /\ turns[t].of # None /\ turns[t].status = "succeeded"
    /\ saved' = saved \cup {[turn |-> t, kind |-> hist[turns[t].of].kind, base |-> turns[t].base]}
    /\ UNCHANGED <<hist, turns, lease, epoch, thread, client, told, now>>

DeleteSaved ==
  \E s \in saved :
    /\ "delete" \in Acts /\ saved' = saved \ {s}
    /\ UNCHANGED <<hist, turns, lease, epoch, thread, client, told, now>>

(***************************************************************************)
(* _list: newest first, identifiers decide between equal instants; the     *)
(* cursor is the last row of the page before.                              *)
(***************************************************************************)
Below(h, c) == hist[h].at < c.at \/ (hist[h].at = c.at /\ h < c.id)

Newer(g, h) == hist[g].at > hist[h].at \/ (hist[g].at = hist[h].at /\ g > h)

\* The first rows of a result, at most a page of them.
FirstRows(items, rows) ==
  /\ \A i \in 1..Len(items) : \A j \in 1..(i - 1) : Newer(items[j], items[i])
  /\ \A h \in rows \ Range(items) : Len(items) = Page /\ Newer(Last(items), h)

ListPage ==
  LET rows == {h \in History : Live(h) /\ (scan.cursor = None \/ Below(h, scan.cursor))} IN
  \E n \in 0..Page : \E items \in [1..n -> rows] :
    /\ "list" \in Acts /\ ~scan.done /\ FirstRows(items, rows)
    /\ scan' = [done |-> rows \subseteq Range(items),
                cursor |-> IF rows \subseteq Range(items) THEN None
                           ELSE [at |-> hist[Last(items)].at, id |-> Last(items)],
                seen |-> scan.seen \o items,
                start |-> IF scan.start = <<>> THEN hist ELSE scan.start]
    /\ UNCHANGED <<hist, turns, saved, lease, epoch, thread, view, told, now>>

(***************************************************************************)
(* The environment: time, and a process that dies and is started again.    *)
(***************************************************************************)
Tick ==
  /\ now < MaxTime /\ now' = now + 1
  /\ UNCHANGED <<hist, turns, saved, lease, epoch, thread, client, told>>

(* HistoryRuntime.__init__ gives up every accepted turn, all at one instant. *)
Restart ==
  /\ epoch < MaxLives /\ epoch' = epoch + 1
  /\ lease' = {} /\ thread' = [k \in Thread |-> IF thread[k].pc = "idle" THEN Idle ELSE Over]
  /\ turns' = Unconfirmed({t \in Turn : turns[t] # None /\ turns[t].status = "accepted"})
  /\ hist' = [h \in History |-> IF Live(h) /\ hist[h].active # None THEN GivenUp(h) ELSE hist[h]]
  /\ UNCHANGED <<saved, client, told, now>>

Next ==
  \/ Create
  \/ \E k \in Thread :
       \/ Submit(k) \/ Resume(k) \/ Requery(k) \/ ReadHeader(k) \/ Reserve(k)
       \/ Begin(k) \/ BeginRequery(k) \/ Work(k) \/ Finish(k) \/ Answer(k)
  \/ Reconcile \/ Look \/ RenameHistory \/ DeleteHistory \/ CopyResult \/ DeleteSaved
  \/ ListPage \/ Tick \/ Restart

Spec == Init /\ [][Next]_vars

-----------------------------------------------------------------------------
\* Types of the rows.
TypeOK ==
  /\ \A h \in History : hist[h] = None \/ (hist[h].kind \in Kinds /\ hist[h].active \in Turn \cup {None})
  /\ \A t \in Turn : turns[t] = None \/ turns[t].status \in Status
  /\ lease \subseteq History /\ epoch \in 1..MaxLives /\ now \in 0..MaxTime

(* A request repeated, after a lost answer too, gets the turn and the outcome it got before,
   or the success of the analysis it resumes; and every outcome told is the one that was
   kept.  (begin_attempt, begin_requery, resume_analysis) *)
AnswersStand ==
  \A a \in told :
    /\ turns[a.turn].status = a.status
    /\ \A b \in told : a.req = b.req =>
         a.turn = b.turn \/ (a.req.act = "resume" /\ "succeeded" \in {a.status, b.status})

(* A record revision names one content: whatever page holds the current revision has seen
   every turn and its outcome, so nothing unseen is deleted.  (rename_history, delete_history) *)
RevisionNamesContent ==
  view.of # None /\ AsRead(view.of) => view.content = Content(view.of)

(* The context revision counts the successes, commits reported as lost included; those of a
   question's history are a chain, each computed from the one before, and an analysis
   succeeds once.  (_begin, begin_analysis_attempt, finish_attempt) *)
SuccessesChain ==
  \A h \in History : Live(h) =>
    LET won == {t \in TurnsOf(h) : turns[t].status = "succeeded"} IN
    /\ hist[h].ctx = Cardinality(won)
    /\ hist[h].kind = "analysis" => Cardinality(won) <= 1
    /\ hist[h].kind = "query" => \A t \in won :
         LET before == {u \in won : u < t} IN
         IF before = {} THEN turns[t].base \notin won ELSE turns[t].base = Max(before)

HistoriesHold == TypeOK /\ AnswersStand /\ RevisionNamesContent /\ SuccessesChain

(* Paging shows nothing twice, and every history that was not touched meanwhile once,
   however the others are renamed, finished, deleted or given up.  (_list) *)
PagesComplete ==
  /\ \A i, j \in 1..Len(scan.seen) : scan.seen[i] = scan.seen[j] => i = j
  /\ scan.done => \A h \in History :
       scan.start[h] # None /\ scan.start[h] = hist[h] /\ ~hist[h].deleted => h \in Range(scan.seen)
=============================================================================
