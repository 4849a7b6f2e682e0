--------------------------- MODULE ExecutionEvents ---------------------------
(***************************************************************************)
(* How the pages that watch one execution learn what it does:              *)
(*                                                                         *)
(*   - the worker writes an ExecutionEventChannel: a current state, a      *)
(*     sequence number and a bounded ring of events                        *)
(*     (query_api/execution_events.py);                                    *)
(*   - every GET .../events subscribes and runs the SSE loop               *)
(*     (query_api/execution_api.py);                                       *)
(*   - every page reduces the frames to a state of its own and reconnects  *)
(*     when the connection ends (frontend/src/execution.ts,                *)
(*     executionStream.ts).                                                *)
(*                                                                         *)
(* Text is abstracted to sequences of characters, a character to the draft *)
(* generation it was written in, so that text of two model attempts can be *)
(* told apart.  Stage 0, total 0 and index 0 of a text field stand for     *)
(* null.                                                                   *)
(***************************************************************************)
EXTENDS Integers, Sequences, FiniteSets, SequencesExt

CONSTANTS
    Page,            \* calls of observeExecution
    Conn,            \* connections that can exist at the same time
    None,            \* Python None, TypeScript null
    TextField,       \* draft fields that hold a text
    ListField,       \* draft fields that hold a list of texts
    MaxItems,        \* bound: items of a list field
    MaxStage,        \* number of stages of this execution
    Total,           \* number of analysis tasks
    MaxEvents,       \* max_events of the ring
    MaxBytes,        \* max_bytes of the ring
    Overhead,        \* bytes of an event without its text
    MaxDelta,        \* _MAX_DELTA_BYTES
    MaxDraft,        \* _MAX_DRAFT_BYTES
    MaxSubscribers,  \* max_subscribers of the channel
    MaxText,         \* bound: characters per text_delta call
    MaxSequence,     \* bound: events before the terminal one
    MaxReset,        \* model retries of one report
    Outages,         \* bound: outages and restarts
    Happens,         \* bound: the events of the environment that may happen
    Outcome          \* bound: the statuses the execution may end with

Active == {"accepted", "running", "stopping"}
Confirmed == {"succeeded", "failed", "cancelled"}
Terminal == Confirmed \cup {"unconfirmed"}
Rank == [s \in Active \cup Terminal |->
            CASE s = "accepted" -> 0 [] s = "running" -> 1 [] s = "stopping" -> 2 [] OTHER -> 3]

Key == (TextField \X {0}) \cup (ListField \X (0..(MaxItems - 1)))
NoDraft == [k \in Key |-> <<>>]

\* What the channel holds, and a page shows.
StateType == [status : Active \cup Terminal, reason : {None, "user_cancelled"},
              stage : 0..MaxStage, done : 0..Total, total : {0, Total}, gen : 0..MaxReset,
              draft : [Key -> Seq(Nat)]]

\* What the constants must satisfy.
EventsAssumption ==
    /\ None \notin Page \cup Conn /\ None \notin [seq : Nat, st : StateType]
    /\ MaxItems \in Nat \ {0} /\ MaxStage \in Nat /\ Total \in Nat
    /\ MaxEvents \in Nat \ {0} /\ MaxSubscribers \in Nat \ {0}
    /\ Overhead \in Nat /\ MaxBytes \in Nat /\ Overhead + 1 <= MaxBytes
    /\ MaxDelta \in Nat \ {0} /\ MaxDraft \in Nat /\ MaxText \in Nat
    /\ Outcome \subseteq {"succeeded", "failed", "cancelled"}
    /\ MaxSequence \in Nat /\ MaxReset \in Nat /\ Outages \in Nat
    /\ Happens \subseteq {"stop", "revoke", "leave", "outage", "restart"}

VARIABLES
    row,      \* history_executions as the observers read it: status, stop reason
    ran,      \* the worker has marked the row as running
    chan,     \* "none", "open" (in _event_channels) or "dropped"
    seq,      \* _sequence
    state,    \* _state, with the draft's texts
    ring,     \* _ring
    subs,     \* _subscribers
    past,     \* history variable: past[n + 1] is the state after event n
    conn,     \* the server side of each connection
    wire,     \* frames sent on a connection and not read yet
    page,     \* observeExecution of each page
    revoked,  \* the account may not observe any more
    cut       \* connections cut so far

channel == <<chan, seq, state, ring, past>>
server == <<subs, conn>>
client == <<page, wire>>
vars == <<row, ran, chan, seq, state, ring, subs, past, conn, wire, page, revoked, cut>>

Done == state.status \in Terminal
-----------------------------------------------------------------------------
(***************************************************************************)
(* The channel.                                                            *)
(***************************************************************************)

InitialState == [status |-> "accepted", reason |-> None, stage |-> 0, done |-> 0,
                 total |-> 0, gen |-> 0, draft |-> NoDraft]

Size(e) == Overhead + (IF e.type = "text_delta" THEN Len(e.body.text) ELSE 0)
Bytes(r) == FoldLeft(LAMBDA n, e : n + Size(e), 0, r)
Fits(r) == Len(r) <= MaxEvents /\ Bytes(r) <= MaxBytes

\* popleft until the ring is within both limits.
Evict(r) ==
    LET start == CHOOSE i \in 1..Len(r) :
                    /\ Fits(SubSeq(r, i, Len(r)))
                    /\ \A j \in 1..(i - 1) : ~Fits(SubSeq(r, j, Len(r)))
    IN SubSeq(r, start, Len(r))

NoBody == <<>>
Event(n, g, type, body) == [seq |-> n, gen |-> g, type |-> type, body |-> body]

\* _append_locked of the events with these bodies; states are the states after
\* each of them.
Append_locked(type, bodies, states) ==
    LET g == Last(states).gen
        new == [i \in 1..Len(bodies) |-> Event(seq + i, g, type, bodies[i])]
    IN /\ seq' = seq + Len(bodies)
       /\ ring' = Evict(ring \o new)
       /\ state' = Last(states)
       /\ past' = past \o states

\* Every writer but finish is ignored by a terminal channel.
Writing == chan = "open" /\ ~Done /\ seq < MaxSequence

\* The business steps begin after the channel has shown "running".
Working == Writing /\ \E i \in 1..Len(past) : past[i].status = "running"

\* _snapshot_locked.
Snapshot == Event(seq, state.gen, "snapshot", state)
Newer(n) ==
    LET newer[i \in 0..Len(ring)] ==
            IF i = 0 THEN <<>>
            ELSE IF ring[i].seq > n THEN Append(newer[i - 1], ring[i]) ELSE newer[i - 1]
    IN newer[Len(ring)]

\* Mutant: evicted events go unnoticed.
ReadAfterBlindly(n) == Newer(n)

\* Mutant: a reader the ring has left behind gets nothing.
ReadAfterOrNothing(n) ==
    IF ring # <<>> /\ n < Head(ring).seq - 1 THEN <<>> ELSE Newer(n)

\* _read_after for a cursor at n: a snapshot when the ring has moved on, else the
\* newer events.
ReadAfter(n) ==
    IF ring # <<>> /\ n < Head(ring).seq - 1 THEN <<Snapshot>> ELSE Newer(n)
-----------------------------------------------------------------------------
(***************************************************************************)
(* The worker: persists a status, then shows it.                           *)
(***************************************************************************)

RowNext == [accepted |-> {"running", "stopping", "failed"},
            running  |-> {"stopping", "succeeded", "failed"},
            stopping |-> {"cancelled", "failed"}]

\* The transactions on the row, as ExecutionContract allows them.
Persist(s) ==
    /\ row.status \in Active /\ s \in RowNext[row.status]
    /\ s \in {"running"} \cup Outcome \/ (s = "stopping" /\ "stop" \in Happens)
    /\ chan = "open" \/ (chan = "none" /\ s = "stopping")
    /\ row' = [status |-> s, reason |-> IF s = "stopping" THEN "user_cancelled" ELSE row.reason]
    /\ ran' = (ran \/ s = "running")
    /\ UNCHANGED <<channel, server, client, revoked, cut>>

\* Reading the history of an execution nobody runs any more gives it up.
Reconcile ==
    /\ row.status \in Active /\ chan = "dropped"
    /\ row' = [row EXCEPT !.status = "unconfirmed"]
    /\ UNCHANGED <<ran, channel, server, client, revoked, cut>>

\* attach_progress.
Attach ==
    /\ chan = "none"
    /\ chan' = "open"
    /\ UNCHANGED <<row, ran, seq, state, ring, past, server, client, revoked, cut>>

\* set_status: refuses to go back.  The worker shows "running" once, the stop
\* control "stopping" once.
SetStatus(s) ==
    /\ Writing
    /\ IF s = "running" THEN ran ELSE row.reason # None
    /\ Rank[s] > Rank[state.status]
    /\ LET body == IF s = "running" THEN [status |-> s]
                   ELSE [status |-> s, reason |-> row.reason]
       IN Append_locked("progress", <<body>>,
             <<[state EXCEPT !.status = s,
                             !.reason = IF s = "running" THEN @ ELSE row.reason]>>)
    /\ UNCHANGED <<row, ran, chan, server, client, revoked, cut>>

ProgressBody(st) == [stage |-> st.stage, done |-> st.done, total |-> st.total]

\* set_stage; its callers, the business steps, come in the order of their stages.
SetStage(n) ==
    /\ Working
    /\ n >= state.stage
    /\ LET st == [state EXCEPT !.stage = n]
       IN Append_locked("progress", <<ProgressBody(st)>>, <<st>>)
    /\ UNCHANGED <<row, ran, chan, server, client, revoked, cut>>

\* set_task_progress: completed tasks of the plan's total.
SetTaskProgress(n) ==
    /\ Working
    /\ n \in state.done..Total
    /\ Total > 0
    /\ LET st == [state EXCEPT !.done = n, !.total = Total]
       IN Append_locked("progress", <<ProgressBody(st)>>, <<st>>)
    /\ UNCHANGED <<row, ran, chan, server, client, revoked, cut>>

\* The chunk limit is halved until every event of a text of n characters fits.
ChunkLimit(n) ==
    LET fits(c) == Overhead + (IF c < n THEN c ELSE n) <= MaxBytes
        limit[c \in 0..MaxDelta] == IF c <= 1 \/ fits(c) THEN c ELSE limit[c \div 2]
    IN limit[IF MaxDelta < MaxBytes THEN MaxDelta ELSE MaxBytes]

Items(d, f) == Cardinality({i \in 0..(MaxItems - 1) : d[<<f, i>>] # <<>>})
DraftBytes == MapThenSumSet(LAMBDA k : Len(state.draft[k]), Key)

\* text_delta at the end of the text of key k, n characters long: one event per
\* chunk, all under one lock.
TextDelta(k, n) ==
    LET c == ChunkLimit(n)
        size(i) == IF i * c < n THEN c ELSE n - (i - 1) * c
        text(m) == [i \in 1..m |-> state.gen]
        offset(i) == Len(state.draft[k]) + (i - 1) * c
        chunks == 1..((n + c - 1) \div c)
    IN /\ Working
       /\ k[1] \in ListField => k[2] <= Items(state.draft, k[1])
       /\ DraftBytes + n <= MaxDraft
       /\ Append_locked("text_delta",
             [i \in chunks |-> [key |-> k, offset |-> offset(i), text |-> text(size(i))]],
             [i \in chunks |-> [state EXCEPT !.draft[k] = @ \o text((i - 1) * c + size(i))]])
       /\ UNCHANGED <<row, ran, chan, server, client, revoked, cut>>

\* Mutant: the text of the failed attempt stays in the channel's draft.
ResetKeepingDraft ==
    /\ Working
    /\ state.gen < MaxReset
    /\ Append_locked("draft_reset", <<NoBody>>, <<[state EXCEPT !.gen = @ + 1]>>)
    /\ UNCHANGED <<row, ran, chan, server, client, revoked, cut>>

\* reset("model_retry"): the report is written again from the start.
Reset ==
    /\ Working
    /\ state.gen < MaxReset
    /\ Append_locked("draft_reset", <<NoBody>>,
          <<[state EXCEPT !.gen = @ + 1, !.draft = NoDraft]>>)
    /\ UNCHANGED <<row, ran, chan, server, client, revoked, cut>>

\* Mutant: the outcome is shown before it is saved.
FinishUnsaved(s) ==
    /\ chan = "open" /\ ~Done
    /\ s \in Terminal
    /\ Append_locked("terminal", <<[status |-> s]>>,
          <<[state EXCEPT !.status = s, !.draft = NoDraft]>>)
    /\ UNCHANGED <<row, ran, chan, server, client, revoked, cut>>

\* finish: with the persisted outcome, or "unconfirmed" when it could not be read
\* or the lease is released with nothing said.
Finish(s) ==
    /\ chan = "open" /\ ~Done
    /\ s \in Terminal /\ s \in {row.status, "unconfirmed"}
    /\ Append_locked("terminal", <<[status |-> s]>>,
          <<[state EXCEPT !.status = s, !.draft = NoDraft]>>)
    /\ UNCHANGED <<row, ran, chan, server, client, revoked, cut>>

\* _release_event_channel: a finished channel leaves the registry; its subscribers
\* keep it.
DropChannel ==
    /\ chan = "open" /\ Done
    /\ chan' = "dropped"
    /\ UNCHANGED <<row, ran, seq, state, ring, past, server, client, revoked, cut>>
-----------------------------------------------------------------------------
(***************************************************************************)
(* The server side of a connection: subscribe, then the SSE loop.          *)
(***************************************************************************)

FreeConn == [pc |-> "free", live |-> FALSE, first |-> TRUE, view |-> None, cursor |-> 0,
             queue |-> <<>>, gone |-> FALSE, late |-> 0]

\* _persisted_snapshot of the row read before subscribing.
PersistedSnapshot(view) ==
    Event(0, 0, "snapshot", [InitialState EXCEPT !.status = view.status, !.reason = view.reason])
AuthLost == Event(0, 0, "auth_lost", NoBody)

Deliver(c, e) == wire' = [wire EXCEPT ![c] = IF conn[c].gone THEN @ ELSE Append(@, e)]

CanSubscribe == subs < MaxSubscribers

\* ExecutionApplication.subscribe after the row was read: the channel's snapshot
\* and a cursor at it, taken under one lock, or the row's snapshot when no channel
\* is registered; too many subscribers get 429.
Subscribe(c) ==
    /\ conn[c].pc = "view"
    /\ IF chan # "open"
       THEN /\ conn' = [conn EXCEPT ![c].pc = "check",
                                    ![c].view = None,
                                    ![c].queue = <<PersistedSnapshot(conn[c].view)>>]
            /\ UNCHANGED subs
       ELSE IF CanSubscribe
       THEN /\ conn' = [conn EXCEPT ![c].pc = "check", ![c].live = TRUE,
                                    ![c].view = None, ![c].queue = <<Snapshot>>, ![c].cursor = seq]
            /\ subs' = subs + 1
       ELSE /\ conn' = [conn EXCEPT ![c].pc = "closing", ![c].view = None]
            /\ UNCHANGED subs
    /\ UNCHANGED <<row, ran, channel, client, revoked, cut>>

\* authorized_now before a frame.
Check(c) ==
    /\ conn[c].pc = "check"
    /\ IF revoked
       THEN /\ Deliver(c, AuthLost)
            /\ conn' = [conn EXCEPT ![c].pc = "closing", ![c].queue = <<>>]
       ELSE conn' = [conn EXCEPT ![c].pc = "send"] /\ UNCHANGED wire
    /\ UNCHANGED <<row, ran, channel, subs, page, revoked, cut>>

\* The frame after which stream() returns.
EndsStream(c, e) ==
    \/ ~conn[c].live
    \/ conn[c].first /\ e.body.status \in Terminal
    \/ e.type = "terminal"

\* Mutant: one authorization covers all events of a read.
SendBatch(c) ==
    LET e == Head(conn[c].queue) IN
    /\ conn[c].pc = "send"
    /\ Deliver(c, e)
    /\ conn' = [conn EXCEPT ![c].queue = Tail(@), ![c].first = FALSE,
                            ![c].late = IF revoked THEN @ + 1 ELSE @,
                            ![c].pc = IF EndsStream(c, e) THEN "closing"
                                      ELSE IF Tail(conn[c].queue) = <<>> THEN "loop" ELSE "send"]
    /\ UNCHANGED <<row, ran, channel, subs, page, revoked, cut>>

\* yield encode_sse(event).
Send(c) ==
    LET e == Head(conn[c].queue) IN
    /\ conn[c].pc = "send"
    /\ Deliver(c, e)
    /\ conn' = [conn EXCEPT ![c].queue = Tail(@), ![c].first = FALSE,
                            ![c].late = IF revoked THEN @ + 1 ELSE @,
                            ![c].pc = IF EndsStream(c, e) THEN "closing"
                                      ELSE IF Tail(conn[c].queue) = <<>> THEN "loop" ELSE "check"]
    /\ UNCHANGED <<row, ran, channel, subs, page, revoked, cut>>

\* while not await request.is_disconnected().
Loop(c) ==
    /\ conn[c].pc = "loop"
    /\ conn' = [conn EXCEPT ![c].pc = IF conn[c].gone THEN "closing" ELSE "read"]
    /\ UNCHANGED <<row, ran, channel, subs, client, revoked, cut>>

\* subscription.read returns events.
Read(c) ==
    LET es == ReadAfter(conn[c].cursor) IN
    /\ conn[c].pc = "read"
    /\ es # <<>>
    /\ conn' = [conn EXCEPT ![c].pc = "check", ![c].queue = es, ![c].cursor = Last(es).seq]
    /\ UNCHANGED <<row, ran, channel, subs, client, revoked, cut>>

\* subscription.read times out, or the channel is terminal and has nothing newer:
\* a heartbeat, if still authorized.
Heartbeat(c) ==
    /\ conn[c].pc = "read"
    /\ ReadAfter(conn[c].cursor) = <<>>
    /\ IF revoked
       THEN Deliver(c, AuthLost) /\ conn' = [conn EXCEPT ![c].pc = "closing"]
       ELSE UNCHANGED wire /\ conn' = [conn EXCEPT ![c].pc = "loop"]
    /\ UNCHANGED <<row, ran, channel, subs, page, revoked, cut>>

\* The finally clause of stream(): subscription.close.
Close(c) ==
    /\ conn[c].pc = "closing"
    /\ subs' = IF conn[c].live THEN subs - 1 ELSE subs
    /\ conn' = [conn EXCEPT ![c] = IF conn[c].gone THEN FreeConn
                                   ELSE [@ EXCEPT !.pc = "closed", !.live = FALSE]]
    /\ UNCHANGED <<row, ran, channel, client, revoked, cut>>
-----------------------------------------------------------------------------
(***************************************************************************)
(* The page: reduceExecutionEvent and the loop of observeExecution.        *)
(***************************************************************************)

\* What the reducer answers: a new state, the old one, or "fetch a snapshot".
Accept(st) == [state |-> st, again |-> FALSE]
Keep(cur) == [state |-> cur, again |-> FALSE]
Again(cur) == [state |-> cur, again |-> TRUE]

\* Status, stage or task counters that go back.
Regresses(old, new) ==
    \/ Rank[new.status] < Rank[old.status]
    \/ new.stage < old.stage
    \/ new.done < old.done
    \/ old.total # 0 /\ new.total # old.total

\* A snapshot replaces an older state; a persisted outcome, whose sequence is 0,
\* only replaces the status.
ReduceSnapshot(cur, e) ==
    LET new == e.body
        ends == new.status \in Terminal /\ cur.st.status \notin Terminal
        denies == cur.st.status \in Terminal /\ new.status # cur.st.status
    IN IF cur = None THEN Accept([seq |-> e.seq, st |-> new])
       ELSE IF e.gen < cur.st.gen \/ e.seq = cur.seq THEN Keep(cur)
       ELSE IF e.seq < cur.seq
       THEN IF ends THEN Accept([cur EXCEPT !.st.status = new.status, !.st.reason = new.reason])
            ELSE IF denies THEN Again(cur) ELSE Keep(cur)
       ELSE IF denies \/ (e.gen = cur.st.gen /\ Regresses(cur.st, new)) THEN Again(cur)
       ELSE Accept([seq |-> e.seq, st |-> new])

\* A field of the payload, or the value the page has.
Or(body, f, default) == IF f \in DOMAIN body THEN body[f] ELSE default

\* A text_delta that continues the page's text.
Continues(draft, b) ==
    /\ b.key[1] \in ListField => b.key[2] <= Items(draft, b.key[1])
    /\ Len(draft[b.key]) = b.offset

\* Every other event must be the next one and go forward.
ReduceIncrement(cur, e) ==
    LET b == e.body
        draft == CASE e.type \in {"draft_reset", "terminal"} -> NoDraft
                   [] e.type = "text_delta" -> [cur.st.draft EXCEPT ![b.key] = @ \o b.text]
                   [] OTHER -> cur.st.draft
        new == [status |-> Or(b, "status", cur.st.status), reason |-> Or(b, "reason", cur.st.reason),
                stage |-> Or(b, "stage", cur.st.stage), done |-> Or(b, "done", cur.st.done),
                total |-> Or(b, "total", cur.st.total), gen |-> e.gen, draft |-> draft]
    IN IF cur = None THEN Again(cur)
       ELSE IF e.seq <= cur.seq THEN Keep(cur)
       ELSE IF \/ e.seq # cur.seq + 1
               \/ cur.st.status \in Terminal
               \/ e.gen # cur.st.gen + (IF e.type = "draft_reset" THEN 1 ELSE 0)
               \/ Regresses(cur.st, new)
               \/ new.total # 0 /\ new.done > new.total
               \/ e.type = "text_delta" /\ ~Continues(cur.st.draft, b)
       THEN Again(cur)
       ELSE Accept([seq |-> e.seq, st |-> new])

Reduce(cur, e) == IF e.type = "snapshot" THEN ReduceSnapshot(cur, e) ELSE ReduceIncrement(cur, e)

\* The page lets go of its connection; the server notices later.
Drop(c) ==
    /\ conn' = [conn EXCEPT ![c] = IF @.pc = "closed" THEN FreeConn ELSE [@ EXCEPT !.gone = TRUE]]
    /\ wire' = [wire EXCEPT ![c] = <<>>]

GoPage(p, pc) == page' = [page EXCEPT ![p].pc = pc, ![p].conn = None]

\* GET .../events: get() authorizes and reads the row; 403 ends the observation.
Connect(p, c) ==
    /\ page[p].pc = "connecting" /\ conn[c] = FreeConn
    /\ IF revoked
       THEN GoPage(p, "denied") /\ UNCHANGED conn
       ELSE /\ page' = [page EXCEPT ![p].pc = "observing", ![p].conn = c]
            /\ conn' = [conn EXCEPT ![c].pc = "view", ![c].view = row]
    /\ UNCHANGED <<row, ran, channel, subs, wire, revoked, cut>>

\* One frame is read and reduced: the observation ends, starts again or goes on.
Receive(p) ==
    LET c == page[p].conn
        e == Head(wire[c])
        r == Reduce(page[p].state, e)
        ended == r.state # None /\ r.state.st.status \in Terminal
    IN /\ page[p].pc = "observing" /\ wire[c] # <<>>
       /\ IF e.type = "auth_lost" THEN Drop(c) /\ GoPage(p, "denied")
          ELSE IF r.again THEN Drop(c) /\ GoPage(p, "connecting")
          ELSE IF ended
          THEN /\ Drop(c)
               /\ page' = [page EXCEPT ![p] = [pc |-> "done", conn |-> None, state |-> r.state]]
          ELSE /\ page' = [page EXCEPT ![p].state = r.state]
               /\ wire' = [wire EXCEPT ![c] = Tail(@)]
               /\ UNCHANGED conn
       /\ UNCHANGED <<row, ran, channel, subs, revoked, cut>>

\* The stream ends with no outcome: onDisconnect, backoff, again.
EndOfStream(p) ==
    LET c == page[p].conn IN
    /\ page[p].pc = "observing" /\ wire[c] = <<>> /\ conn[c].pc = "closed"
    /\ Drop(c) /\ GoPage(p, "connecting")
    /\ UNCHANGED <<row, ran, channel, subs, revoked, cut>>

\* The network cuts a connection, with whatever was on its way.
Outage(p) ==
    /\ "outage" \in Happens
    /\ page[p].pc = "observing" /\ cut < Outages
    /\ cut' = cut + 1
    /\ Drop(page[p].conn) /\ GoPage(p, "connecting")
    /\ UNCHANGED <<row, ran, channel, subs, revoked>>

\* The user leaves the page: signal.abort().
Leave(p) ==
    /\ "leave" \in Happens
    /\ page[p].pc \in {"connecting", "observing"}
    /\ IF page[p].conn = None THEN UNCHANGED <<conn, wire>> ELSE Drop(page[p].conn)
    /\ GoPage(p, "left")
    /\ UNCHANGED <<row, ran, channel, subs, revoked, cut>>
-----------------------------------------------------------------------------
\* The account loses its session or its permission.
Revoke ==
    /\ "revoke" \in Happens
    /\ ~revoked /\ revoked' = TRUE
    /\ UNCHANGED <<row, ran, channel, server, client, cut>>

\* The API process dies and its successor gives the execution up.
Restart ==
    /\ "restart" \in Happens
    /\ chan # "dropped" /\ cut < Outages
    /\ cut' = cut + 1
    /\ chan' = "dropped"
    /\ row' = IF row.status \in Active THEN [row EXCEPT !.status = "unconfirmed"] ELSE row
    /\ subs' = 0
    /\ conn' = [c \in Conn |-> FreeConn]
    /\ wire' = [c \in Conn |-> <<>>]
    /\ page' = [p \in Page |-> IF page[p].pc = "observing"
                               THEN [page[p] EXCEPT !.pc = "connecting", !.conn = None]
                               ELSE page[p]]
    /\ UNCHANGED <<ran, seq, state, ring, past, revoked>>

Ended(p) == page[p].pc \in {"done", "denied", "left"}

AtRest ==
    /\ \A p \in Page : Ended(p)
    /\ \A c \in Conn : conn[c] = FreeConn
    /\ UNCHANGED vars

Init ==
    /\ row = [status |-> "accepted", reason |-> None]
    /\ ran = FALSE
    /\ chan = "none"
    /\ seq = 0
    /\ state = InitialState
    /\ ring = <<>>
    /\ subs = 0
    /\ past = <<InitialState>>
    /\ conn = [c \in Conn |-> FreeConn]
    /\ wire = [c \in Conn |-> <<>>]
    /\ page = [p \in Page |-> [pc |-> "connecting", conn |-> None, state |-> None]]
    /\ revoked = FALSE
    /\ cut = 0

Conclude == (\E s \in Terminal : Finish(s)) \/ DropChannel

Worker ==
    \/ \E s \in Active \cup Confirmed : Persist(s)
    \/ Attach
    \/ \E s \in {"running", "stopping"} : SetStatus(s)
    \/ \E n \in 1..MaxStage : SetStage(n)
    \/ \E n \in 0..Total : SetTaskProgress(n)
    \/ \E k \in Key, n \in 1..MaxText : TextDelta(k, n)
    \/ Reset
    \/ Conclude

Stream(c) ==
    Subscribe(c) \/ Check(c) \/ Send(c) \/ Loop(c) \/ Read(c) \/ Heartbeat(c) \/ Close(c)

Observe(p) == (\E c \in Conn : Connect(p, c)) \/ Receive(p) \/ EndOfStream(p)

Next ==
    \/ Worker
    \/ Reconcile \/ Revoke \/ Restart
    \/ \E c \in Conn : Stream(c)
    \/ \E p \in Page : Observe(p) \/ Outage(p) \/ Leave(p)
    \/ AtRest

Spec == Init /\ [][Next]_vars

(***************************************************************************)
(* The worker concludes what it has begun, the server runs its streams,    *)
(* the page reads and reconnects.  Nothing makes the worker write, the     *)
(* user leave or a connection break.                                       *)
(***************************************************************************)
FairSpec ==
    /\ Spec
    /\ WF_vars(Conclude) /\ WF_vars(Reconcile)
    /\ \A c \in Conn : WF_vars(Stream(c))
    /\ \A p \in Page : WF_vars(Observe(p))
-----------------------------------------------------------------------------
(***************************************************************************)
(* Properties.                                                             *)
(***************************************************************************)

\* Every variable has its type, and the ring is within its limits and ends with
\* the newest event.
TypeOK ==
    /\ row.status \in Active \cup Terminal /\ ran \in BOOLEAN /\ revoked \in BOOLEAN
    /\ chan \in {"none", "open", "dropped"}
    /\ state \in StateType
    /\ \A i \in 1..Len(past) : past[i] \in StateType
    /\ Len(past) = seq + 1 /\ Last(past) = state
    /\ Fits(ring)
    /\ \A i \in 1..Len(ring) : ring[i].seq = seq - Len(ring) + i
    /\ subs \in 0..MaxSubscribers
    /\ \A c \in Conn : conn[c].pc \in {"free", "view", "check", "send", "loop", "read",
                                       "closing", "closed"}
    /\ \A p \in Page : page[p].pc \in {"connecting", "observing", "done", "denied", "left"}
    /\ cut \in 0..Outages

\* What a page shows at sequence n is what the channel held after event n: stage,
\* counters, generation and draft, character by character, whatever was evicted,
\* cut or fetched again.  Only a persisted status may be ahead of it.
PageMirrorsChannel ==
    \A p \in Page : page[p].state # None =>
        LET s == page[p].state IN
        /\ s.seq \in 0..seq
        /\ LET then == past[s.seq + 1] IN
           /\ s.st = [then EXCEPT !.status = s.st.status, !.reason = s.st.reason]
           /\ s.st.status # then.status => (s.seq = 0 \/ s.st.status \in Terminal)

\* A page that shows a definite outcome shows the persisted one.
ShownOutcomeIsPersisted ==
    \A p \in Page : page[p].state # None =>
        (page[p].state.st.status \in Confirmed => page[p].state.st.status = row.status)

\* The reducer's defences never have to act: no frame the server sends next is
\* out of order, leaves a gap or goes back, across evictions and reconnections.
ReducerNeverRefuses ==
    \A p \in Page : page[p].pc = "observing" =>
        LET w == wire[page[p].conn] IN
        (w # <<>> /\ Head(w).type # "auth_lost") => ~Reduce(page[p].state, Head(w)).again

\* _subscribers counts the streams that hold a subscription, and respects its limit,
\* so no close finds it at zero.
SubscribersCounted ==
    /\ subs = Cardinality({c \in Conn : conn[c].live})
    /\ subs <= MaxSubscribers

\* After the account lost its rights a stream sends at most the one frame it was
\* already authorized for.
AtMostOneFrameLate == \A c \in Conn : conn[c].late <= 1

\* A page in this state ignores a persisted snapshot, the outcome included: it has
\* seen nothing but sequence 0, or a later draft generation than 0.
Deaf(p) == page[p].state # None /\ (page[p].state.seq = 0 \/ page[p].state.st.gen > 0)

\* A persisted outcome reaches every page that stays, unless the page is and stays
\* deaf to it.
OutcomeReachesPage ==
    \A p \in Page : row.status \in Terminal ~> (Ended(p) \/ []Deaf(p))

\* The subscription of a client that is gone is given back.
SubscriptionReleased == \A c \in Conn : conn[c].gone ~> ~conn[c].gone

\* The design document: an outcome can be recovered from a snapshot after any
\* disconnection, so every page that stays learns it.
OutcomeReachesEveryPage == \A p \in Page : row.status \in Terminal ~> Ended(p)
=============================================================================
