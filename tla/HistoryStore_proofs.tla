------------------------- MODULE HistoryStore_proofs -------------------------
(***************************************************************************)
(* Theorems about HistoryStore, for any number of histories, turns,        *)
(* requests, results, pages and starts of the process.                     *)
(*                                                                         *)
(* HistoryInv says what each row owes the others: the turns of a history   *)
(* chain by their successes (Chains), a request made one turn and that     *)
(* turn can be found again (Hashes), a thread holds the turn it was given  *)
(* (Callers), what was told is still in the row (AnswersKept), what a page *)
(* has read is what its revision names (Viewed), and the rows of a list    *)
(* that was begun are where its cursor expects them (Scanned).  Most       *)
(* actions only add or go forward (Onward), which keeps all of it at once. *)
(***************************************************************************)
EXTENDS HistoryStore, SequenceTheorems, FiniteSetTheorems, WellFoundedInduction, TLAPS

\* The turns of a history that succeeded.
Concluded == {"succeeded", "failed"}
Won(h) == {t \in TurnsOf(h) : turns[t].status = "succeeded"}

\* Rows are of their time; turns are numbered as they come, and an accepted turn is the
\* active one of its history.
HistoryRows ==
  /\ hist \in [History -> HistoryRow \cup {None}]
  /\ \A h \in History : hist[h] # None => hist[h].at <= now
TurnRows ==
  /\ turns \in [Turn -> TurnRow \cup {None}]
  /\ \A t \in Turn : turns[t] # None =>
       /\ turns[t].op = turns[t].hash.op
       /\ turns[t].of # None => hist[turns[t].of] # None
       /\ turns[t].base # None => turns[turns[t].base] # None
       /\ turns[t].status = "accepted" =>
            turns[t].of # None /\ Live(turns[t].of) /\ hist[turns[t].of].active = t
  /\ \A t, u \in Turn : u < t /\ turns[t] # None => turns[u] # None

(* The active turn is the newest of its history and goes on from the last success. *)
ActiveTurn(h) ==
  LET t == hist[h].active IN
  /\ t \in TurnsOf(h) /\ turns[t].status = "accepted"
  /\ \A u \in TurnsOf(h) : u <= t
  /\ hist[h].kind = "analysis" => hist[h].last = None
  /\ hist[h].kind = "query" =>
       IF hist[h].last = None THEN turns[t].base \notin TurnsOf(h) ELSE turns[t].base = hist[h].last

\* Turn t of h succeeded first, or goes on from the success before.
Follows(t, h) ==
  \/ turns[t].base \notin TurnsOf(h) /\ \A u \in Won(h) : t <= u
  \/ turns[t].base \in Won(h) /\ turns[t].base < t /\ \A u \in Won(h) : u < t => u <= turns[t].base

Chained(h) ==
  /\ hist[h].active # None => ActiveTurn(h)
  /\ hist[h].ctx = Cardinality(Won(h))
  /\ IF hist[h].last = None THEN Won(h) = {}
     ELSE hist[h].last \in Won(h) /\ \A u \in Won(h) : u <= hist[h].last
  /\ hist[h].kind = "analysis" => \A t, u \in Won(h) : t = u
  /\ hist[h].kind = "query" => \A t \in Won(h) : Follows(t, h)
Chains == \A h \in History : Live(h) => Chained(h)

(* A request makes one turn: that of a question or of a resumed analysis stays in the history
   it asked for until that is deleted, that of a requery left a history with its operation id. *)
AskedBy(t) ==
  LET r == turns[t].hash IN
  IF r.act \in {"submit", "resume"}
  THEN r.of \in History /\ hist[r.of] # None /\ (turns[t].of = r.of \/ hist[r.of].deleted)
  ELSE \E h \in History : hist[h] # None /\ hist[h].op = r.op
Hashes ==
  /\ \A t \in Turn : turns[t] # None => AskedBy(t)
  /\ \A t, u \in Turn : turns[t] # None /\ turns[u] # None /\ turns[t].hash = turns[u].hash => t = u

SavedRows ==
  /\ saved \subseteq [turn : Turn, kind : Kinds, base : Turn \cup {None}]
  /\ \A s \in saved : turns[s.turn] # None

(* The requests: before their turn is accepted and after. *)
PendingPc == {"header", "reserve", "begin"}
HoldingPc == {"work", "finish", "answer", "release"}
Asks(r, pc) ==
  /\ r \in Request
  /\ r.act = "submit" => r.of \in History /\ hist[r.of] # None /\ hist[r.of].kind = "query"
  /\ r.act = "resume" =>
       /\ r.of \in History /\ hist[r.of] # None /\ hist[r.of].kind = "analysis"
       /\ r.rev <= hist[r.of].rev
       /\ pc # "header" /\ r.rev = hist[r.of].rev /\ Live(r.of) => hist[r.of].last = None
  /\ r.act \in {"requery", "requery saved"} => r.of \in Turn /\ turns[r.of] # None
  /\ pc = "header" => r.act = "resume"
HoldsTurn(c) ==
  /\ c.turn \in Turn /\ turns[c.turn] # None /\ turns[c.turn].hash = c.req /\ c.of \in History
  /\ c.pc \in {"finish", "answer"} => c.result \in Concluded
  /\ c.pc = "answer" => turns[c.turn].status = c.result
CallerFits(c) ==
  /\ c.pc \in PendingPc => Asks(c.req, c.pc)
  /\ c.pc \in HoldingPc => HoldsTurn(c)
Caller ==
  [pc : {"idle", "over"} \cup PendingPc \cup HoldingPc, req : Request \cup {None}, of : History \cup {None},
   turn : Turn \cup {None}, gen : Nat, result : Status \cup {None}]
Callers == thread \in [Thread -> Caller] /\ \A k \in Thread : CallerFits(thread[k])

(* What was told is kept, by the turn of the request or by the success it would repeat. *)
Told(a) ==
  /\ a.turn \in Turn /\ turns[a.turn] # None /\ turns[a.turn].status = a.status /\ a.status \in Concluded
  /\ turns[a.turn].hash = a.req \/ (a.req.act = "resume" /\ a.status = "succeeded")
AnswersKept == \A a \in told : Told(a)

(* The page has seen what the revision it holds names. *)
Viewed ==
  view.of # None =>
    /\ view.of \in History /\ hist[view.of] # None /\ view.rev \in 0..hist[view.of].rev
    /\ AsRead(view.of) => view.content = Content(view.of)

HistoryWorld == lease \subseteq History /\ epoch \in 1..MaxLives /\ now \in 0..MaxTime

(* What the list has shown is not below its cursor, and what it has not shown and nobody
   touched is. *)
Seen ==
  /\ scan.done \in BOOLEAN /\ scan.seen \in Seq(History)
  /\ scan.start \in [History -> HistoryRow \cup {None}]
  /\ ~scan.done => scan.cursor \in Cursor
  /\ \A i, j \in 1..Len(scan.seen) : i # j => scan.seen[i] # scan.seen[j]
  /\ \A i \in 1..Len(scan.seen) :
       hist[scan.seen[i]] # None /\ (~scan.done => ~Below(scan.seen[i], scan.cursor))
  /\ \A h \in History : scan.start[h] # None =>
       /\ hist[h] # None /\ scan.start[h].rev <= hist[h].rev
       /\ scan.start[h] = hist[h] /\ ~hist[h].deleted =>
            \/ \E i \in 1..Len(scan.seen) : scan.seen[i] = h
            \/ ~scan.done /\ Below(h, scan.cursor)
Scanned == scan = NoScan \/ Seen

(* The inductive invariant. *)
HistoryInv ==
  /\ StoreAssumption /\ HistoryRows /\ TurnRows /\ Chains /\ Hashes /\ SavedRows /\ Callers
  /\ AnswersKept /\ Viewed /\ HistoryWorld /\ Scanned

-----------------------------------------------------------------------------
\* Rows have their fields.
LEMMA HistoryFields ==
  ASSUME StoreAssumption, NEW r \in HistoryRow
  PROVE  /\ r # None /\ r.rev \in Nat /\ r.at \in Nat /\ r.gen \in Nat /\ r.ctx \in Nat /\ r.title \in Nat
         /\ r.active \in Turn \cup {None} /\ r.last \in Turn \cup {None} /\ r.deleted \in BOOLEAN
         /\ r.kind \in Kinds /\ r.op \in Op \cup {None}
  BY DEF HistoryRow, StoreAssumption

LEMMA TurnFields ==
  ASSUME StoreAssumption, NEW r \in TurnRow
  PROVE  /\ r # None /\ r.of \in History \cup {None} /\ r.op \in Op /\ r.hash \in Request
         /\ r.status \in Status /\ r.base \in Turn \cup {None}
  BY DEF TurnRow, StoreAssumption

LEMMA Numbers == StoreAssumption => Turn \in SUBSET Nat /\ History \in SUBSET Nat /\ None \notin Turn /\ None \notin History
  BY DEF StoreAssumption, Turn, History

LEMMA KindsAre == StoreAssumption => Kinds \subseteq {"query", "analysis"}
  BY DEF StoreAssumption, Kinds, Range

\* Successes are finitely many.
LEMMA WonFinite == ASSUME StoreAssumption, NEW h PROVE IsFiniteSet(Won(h)) /\ Won(h) \subseteq Turn
<1>1. IsFiniteSet(Turn) BY FS_Interval DEF StoreAssumption, Turn
<1>2. Won(h) \subseteq Turn BY DEF Won, TurnsOf
<1> QED BY <1>1, <1>2, FS_Subset

-----------------------------------------------------------------------------
(***************************************************************************)
(* What every transaction leaves: rows persist under their kind and their  *)
(* operation id, a row that changes gets a higher revision, a turn that is *)
(* settled stays settled, and a turn leaves its history only when that is  *)
(* deleted.                                                                *)
(***************************************************************************)
RowGoesOn(h) ==
  hist[h] # None =>
    /\ hist'[h] # None /\ hist'[h].kind = hist[h].kind /\ hist'[h].op = hist[h].op
    /\ hist'[h].at >= hist[h].at /\ (hist[h].deleted => hist'[h].deleted)
    /\ \/ hist'[h].rev > hist[h].rev
       \/ /\ hist'[h] = hist[h] /\ TurnsOf(h)' = TurnsOf(h)
          /\ \A t \in TurnsOf(h) : turns'[t].status = turns[t].status
TurnGoesOn(t) ==
  turns[t] # None =>
    /\ turns'[t] # None /\ turns'[t].hash = turns[t].hash
    /\ turns[t].status # "accepted" => turns'[t].status = turns[t].status
    /\ turns'[t].of = turns[t].of \/ (turns[t].of \in History /\ hist'[turns[t].of].deleted)
Onward == (\A h \in History : RowGoesOn(h)) /\ (\A t \in Turn : TurnGoesOn(t))

LEMMA RowTyped ==
  ASSUME HistoryRows, StoreAssumption, NEW h \in History, hist[h] # None
  PROVE  hist[h] \in HistoryRow /\ hist[h].rev \in Nat /\ hist[h].at \in Nat /\ hist[h].deleted \in BOOLEAN
         /\ hist[h].kind \in Kinds /\ hist[h].active \in Turn \cup {None} /\ hist[h].last \in Turn \cup {None}
         /\ hist[h].ctx \in Nat /\ hist[h].gen \in Nat /\ hist[h].op \in Op \cup {None} /\ hist[h].title \in Nat
<1>1. hist[h] \in HistoryRow BY DEF HistoryRows
<1> QED BY <1>1, HistoryFields

LEMMA TurnTyped ==
  ASSUME TurnRows, StoreAssumption, NEW t \in Turn, turns[t] # None
  PROVE  turns[t] \in TurnRow /\ turns[t].of \in History \cup {None} /\ turns[t].op \in Op
         /\ turns[t].hash \in Request /\ turns[t].status \in Status /\ turns[t].base \in Turn \cup {None}
<1>1. turns[t] \in TurnRow BY DEF TurnRows
<1> QED BY <1>1, TurnFields

\* Answers, kept results, what the page read.
LEMMA AnswersGoOn ==
  ASSUME AnswersKept, Onward, \A a \in told' : a \in told \/ Told(a)'
  PROVE  AnswersKept'
<1> SUFFICES ASSUME NEW a \in told' PROVE Told(a)'
  BY DEF AnswersKept
<1>1. CASE Told(a)' BY <1>1
<1>2. CASE a \in told
  <2>1. Told(a) BY <1>2 DEF AnswersKept
  <2>2. TurnGoesOn(a.turn) BY <2>1 DEF Onward, Told
  <2> QED BY <2>1, <2>2 DEF Told, TurnGoesOn, Concluded
<1> QED BY <1>1, <1>2

LEMMA SavedGoOn ==
  ASSUME SavedRows, Onward, saved' \subseteq saved
  PROVE  SavedRows'
  BY DEF SavedRows, Onward, TurnGoesOn

LEMMA AskedGoesOn ==
  ASSUME StoreAssumption, HistoryRows, TurnRows, Onward, NEW t \in Turn, turns[t] # None, AskedBy(t)
  PROVE  AskedBy(t)'
<1> DEFINE r == turns[t].hash
<1>1. turns'[t].hash = r /\ (turns'[t].of = turns[t].of \/ (turns[t].of \in History /\ hist'[turns[t].of].deleted))
  BY DEF Onward, TurnGoesOn
<1>2. CASE r.act \in {"submit", "resume"}
  <2>1. r.of \in History /\ hist[r.of] # None /\ (turns[t].of = r.of \/ hist[r.of].deleted)
    BY <1>2 DEF AskedBy
  <2>2. RowGoesOn(r.of) BY <2>1 DEF Onward
  <2>3. hist'[r.of] # None /\ (hist[r.of].deleted => hist'[r.of].deleted) BY <2>1, <2>2 DEF RowGoesOn
  <2> QED BY <1>1, <1>2, <2>1, <2>3 DEF AskedBy
<1>3. CASE r.act \notin {"submit", "resume"}
  <2>1. PICK h \in History : hist[h] # None /\ hist[h].op = r.op BY <1>3 DEF AskedBy
  <2>2. hist'[h] # None /\ hist'[h].op = r.op BY <2>1 DEF Onward, RowGoesOn
  <2> QED BY <1>1, <1>3, <2>2 DEF AskedBy
<1> QED BY <1>2, <1>3

LEMMA ViewGoesOn ==
  ASSUME StoreAssumption, HistoryRows, HistoryRows', Viewed, Onward, view' = view
  PROVE  Viewed'
<1> SUFFICES ASSUME view.of # None
             PROVE  /\ view.of \in History /\ hist'[view.of] # None /\ view.rev \in 0..hist'[view.of].rev
                    /\ AsRead(view.of)' => view.content = Content(view.of)'
  BY DEF Viewed
<1> DEFINE h == view.of
<1>1. h \in History /\ hist[h] # None /\ view.rev \in 0..hist[h].rev /\ (AsRead(h) => view.content = Content(h))
  BY DEF Viewed
<1>2. RowGoesOn(h) BY <1>1 DEF Onward
<1>3. hist[h].rev \in Nat BY <1>1, RowTyped
<1>4. hist'[h] # None BY <1>1, <1>2 DEF RowGoesOn
<1>5. hist'[h].rev \in Nat BY <1>1, <1>4, HistoryFields DEF HistoryRows
<1>6. CASE hist'[h].rev > hist[h].rev
  <2>1. view.rev \in 0..hist'[h].rev /\ hist'[h].rev # view.rev BY <1>1, <1>3, <1>5, <1>6
  <2> QED BY <1>1, <1>4, <2>1 DEF AsRead
<1>7. CASE ~(hist'[h].rev > hist[h].rev)
  <2>1. hist'[h] = hist[h] /\ TurnsOf(h)' = TurnsOf(h) /\ \A t \in TurnsOf(h) : turns'[t].status = turns[t].status
    BY <1>1, <1>2, <1>7 DEF RowGoesOn
  <2>2. {<<t, turns'[t].status>> : t \in TurnsOf(h)'} = {<<t, turns[t].status>> : t \in TurnsOf(h)} BY <2>1
  <2>3. Content(h)' = Content(h) BY <2>1, <2>2 DEF Content
  <2> QED BY <1>1, <2>1, <2>3 DEF AsRead, Live
<1> QED BY <1>6, <1>7

\* The pages read.
LEMMA ScanGoesOn ==
  ASSUME StoreAssumption, HistoryRows, HistoryRows', Scanned, Onward, scan' = scan
  PROVE  Scanned'
<1>1. CASE scan = NoScan BY <1>1 DEF Scanned, NoScan
<1>2. CASE Seen
  <2> USE <1>2
  <2>1. scan.seen \in Seq(History) BY DEF Seen
  <2>2. ASSUME NEW i \in 1..Len(scan.seen)
        PROVE  hist'[scan.seen[i]] # None /\ (~scan.done => ~Below(scan.seen[i], scan.cursor)')
    <3> DEFINE h == scan.seen[i]
    <3>1. h \in History BY <2>1
    <3>2. hist[h] # None /\ (~scan.done => ~Below(h, scan.cursor)) BY <2>2 DEF Seen
    <3>3. hist'[h] # None /\ hist'[h].at >= hist[h].at BY <3>1, <3>2 DEF Onward, RowGoesOn
    <3>4. hist[h].at \in Nat /\ hist'[h].at \in Nat
      BY <3>1, <3>2, <3>3, RowTyped, HistoryFields DEF HistoryRows
    <3>5. ASSUME ~scan.done, Below(h, scan.cursor)' PROVE Below(h, scan.cursor)
      <4>1. scan.cursor \in Cursor BY <3>5 DEF Seen
      <4>2. scan.cursor.at \in Nat /\ scan.cursor.id \in Nat BY <4>1, Numbers DEF Cursor
      <4>3. hist'[h].at < scan.cursor.at \/ (hist'[h].at = scan.cursor.at /\ h < scan.cursor.id)
        BY <3>5 DEF Below
      <4>4. hist[h].at < scan.cursor.at \/ (hist[h].at = scan.cursor.at /\ h < scan.cursor.id)
        BY <4>2, <4>3, <3>3, <3>4
      <4> QED BY <4>4 DEF Below
    <3> QED BY <3>2, <3>3, <3>5
  <2>3. ASSUME NEW h \in History, scan.start[h] # None
        PROVE  /\ hist'[h] # None /\ scan.start[h].rev <= hist'[h].rev
               /\ scan.start[h] = hist'[h] /\ ~hist'[h].deleted =>
                    \/ \E i \in 1..Len(scan.seen) : scan.seen[i] = h
                    \/ ~scan.done /\ Below(h, scan.cursor)'
    <3>1. hist[h] # None /\ scan.start[h].rev <= hist[h].rev BY <2>3 DEF Seen
    <3>2. scan.start[h].rev \in Nat BY <2>3, HistoryFields DEF Seen
    <3>3. RowGoesOn(h) BY DEF Onward
    <3>4. hist'[h] # None BY <3>1, <3>3 DEF RowGoesOn
    <3>5. hist[h].rev \in Nat /\ hist'[h].rev \in Nat
      BY <3>1, <3>4, RowTyped, HistoryFields DEF HistoryRows
    <3>6. CASE hist'[h].rev > hist[h].rev
      <4>1. scan.start[h].rev <= hist'[h].rev /\ scan.start[h].rev # hist'[h].rev
        BY <3>1, <3>2, <3>5, <3>6
      <4> QED BY <3>4, <4>1
    <3>7. CASE hist'[h] = hist[h]
      <4>1. Below(h, scan.cursor)' = Below(h, scan.cursor) BY <3>7 DEF Below
      <4> QED BY <3>1, <3>7, <4>1, <2>3 DEF Seen
    <3> QED BY <3>1, <3>3, <3>6, <3>7 DEF RowGoesOn
  <2>4. Seen' BY <2>2, <2>3 DEF Seen
  <2> QED BY <2>4 DEF Scanned
<1> QED BY <1>1, <1>2 DEF Scanned

\* A request whose thread does nothing.
LEMMA AsksGoesOn ==
  ASSUME StoreAssumption, HistoryRows, HistoryRows', Onward, NEW r, NEW pc, Asks(r, pc)
  PROVE  Asks(r, pc)'
<1>1. ASSUME r.act = "submit" PROVE r.of \in History /\ hist'[r.of] # None /\ hist'[r.of].kind = "query"
  BY <1>1 DEF Asks, Onward, RowGoesOn
<1>2. ASSUME r.act = "resume"
      PROVE  /\ r.of \in History /\ hist'[r.of] # None /\ hist'[r.of].kind = "analysis"
             /\ r.rev <= hist'[r.of].rev
             /\ pc # "header" /\ r.rev = hist'[r.of].rev /\ Live(r.of)' => hist'[r.of].last = None
  <2> DEFINE h == r.of
  <2>1. /\ h \in History /\ hist[h] # None /\ hist[h].kind = "analysis" /\ r.rev <= hist[h].rev
        /\ pc # "header" /\ r.rev = hist[h].rev /\ Live(h) => hist[h].last = None
    BY <1>2 DEF Asks
  <2>2. RowGoesOn(h) BY <2>1 DEF Onward
  <2>3. hist'[h] # None /\ hist'[h].kind = "analysis" BY <2>1, <2>2 DEF RowGoesOn
  <2>4. r.rev \in Nat /\ hist[h].rev \in Nat /\ hist'[h].rev \in Nat
    BY <2>1, <2>3, RowTyped, HistoryFields DEF HistoryRows, Asks, Request
  <2>5. CASE hist'[h].rev > hist[h].rev
    <3>1. r.rev <= hist'[h].rev /\ r.rev # hist'[h].rev BY <2>1, <2>4, <2>5
    <3> QED BY <2>1, <2>3, <3>1
  <2>6. CASE hist'[h] = hist[h]
    <3>1. Live(h)' = Live(h) BY <2>6 DEF Live
    <3> QED BY <2>1, <2>6, <3>1
  <2> QED BY <2>1, <2>2, <2>5, <2>6 DEF RowGoesOn
<1>3. r.act \in {"requery", "requery saved"} => r.of \in Turn /\ turns'[r.of] # None
  BY DEF Asks, Onward, TurnGoesOn
<1> QED BY <1>1, <1>2, <1>3 DEF Asks

LEMMA CallerGoesOn ==
  ASSUME StoreAssumption, HistoryRows, HistoryRows', Onward, NEW c, CallerFits(c)
  PROVE  CallerFits(c)'
<1>1. ASSUME c.pc \in PendingPc PROVE Asks(c.req, c.pc)'
  BY <1>1, AsksGoesOn DEF CallerFits
<1>2. ASSUME c.pc \in HoldingPc PROVE HoldsTurn(c)'
  <2>1. HoldsTurn(c) BY <1>2 DEF CallerFits
  <2>2. TurnGoesOn(c.turn) BY <2>1 DEF HoldsTurn, Onward
  <2> QED BY <2>1, <2>2 DEF HoldsTurn, TurnGoesOn, Concluded
<1> QED BY <1>1, <1>2 DEF CallerFits

LEMMA CallersGoOn ==
  ASSUME StoreAssumption, HistoryRows, HistoryRows', Callers, Onward, NEW k \in Thread,
         thread' \in [Thread -> Caller], \A i \in Thread \ {k} : thread'[i] = thread[i],
         CallerFits(thread[k])'
  PROVE  Callers'
<1>1. ASSUME NEW i \in Thread PROVE CallerFits(thread[i])'
  <2>1. CASE i = k BY <2>1
  <2>2. CASE i # k
    <3>1. PICK c : c = thread[i] OBVIOUS
    <3>2. CallerFits(c) BY <3>1 DEF Callers
    <3>3. CallerFits(c)' BY <3>2, CallerGoesOn
    <3>4. thread'[i] = c BY <2>2, <3>1
    <3> QED BY <3>3, <3>4
  <2> QED BY <2>1, <2>2
<1> QED BY <1>1 DEF Callers
(***************************************************************************)
(* A history whose successes, last success and bases stay, and whose       *)
(* active turn stays or goes, keeps its chain.                             *)
(***************************************************************************)
SameChain(h) ==
  /\ hist'[h].kind = hist[h].kind /\ hist'[h].ctx = hist[h].ctx /\ hist'[h].last = hist[h].last
  /\ TurnsOf(h)' = TurnsOf(h)
  /\ \A t \in TurnsOf(h) :
       /\ turns'[t].base = turns[t].base
       /\ turns'[t].status = "succeeded" <=> turns[t].status = "succeeded"
  /\ \/ hist'[h].active = None
     \/ hist'[h].active = hist[h].active /\ turns'[hist[h].active] = turns[hist[h].active]

LEMMA ChainStays ==
  ASSUME StoreAssumption, NEW h \in History, Chained(h), SameChain(h)
  PROVE  Chained(h)' /\ Won(h)' = Won(h)
<1>1. Won(h)' = Won(h) BY DEF SameChain, Won
<1>2. Won(h) \subseteq TurnsOf(h) BY DEF Won
<1>3. ASSUME hist'[h].active # None PROVE ActiveTurn(h)'
  <2>1. hist'[h].active = hist[h].active /\ turns'[hist[h].active] = turns[hist[h].active]
    BY <1>3 DEF SameChain
  <2>2. ActiveTurn(h) BY <1>3, <2>1 DEF Chained
  <2> QED BY <2>1, <2>2 DEF ActiveTurn, SameChain
<1>4. ASSUME NEW t \in Won(h), Follows(t, h) PROVE Follows(t, h)'
  <2>1. turns'[t].base = turns[t].base BY <1>2 DEF SameChain
  <2>2. TurnsOf(h)' = TurnsOf(h) BY DEF SameChain
  <2> QED BY <1>1, <1>4, <2>1, <2>2 DEF Follows
<1>5. hist[h].kind = "query" => \A t \in Won(h)' : Follows(t, h)'
  BY <1>1, <1>4 DEF Chained
<1>6. hist'[h].ctx = Cardinality(Won(h)') BY <1>1 DEF Chained, SameChain
<1>7. IF hist'[h].last = None THEN Won(h)' = {}
      ELSE hist'[h].last \in Won(h)' /\ \A u \in Won(h)' : u <= hist'[h].last
  BY <1>1 DEF Chained, SameChain
<1>8. hist'[h].kind = "analysis" => \A t, u \in Won(h)' : t = u BY <1>1 DEF Chained, SameChain
<1>9. hist'[h].kind = hist[h].kind BY DEF SameChain
<1>10. Chained(h)' BY <1>3, <1>5, <1>6, <1>7, <1>8, <1>9 DEF Chained
<1> QED BY <1>1, <1>10

\* A history nobody touches, whose turns nobody touches.
LEMMA ChainUntouched ==
  ASSUME StoreAssumption, NEW h \in History, Chained(h), hist'[h] = hist[h], TurnsOf(h)' = TurnsOf(h),
         \A t \in TurnsOf(h) : turns'[t] = turns[t]
  PROVE  Chained(h)'
<1>1. hist[h].active # None => hist[h].active \in TurnsOf(h)
  BY DEF Chained, ActiveTurn, TurnsOf
<1>2. SameChain(h) BY <1>1 DEF SameChain
<1> QED BY <1>2, ChainStays

-----------------------------------------------------------------------------
(***************************************************************************)
(* Rows as the transactions leave them.                                    *)
(***************************************************************************)
Taken(r, t, n) == [r EXCEPT !.active = t, !.gen = @ + 1, !.rev = @ + 1, !.at = n]
Abandoned(r, n) == [r EXCEPT !.active = None, !.gen = @ + 1, !.rev = @ + 1, !.at = n]
WonBy(r, t, n) == [r EXCEPT !.active = None, !.rev = @ + 1, !.ctx = @ + 1, !.last = t, !.at = n]
FailedAt(r, n) == [r EXCEPT !.active = None, !.rev = @ + 1, !.ctx = @, !.last = @, !.at = n]
Renamed(r, n) == [r EXCEPT !.title = @ + 1, !.rev = @ + 1, !.at = n]
Removed(r, n) == [r EXCEPT !.deleted = TRUE, !.last = None, !.title = 0, !.gen = @ + 1, !.rev = @ + 1, !.at = n]

LEMMA TakenRow ==
  ASSUME NEW r \in HistoryRow, NEW t \in Turn, NEW n \in Nat, NEW s,
         s = Taken(r, t, n)
  PROVE  /\ s \in HistoryRow /\ s.active = t /\ s.rev = r.rev + 1 /\ s.at = n /\ s.kind = r.kind
         /\ s.op = r.op /\ s.ctx = r.ctx /\ s.last = r.last /\ s.deleted = r.deleted
<1>1. PICK r1 : r1 = [r EXCEPT !.active = t] OBVIOUS
<1>2. r1 \in HistoryRow BY <1>1 DEF HistoryRow
<1>3. PICK r2 : r2 = [r1 EXCEPT !.gen = @ + 1] OBVIOUS
<1>4. r2 \in HistoryRow BY <1>2, <1>3 DEF HistoryRow
<1>5. PICK r3 : r3 = [r2 EXCEPT !.rev = @ + 1] OBVIOUS
<1>6. r3 \in HistoryRow BY <1>4, <1>5 DEF HistoryRow
<1>7. PICK r4 : r4 = [r3 EXCEPT !.at = n] OBVIOUS
<1>8. r4 \in HistoryRow BY <1>6, <1>7 DEF HistoryRow
<1>9. s = r4 BY <1>1, <1>3, <1>5, <1>7 DEF Taken
<1>10. s \in HistoryRow BY <1>8, <1>9
<1>11. s.active = t /\ s.rev = r.rev + 1 /\ s.at = n BY DEF HistoryRow, Taken
<1>12. s.kind = r.kind /\ s.op = r.op /\ s.ctx = r.ctx /\ s.last = r.last /\ s.deleted = r.deleted BY DEF HistoryRow, Taken
<1> QED BY <1>10, <1>11, <1>12

LEMMA GivenUpRow ==
  ASSUME NEW r \in HistoryRow, NEW n \in Nat, NEW s,
         s = Abandoned(r, n)
  PROVE  /\ s \in HistoryRow /\ s.active = None /\ s.rev = r.rev + 1 /\ s.at = n /\ s.kind = r.kind
         /\ s.op = r.op /\ s.ctx = r.ctx /\ s.last = r.last /\ s.deleted = r.deleted
<1>1. PICK r1 : r1 = [r EXCEPT !.active = None] OBVIOUS
<1>2. r1 \in HistoryRow BY <1>1 DEF HistoryRow
<1>3. PICK r2 : r2 = [r1 EXCEPT !.gen = @ + 1] OBVIOUS
<1>4. r2 \in HistoryRow BY <1>2, <1>3 DEF HistoryRow
<1>5. PICK r3 : r3 = [r2 EXCEPT !.rev = @ + 1] OBVIOUS
<1>6. r3 \in HistoryRow BY <1>4, <1>5 DEF HistoryRow
<1>7. PICK r4 : r4 = [r3 EXCEPT !.at = n] OBVIOUS
<1>8. r4 \in HistoryRow BY <1>6, <1>7 DEF HistoryRow
<1>9. s = r4 BY <1>1, <1>3, <1>5, <1>7 DEF Abandoned
<1> QED BY <1>8, <1>9 DEF HistoryRow, Abandoned

LEMMA WonRow ==
  ASSUME NEW r \in HistoryRow, NEW t \in Turn, NEW n \in Nat, NEW s,
         s = WonBy(r, t, n)
  PROVE  /\ s \in HistoryRow /\ s.active = None /\ s.rev = r.rev + 1 /\ s.at = n /\ s.kind = r.kind
         /\ s.op = r.op /\ s.ctx = r.ctx + 1 /\ s.last = t /\ s.deleted = r.deleted
<1>1. PICK r1 : r1 = [r EXCEPT !.active = None] OBVIOUS
<1>2. r1 \in HistoryRow BY <1>1 DEF HistoryRow
<1>3. PICK r2 : r2 = [r1 EXCEPT !.rev = @ + 1] OBVIOUS
<1>4. r2 \in HistoryRow BY <1>2, <1>3 DEF HistoryRow
<1>5. PICK r3 : r3 = [r2 EXCEPT !.ctx = @ + 1] OBVIOUS
<1>6. r3 \in HistoryRow BY <1>4, <1>5 DEF HistoryRow
<1>7. PICK r4 : r4 = [r3 EXCEPT !.last = t] OBVIOUS
<1>8. r4 \in HistoryRow BY <1>6, <1>7 DEF HistoryRow
<1>9. PICK r5 : r5 = [r4 EXCEPT !.at = n] OBVIOUS
<1>10. r5 \in HistoryRow BY <1>8, <1>9 DEF HistoryRow
<1>11. s = r5 BY <1>1, <1>3, <1>5, <1>7, <1>9 DEF WonBy
<1> QED BY <1>10, <1>11 DEF HistoryRow, WonBy

LEMMA FailedRow ==
  ASSUME NEW r \in HistoryRow, NEW n \in Nat, NEW s,
         s = FailedAt(r, n)
  PROVE  /\ s \in HistoryRow /\ s.active = None /\ s.rev = r.rev + 1 /\ s.at = n /\ s.kind = r.kind
         /\ s.op = r.op /\ s.ctx = r.ctx /\ s.last = r.last /\ s.deleted = r.deleted
<1>1. PICK r1 : r1 = [r EXCEPT !.active = None] OBVIOUS
<1>2. r1 \in HistoryRow BY <1>1 DEF HistoryRow
<1>3. PICK r2 : r2 = [r1 EXCEPT !.rev = @ + 1] OBVIOUS
<1>4. r2 \in HistoryRow BY <1>2, <1>3 DEF HistoryRow
<1>5. PICK r3 : r3 = [r2 EXCEPT !.ctx = @] OBVIOUS
<1>6. r3 \in HistoryRow BY <1>4, <1>5 DEF HistoryRow
<1>7. PICK r4 : r4 = [r3 EXCEPT !.last = @] OBVIOUS
<1>8. r4 \in HistoryRow BY <1>6, <1>7 DEF HistoryRow
<1>9. PICK r5 : r5 = [r4 EXCEPT !.at = n] OBVIOUS
<1>10. r5 \in HistoryRow BY <1>8, <1>9 DEF HistoryRow
<1>11. s = r5 BY <1>1, <1>3, <1>5, <1>7, <1>9 DEF FailedAt
<1> QED BY <1>10, <1>11 DEF HistoryRow, FailedAt

LEMMA RenamedRow ==
  ASSUME NEW r \in HistoryRow, NEW n \in Nat, NEW s,
         s = Renamed(r, n)
  PROVE  /\ s \in HistoryRow /\ s.active = r.active /\ s.rev = r.rev + 1 /\ s.at = n /\ s.kind = r.kind
         /\ s.op = r.op /\ s.ctx = r.ctx /\ s.last = r.last /\ s.deleted = r.deleted
<1>1. PICK r1 : r1 = [r EXCEPT !.title = @ + 1] OBVIOUS
<1>2. r1 \in HistoryRow BY <1>1 DEF HistoryRow
<1>3. PICK r2 : r2 = [r1 EXCEPT !.rev = @ + 1] OBVIOUS
<1>4. r2 \in HistoryRow BY <1>2, <1>3 DEF HistoryRow
<1>5. PICK r3 : r3 = [r2 EXCEPT !.at = n] OBVIOUS
<1>6. r3 \in HistoryRow BY <1>4, <1>5 DEF HistoryRow
<1>7. s = r3 BY <1>1, <1>3, <1>5 DEF Renamed
<1> QED BY <1>6, <1>7 DEF HistoryRow, Renamed

LEMMA DeletedRow ==
  ASSUME NEW r \in HistoryRow, NEW n \in Nat, NEW s,
         s = Removed(r, n)
  PROVE  /\ s \in HistoryRow /\ s.rev = r.rev + 1 /\ s.at = n /\ s.kind = r.kind /\ s.op = r.op
         /\ s.deleted
<1>1. PICK r1 : r1 = [r EXCEPT !.deleted = TRUE] OBVIOUS
<1>2. r1 \in HistoryRow BY <1>1 DEF HistoryRow
<1>3. PICK r2 : r2 = [r1 EXCEPT !.last = None] OBVIOUS
<1>4. r2 \in HistoryRow BY <1>2, <1>3 DEF HistoryRow
<1>5. PICK r3 : r3 = [r2 EXCEPT !.title = 0] OBVIOUS
<1>6. r3 \in HistoryRow BY <1>4, <1>5 DEF HistoryRow
<1>7. PICK r4 : r4 = [r3 EXCEPT !.gen = @ + 1] OBVIOUS
<1>8. r4 \in HistoryRow BY <1>6, <1>7 DEF HistoryRow
<1>9. PICK r5 : r5 = [r4 EXCEPT !.rev = @ + 1] OBVIOUS
<1>10. r5 \in HistoryRow BY <1>8, <1>9 DEF HistoryRow
<1>11. PICK r6 : r6 = [r5 EXCEPT !.at = n] OBVIOUS
<1>12. r6 \in HistoryRow BY <1>10, <1>11 DEF HistoryRow
<1>13. s = r6 BY <1>1, <1>3, <1>5, <1>7, <1>9, <1>11 DEF Removed
<1> QED BY <1>12, <1>13 DEF HistoryRow, Removed

\* Turns as the transactions leave them.
WithStatus(r, status) == [r EXCEPT !.status = status]
Detached(r) == [r EXCEPT !.of = None]

LEMMA TurnSettled ==
  ASSUME NEW r \in TurnRow, NEW status \in Status, NEW s, s = WithStatus(r, status)
  PROVE  /\ s \in TurnRow /\ s.status = status /\ s.of = r.of /\ s.op = r.op /\ s.hash = r.hash /\ s.base = r.base
  BY DEF TurnRow, WithStatus

LEMMA TurnDetached ==
  ASSUME NEW r \in TurnRow, NEW s, s = Detached(r)
  PROVE  /\ s \in TurnRow /\ s.of = None /\ s.status = r.status /\ s.op = r.op /\ s.hash = r.hash /\ s.base = r.base
  BY DEF TurnRow, Detached

LEMMA NewRow ==
  ASSUME NEW kind \in Kinds, NEW op \in Op \cup {None}, NEW n \in Nat,
         NEW hash \in {None} \cup Request \cup [act : {"create"}, kind : Kinds]
  PROVE  /\ Record(kind, op, hash, n) \in HistoryRow
         /\ Record(kind, op, hash, n) = [kind |-> kind, op |-> op, hash |-> hash, deleted |-> FALSE, active |-> None,
              gen |-> 0, ctx |-> 0, rev |-> 0, last |-> None, title |-> 0, at |-> n]
  BY DEF HistoryRow, Record
-----------------------------------------------------------------------------
(***************************************************************************)
(* Steps that leave the tables alone.                                      *)
(***************************************************************************)
LEMMA TablesStill ==
  ASSUME HistoryInv, UNCHANGED <<hist, turns>>, now' \in {now, now + 1}
  PROVE  HistoryRows' /\ TurnRows' /\ Chains' /\ Hashes' /\ Onward
<1>1. HistoryRows'
  <2>1. now \in Nat BY DEF HistoryInv, HistoryWorld, StoreAssumption
  <2>2. \A h \in History : hist[h] # None => hist[h].at \in Nat /\ hist[h].at <= now
    BY RowTyped DEF HistoryInv, HistoryRows
  <2>3. \A h \in History : hist[h] # None => hist[h].at <= now' BY <2>1, <2>2
  <2> QED BY <2>3 DEF HistoryInv, HistoryRows
<1>2. TurnRows' BY DEF HistoryInv, TurnRows, Live
<1>3. \A h \in History : TurnsOf(h)' = TurnsOf(h) BY DEF TurnsOf
<1>4. Chains'
  <2> SUFFICES ASSUME NEW h \in History, Live(h)' PROVE Chained(h)' BY DEF Chains
  <2>1. Chained(h) BY DEF HistoryInv, Chains, Live
  <2> QED BY <2>1, <1>3, ChainUntouched DEF HistoryInv
<1>5. Onward
  <2>1. ASSUME NEW h \in History PROVE RowGoesOn(h)
    <3>1. ASSUME hist[h] # None PROVE hist[h].at >= hist[h].at
      BY <3>1, RowTyped DEF HistoryInv
    <3> QED BY <1>3, <3>1 DEF RowGoesOn
  <2>2. ASSUME NEW t \in Turn PROVE TurnGoesOn(t) BY DEF TurnGoesOn
  <2> QED BY <2>1, <2>2 DEF Onward
<1>6. Hashes'
  <2>1. ASSUME NEW t \in Turn, turns'[t] # None PROVE AskedBy(t)'
    <3>1. AskedBy(t) BY <2>1 DEF HistoryInv, Hashes
    <3> QED BY <3>1, <2>1, <1>5, AskedGoesOn DEF HistoryInv
  <2> QED BY <2>1 DEF HistoryInv, Hashes
<1> QED BY <1>1, <1>2, <1>4, <1>5, <1>6

\* The rest of the invariant, when a step is about the tables.
LEMMA CallersStay ==
  ASSUME HistoryInv, HistoryRows', Onward, UNCHANGED thread
  PROVE  Callers'
<1>1. ASSUME NEW k \in Thread PROVE CallerFits(thread[k])'
  <2>1. PICK c : c = thread[k] OBVIOUS
  <2>2. CallerFits(c) BY <2>1 DEF HistoryInv, Callers
  <2>3. CallerFits(c)' BY <2>2, CallerGoesOn DEF HistoryInv
  <2>4. thread'[k] = c BY <2>1
  <2> QED BY <2>3, <2>4
<1>2. thread' \in [Thread -> Caller] BY DEF HistoryInv, Callers
<1> QED BY <1>1, <1>2 DEF Callers

LEMMA RestStays ==
  ASSUME HistoryInv, HistoryRows', Onward, UNCHANGED <<client, told>>, saved' \subseteq saved
  PROVE  /\ StoreAssumption' /\ AnswersKept' /\ SavedRows' /\ Viewed' /\ Scanned'
         /\ UNCHANGED thread => Callers'
<1>1. AnswersKept' BY AnswersGoOn DEF HistoryInv
<1>2. SavedRows' /\ Viewed' /\ Scanned' BY SavedGoOn, ViewGoesOn, ScanGoesOn DEF HistoryInv, client
<1>3. StoreAssumption' BY DEF HistoryInv, StoreAssumption
<1>4. UNCHANGED thread => Callers' BY CallersStay
<1> QED BY <1>1, <1>2, <1>3, <1>4

LEMMA ThreadMoves ==
  ASSUME HistoryInv, NEW k \in Thread, NEW c \in Caller, thread' = [thread EXCEPT ![k] = c],
         CallerFits(c), UNCHANGED <<hist, turns, saved, epoch, client, now>>, lease' \subseteq History,
         \A a \in told' : a \in told \/ Told(a)
  PROVE  HistoryInv'
<1>1. HistoryRows' /\ TurnRows' /\ Chains' /\ Hashes' /\ Onward BY TablesStill
<1>2. \A a \in told' : a \in told \/ Told(a)' BY DEF Told
<1>3. AnswersKept' BY <1>1, <1>2, AnswersGoOn DEF HistoryInv
<1>4. SavedRows' /\ Viewed' /\ Scanned'
  BY <1>1, SavedGoOn, ViewGoesOn, ScanGoesOn DEF HistoryInv, client
<1>5. Callers'
  <2>1. thread \in [Thread -> Caller] BY DEF HistoryInv, Callers
  <2>2. thread' \in [Thread -> Caller] /\ thread'[k] = c /\ \A i \in Thread \ {k} : thread'[i] = thread[i] BY <2>1
  <2>3. CallerFits(c)' BY <1>1, CallerGoesOn DEF HistoryInv
  <2>4. CallerFits(thread[k])' BY <2>2, <2>3
  <2> QED BY <1>1, <2>2, <2>4, CallersGoOn DEF HistoryInv
<1>6. HistoryWorld' BY DEF HistoryInv, HistoryWorld
<1>7. StoreAssumption' BY DEF HistoryInv, StoreAssumption
<1> QED BY <1>1, <1>3, <1>4, <1>5, <1>6, <1>7 DEF HistoryInv

\* A request that is over.
LEMMA OverFits == Over \in Caller /\ CallerFits(Over)
<1>1. Over = [pc |-> "over", req |-> None, of |-> None, turn |-> None, gen |-> 0, result |-> None]
  BY DEF Over, Idle
<1> QED BY <1>1 DEF Caller, CallerFits, PendingPc, HoldingPc

LEMMA CallerAt ==
  ASSUME HistoryInv, NEW k \in Thread
  PROVE  thread[k] \in Caller /\ CallerFits(thread[k])
  BY DEF HistoryInv, Callers

LEMMA GivesUp ==
  ASSUME HistoryInv, NEW k \in Thread, thread' = [thread EXCEPT ![k] = Over],
         UNCHANGED <<hist, turns, saved, epoch, client, now, told>>, lease' \subseteq lease
  PROVE  HistoryInv'
<1>1. lease' \subseteq History BY DEF HistoryInv, HistoryWorld
<1> QED BY <1>1, OverFits, ThreadMoves

\* An answer from a settled turn of this request, or from the success of its analysis.
LEMMA TellKeeps ==
  ASSUME HistoryInv, NEW k \in Thread, NEW t \in Turn, Tell(k, t), turns[t] # None,
         turns[t].status \in Concluded,
         turns[t].hash = thread[k].req \/ (thread[k].req.act = "resume" /\ turns[t].status = "succeeded"),
         UNCHANGED <<hist, turns, saved, epoch, client, now>>, lease' \subseteq lease
  PROVE  HistoryInv'
<1> DEFINE a == [req |-> thread[k].req, turn |-> t, status |-> turns[t].status]
<1>1. told' = told \cup {a} /\ thread' = [thread EXCEPT ![k] = Over] BY DEF Tell
<1>2. Told(a) BY DEF Told
<1>3. \A b \in told' : b \in told \/ Told(b) BY <1>1, <1>2
<1>4. lease' \subseteq History BY DEF HistoryInv, HistoryWorld
<1> QED BY <1>1, <1>3, <1>4, OverFits, ThreadMoves
-----------------------------------------------------------------------------
\* Threads as the steps leave them.
LEMMA CallerMoves ==
  ASSUME NEW c \in Caller, NEW pc \in {"header", "reserve", "begin", "work", "release", "finish", "answer"},
         NEW s, s = [c EXCEPT !.pc = pc]
  PROVE  /\ s \in Caller /\ s.pc = pc /\ s.req = c.req /\ s.of = c.of /\ s.turn = c.turn
         /\ s.gen = c.gen /\ s.result = c.result
  BY DEF Caller, PendingPc, HoldingPc

Started(pc, r) == [Idle EXCEPT !.pc = pc, !.req = r]

LEMMA CallerStarts ==
  ASSUME NEW pc \in {"header", "reserve"}, NEW r \in Request
  PROVE  Started(pc, r) \in Caller /\ Started(pc, r).pc = pc /\ Started(pc, r).req = r
<1> DEFINE s == Started(pc, r)
<1>1. Idle \in Caller BY DEF Idle, Caller
<1>2. PICK c : c = [Idle EXCEPT !.pc = pc] OBVIOUS
<1>3. c \in Caller /\ c.pc = pc BY <1>1, <1>2, CallerMoves
<1>4. s = [c EXCEPT !.req = r] BY <1>2 DEF Started
<1> HIDE DEF s
<1>5. s \in Caller /\ s.req = r /\ s.pc = c.pc BY <1>3, <1>4 DEF Caller
<1> QED BY <1>3, <1>5 DEF s

\* A request arrives.
LEMMA ArrivesKeeps ==
  ASSUME HistoryInv, NEW k \in Thread, NEW req \in Request, Arrives(k, req),
         Asks(req, IF req.act = "resume" THEN "header" ELSE "reserve")
  PROVE  HistoryInv'
<1> DEFINE p == IF req.act = "resume" THEN "header" ELSE "reserve"
<1>0. PICK pc : pc = p OBVIOUS
<1>1. PICK c : c = Started(pc, req) OBVIOUS
<1>2. pc \in {"header", "reserve"} BY <1>0
<1>3. c \in Caller /\ c.pc = pc /\ c.req = req BY <1>1, <1>2, CallerStarts
<1>4. CallerFits(c)
  <2>1. Asks(req, pc) BY <1>0
  <2>2. Asks(c.req, c.pc) BY <1>3, <2>1
  <2> QED BY <1>2, <1>3, <2>2 DEF CallerFits, PendingPc, HoldingPc
<1>5. thread' = [thread EXCEPT ![k] = c] /\ UNCHANGED <<hist, turns, saved, lease, epoch, client, told, now>>
  BY <1>0, <1>1 DEF Arrives, Started
<1>6. lease' \subseteq History BY <1>5 DEF HistoryInv, HistoryWorld
<1> QED BY <1>3, <1>4, <1>5, <1>6, ThreadMoves

LEMMA SubmitKeeps == ASSUME HistoryInv, NEW k \in Thread, Submit(k) PROVE HistoryInv'
<1>1. PICK h \in History, op \in Op : /\ Live(h) /\ hist[h].kind = "query"
        /\ \E rev \in 0..hist[h].ctx : Arrives(k, [act |-> "submit", of |-> h, op |-> op, rev |-> rev])
  BY DEF Submit
<1>2. PICK rev \in 0..hist[h].ctx : Arrives(k, [act |-> "submit", of |-> h, op |-> op, rev |-> rev]) BY <1>1
<1> DEFINE r == [act |-> "submit", of |-> h, op |-> op, rev |-> rev]
<1>3. r \in Request BY DEF Request
<1>4. Asks(r, "reserve") BY <1>1, <1>3 DEF Asks, Live
<1> QED BY <1>2, <1>3, <1>4, ArrivesKeeps

LEMMA ResumeKeeps == ASSUME HistoryInv, NEW k \in Thread, Resume(k) PROVE HistoryInv'
<1>1. PICK h \in History, op \in Op : /\ Live(h) /\ hist[h].kind = "analysis"
        /\ \E rev \in 0..hist[h].rev : Arrives(k, [act |-> "resume", of |-> h, op |-> op, rev |-> rev])
  BY DEF Resume
<1>2. PICK rev \in 0..hist[h].rev : Arrives(k, [act |-> "resume", of |-> h, op |-> op, rev |-> rev]) BY <1>1
<1> DEFINE r == [act |-> "resume", of |-> h, op |-> op, rev |-> rev]
<1>3. r \in Request BY DEF Request
<1>4. hist[h].rev \in Nat BY <1>1, RowTyped DEF Live, HistoryInv
<1>5. Asks(r, "header") BY <1>1, <1>3, <1>4 DEF Asks, Live
<1> QED BY <1>2, <1>3, <1>5, ArrivesKeeps

LEMMA RequeryKeeps == ASSUME HistoryInv, NEW k \in Thread, Requery(k) PROVE HistoryInv'
<1>1. PICK t \in Turn, op \in Op, kept \in BOOLEAN :
        /\ IF kept THEN \E s \in saved : s.turn = t ELSE turns[t] # None
        /\ Arrives(k, [act |-> IF kept THEN "requery saved" ELSE "requery", of |-> t, op |-> op, rev |-> 0])
  BY DEF Requery
<1> DEFINE r == [act |-> IF kept THEN "requery saved" ELSE "requery", of |-> t, op |-> op, rev |-> 0]
<1>2. turns[t] # None BY <1>1 DEF HistoryInv, SavedRows
<1>3. r \in Request BY DEF Request
<1>4. r.act \in {"requery", "requery saved"} /\ r.act # "submit" /\ r.act # "resume" /\ r.of = t OBVIOUS
<1>5. Asks(r, "reserve") BY <1>2, <1>3, <1>4 DEF Asks
<1> QED BY <1>1, <1>3, <1>4, <1>5, ArrivesKeeps

-----------------------------------------------------------------------------
\* Before the turn.
LEMMA PendingMoves ==
  ASSUME HistoryInv, NEW k \in Thread, NEW pc \in {"reserve", "begin"}, thread[k].pc \in PendingPc,
         thread' = [thread EXCEPT ![k].pc = pc], Asks(thread[k].req, pc),
         UNCHANGED <<hist, turns, saved, epoch, client, told, now>>, lease' \subseteq History
  PROVE  HistoryInv'
<1>0. PICK c : c = [thread[k] EXCEPT !.pc = pc] OBVIOUS
<1>1. thread[k] \in Caller BY CallerAt
<1>2. c \in Caller /\ c.pc = pc /\ c.req = thread[k].req BY <1>0, <1>1, CallerMoves
<1>3. CallerFits(c) BY <1>2 DEF CallerFits, PendingPc, HoldingPc
<1>4. thread' = [thread EXCEPT ![k] = c] BY <1>0
<1>5. \A a \in told' : a \in told OBVIOUS
<1> QED BY <1>2, <1>3, <1>4, <1>5, ThreadMoves

LEMMA ReadHeaderKeeps == ASSUME HistoryInv, NEW k \in Thread, ReadHeader(k) PROVE HistoryInv'
<1> DEFINE r == thread[k].req  h == r.of
<1>1. Asks(r, "header") BY CallerAt DEF ReadHeader, CallerFits, PendingPc
<1>2. r.act = "resume" /\ h \in History BY <1>1 DEF Asks
<1>3. UNCHANGED <<hist, turns, saved, lease, epoch, client, now>> BY DEF ReadHeader
<1>4. CASE thread' = [thread EXCEPT ![k] = Over] /\ UNCHANGED told BY <1>3, <1>4, GivesUp
<1>5. CASE Live(h) /\ hist[h].last # None /\ Tell(k, hist[h].last)
  <2>1. hist[h].last \in Won(h) BY <1>2, <1>5 DEF HistoryInv, Chains, Chained
  <2>2. hist[h].last \in Turn /\ turns[hist[h].last] # None /\ turns[hist[h].last].status = "succeeded"
    BY <2>1 DEF Won, TurnsOf
  <2> QED BY <1>2, <1>3, <1>5, <2>2, TellKeeps DEF Concluded
<1>6. CASE Live(h) /\ hist[h].last = None /\ thread' = [thread EXCEPT ![k].pc = "reserve"] /\ UNCHANGED told
  <2>1. Asks(r, "reserve") BY <1>1, <1>2, <1>6 DEF Asks
  <2>2. lease' \subseteq History BY <1>3 DEF HistoryInv, HistoryWorld
  <2>3. thread[k].pc \in PendingPc BY DEF ReadHeader, PendingPc
  <2> QED BY <1>3, <1>6, <2>1, <2>2, <2>3, PendingMoves
<1> QED BY <1>4, <1>5, <1>6 DEF ReadHeader

LEMMA ReserveKeeps == ASSUME HistoryInv, NEW k \in Thread, Reserve(k) PROVE HistoryInv'
<1> DEFINE r == thread[k].req
<1>1. thread[k].pc = "reserve" /\ UNCHANGED <<hist, turns, saved, epoch, client, told, now>> BY DEF Reserve
<1>2. Asks(r, "reserve") BY <1>1, CallerAt DEF CallerFits, PendingPc
<1>3. CASE thread' = [thread EXCEPT ![k] = Over] /\ UNCHANGED lease BY <1>1, <1>3, GivesUp
<1>4. CASE thread' = [thread EXCEPT ![k].pc = "begin"]
           /\ lease' = IF r.act \in {"submit", "resume"} THEN lease \cup {r.of} ELSE lease
  <2>1. Asks(r, "begin") BY <1>2 DEF Asks
  <2>2. lease' \subseteq History BY <1>2, <1>4 DEF Asks, HistoryInv, HistoryWorld
  <2>3. thread[k].pc \in PendingPc BY <1>1 DEF PendingPc
  <2> QED BY <1>1, <1>4, <2>1, <2>2, <2>3, PendingMoves
<1> QED BY <1>3, <1>4 DEF Reserve

\* A request repeated.
LEMMA RepeatsKeeps ==
  ASSUME HistoryInv, NEW k \in Thread, NEW h, NEW t \in Turn, turns[t] # None, Repeats(k, h, t)
  PROVE  HistoryInv'
<1>1. lease' \subseteq lease /\ UNCHANGED <<hist, turns, saved, epoch, client, now>> BY DEF Repeats
<1>2. CASE turns[t].hash = thread[k].req /\ turns[t].status \in {"succeeded", "failed"} /\ Tell(k, t)
  BY <1>1, <1>2, TellKeeps DEF Concluded
<1>3. CASE thread' = [thread EXCEPT ![k] = Over] /\ UNCHANGED told BY <1>1, <1>3, GivesUp
<1> QED BY <1>2, <1>3 DEF Repeats
-----------------------------------------------------------------------------
(***************************************************************************)
(* A turn is accepted.                                                     *)
(***************************************************************************)
LEMMA FreshTurn ==
  ASSUME StoreAssumption, TurnRows, Free(Turn, turns) # {}
  PROVE  /\ NextTurn \in Turn /\ turns[NextTurn] = None
         /\ \A u \in Turn : (turns[u] # None => u < NextTurn) /\ (u < NextTurn => turns[u] # None)
<1> DEFINE S == Free(Turn, turns)
<1>1. S \in SUBSET Nat BY Numbers DEF Free
<1>2. \E n \in S : \A m \in S : ~(<<m, n>> \in OpToRel(<, Nat)) BY <1>1, NatLessThanWellFounded, WFMin
<1>3. PICK n \in S : \A m \in S : ~(m < n) BY <1>1, <1>2 DEF OpToRel
<1>4. \A m \in S : n <= m BY <1>1, <1>3
<1>5. NextTurn \in S /\ \A m \in S : NextTurn <= m BY <1>4 DEF NextTurn
<1>6. NextTurn \in Turn /\ turns[NextTurn] = None BY <1>5 DEF Free
<1>7. ASSUME NEW u \in Turn PROVE (turns[u] # None => u < NextTurn) /\ (u < NextTurn => turns[u] # None)
  <2>1. u \in Nat /\ NextTurn \in Nat BY <1>6, Numbers
  <2>2. turns[u] = None => NextTurn <= u BY <1>5 DEF Free
  <2>3. ASSUME turns[u] # None PROVE u < NextTurn
    <3>1. ~(NextTurn < u) BY <1>6, <2>3 DEF TurnRows
    <3>2. NextTurn # u BY <1>6, <2>3
    <3> QED BY <2>1, <3>1, <3>2
  <2> QED BY <2>1, <2>2, <2>3
<1> QED BY <1>6, <1>7

Working(c, h, t, n) == [c EXCEPT !.pc = "work", !.of = h, !.turn = t, !.gen = n]

LEMMA CallerTakes ==
  ASSUME NEW c \in Caller, NEW h \in History, NEW t \in Turn, NEW n \in Nat, NEW s, s = Working(c, h, t, n)
  PROVE  s \in Caller /\ s.pc = "work" /\ s.req = c.req /\ s.of = h /\ s.turn = t
<1>1. PICK c1 : c1 = [c EXCEPT !.pc = "work"] OBVIOUS
<1>2. c1 \in Caller BY <1>1, CallerMoves
<1>3. PICK c2 : c2 = [c1 EXCEPT !.of = h] OBVIOUS
<1>4. c2 \in Caller BY <1>2, <1>3 DEF Caller
<1>5. PICK c3 : c3 = [c2 EXCEPT !.turn = t] OBVIOUS
<1>6. c3 \in Caller BY <1>4, <1>5 DEF Caller
<1>7. PICK c4 : c4 = [c3 EXCEPT !.gen = n] OBVIOUS
<1>8. c4 \in Caller BY <1>6, <1>7 DEF Caller
<1>9. s = c4 BY <1>1, <1>3, <1>5, <1>7 DEF Working
<1>10. s \in Caller BY <1>8, <1>9
<1>11. s.pc = "work" /\ s.req = c.req /\ s.of = h /\ s.turn = t BY DEF Caller, Working
<1> QED BY <1>10, <1>11

(* What the new turn of a history may be: it goes on from the last success, or it is the first. *)
MayBegin(k, h, record, base) ==
  /\ record \in HistoryRow /\ record.deleted = FALSE
  /\ base \in Turn \cup {None} /\ (base # None => turns[base] # None)
  /\ \/ record = hist[h] /\ hist[h].active = None
     \/ hist[h] = None /\ record.last = None /\ record.ctx = 0
  /\ record.kind = "analysis" => record.last = None
  /\ record.kind = "query" => base = record.last \/ (hist[h] = None /\ record.last = None)
  /\ \A u \in Turn : turns[u] # None => turns[u].hash # thread[k].req
  /\ IF thread[k].req.act \in {"submit", "resume"} THEN thread[k].req.of = h ELSE record.op = thread[k].req.op

\* The tables after the insertion.
Inserted(k, h, record, base, t) ==
  /\ t \in Turn /\ turns[t] = None /\ \A u \in Turn : turns[u] # None => u < t
  /\ hist'[h] \in HistoryRow /\ hist'[h].active = t /\ hist'[h].rev = record.rev + 1 /\ hist'[h].at = now
  /\ hist'[h].kind = record.kind /\ hist'[h].op = record.op /\ hist'[h].ctx = record.ctx
  /\ hist'[h].last = record.last /\ hist'[h].deleted = FALSE
  /\ \A g \in History \ {h} : hist'[g] = hist[g]
  /\ turns'[t] \in TurnRow /\ turns'[t].of = h /\ turns'[t].op = thread[k].req.op
  /\ turns'[t].hash = thread[k].req /\ turns'[t].status = "accepted" /\ turns'[t].base = base
  /\ \A u \in Turn \ {t} : turns'[u] = turns[u]

LEMMA InsertRows ==
  ASSUME HistoryInv, NEW k \in Thread, NEW h \in History, NEW record, NEW base, MayBegin(k, h, record, base),
         Insert(k, h, record, base), thread[k].req \in Request, UNCHANGED now
  PROVE  Inserted(k, h, record, base, NextTurn) /\ HistoryRows' /\ TurnRows' /\ Onward
<1> DEFINE t == NextTurn
           row == [of |-> h, op |-> thread[k].req.op, hash |-> thread[k].req, status |-> "accepted",
                   gen |-> record.gen + 1, epoch |-> epoch, base |-> base]
<1>1. t \in Turn /\ turns[t] = None
      /\ \A u \in Turn : (turns[u] # None => u < t) /\ (u < t => turns[u] # None)
  BY FreshTurn DEF Insert, HistoryInv
<1> HIDE DEF t
<1>2. hist \in [History -> HistoryRow \cup {None}] /\ turns \in [Turn -> TurnRow \cup {None}] /\ now \in Nat
      /\ epoch \in Nat /\ StoreAssumption
  BY DEF HistoryInv, HistoryRows, TurnRows, HistoryWorld, StoreAssumption
<1>3. PICK s : s = Taken(record, t, now) OBVIOUS
<1>4. hist' = [hist EXCEPT ![h] = s] /\ turns' = [turns EXCEPT ![t] = row]
  BY <1>3 DEF Insert, Taken, t
<1>5. /\ s \in HistoryRow /\ s.active = t /\ s.rev = record.rev + 1 /\ s.at = now /\ s.kind = record.kind
      /\ s.op = record.op /\ s.ctx = record.ctx /\ s.last = record.last /\ s.deleted = FALSE
  BY <1>1, <1>2, <1>3, TakenRow DEF MayBegin
<1>6. hist'[h] = s /\ \A g \in History \ {h} : hist'[g] = hist[g] BY <1>2, <1>4
<1>7. turns'[t] = row /\ \A u \in Turn \ {t} : turns'[u] = turns[u] BY <1>1, <1>2, <1>4
<1>8. row \in TurnRow /\ row.of = h /\ row.op = thread[k].req.op /\ row.hash = thread[k].req
      /\ row.status = "accepted" /\ row.base = base
  <2>1. record.gen + 1 \in Nat BY <1>2, HistoryFields DEF MayBegin
  <2>2. thread[k].req.op \in Op BY DEF Request
  <2> QED BY <1>2, <2>1, <2>2 DEF TurnRow, Status, MayBegin
<1> HIDE DEF row
<1>9. s # None /\ row # None BY <1>2, <1>5, <1>8 DEF StoreAssumption
<1>10. HistoryRows'
  <2>1. hist' \in [History -> HistoryRow \cup {None}] BY <1>2, <1>4, <1>5
  <2>2. ASSUME NEW g \in History, hist'[g] # None PROVE hist'[g].at <= now'
    BY <1>2, <1>5, <1>6, <2>2 DEF HistoryInv, HistoryRows
  <2> QED BY <2>1, <2>2 DEF HistoryRows
<1>11. TurnRows'
  <2>1. turns' \in [Turn -> TurnRow \cup {None}] BY <1>2, <1>4, <1>8
  <2>2. ASSUME NEW u \in Turn, turns'[u] # None
        PROVE  /\ turns'[u].op = turns'[u].hash.op
               /\ turns'[u].of # None => hist'[turns'[u].of] # None
               /\ turns'[u].base # None => turns'[turns'[u].base] # None
               /\ turns'[u].status = "accepted" =>
                    turns'[u].of # None /\ Live(turns[u].of)' /\ hist'[turns'[u].of].active = u
    <3>1. CASE u = t
      <4>1. turns'[base] # None \/ base = None BY <1>1, <1>2, <1>7, <1>9 DEF MayBegin
      <4>2. h # None BY <1>2, Numbers
      <4> QED BY <1>5, <1>6, <1>7, <1>8, <1>9, <3>1, <4>1, <4>2 DEF Live
    <3>2. CASE u # t
      <4>1. turns'[u] = turns[u] /\ turns[u] # None BY <1>7, <2>2, <3>2
      <4>2. /\ turns[u].op = turns[u].hash.op
            /\ turns[u].of # None => hist[turns[u].of] # None
            /\ turns[u].base # None => turns[turns[u].base] # None
            /\ turns[u].status = "accepted" =>
                 turns[u].of # None /\ Live(turns[u].of) /\ hist[turns[u].of].active = u
        BY <4>1 DEF HistoryInv, TurnRows
      <4>3. turns[u].of \in History \cup {None} /\ turns[u].base \in Turn \cup {None}
        BY <4>1, TurnTyped DEF HistoryInv
      <4>4. turns[u].of # None => hist'[turns[u].of] # None BY <1>6, <1>9, <4>2, <4>3
      <4>5. turns[u].base # None => turns'[turns[u].base] # None BY <1>7, <1>9, <4>2, <4>3
      <4>6. ASSUME NEW g \in History, turns[u].of = g, turns[u].status = "accepted"
            PROVE  g # None /\ Live(g)' /\ hist'[g].active = u
        <5>1. Live(g) /\ hist[g].active = u BY <4>2, <4>6
        <5>2. u # None /\ g # None BY <1>2, Numbers
        <5>3. g # h
          <6>1. hist[h] = None \/ hist[h].active = None BY DEF MayBegin
          <6> QED BY <5>1, <5>2, <6>1 DEF Live
        <5>4. hist'[g] = hist[g] BY <1>6, <5>3
        <5> QED BY <5>1, <5>2, <5>4 DEF Live
      <4>7. turns[u].status = "accepted" => turns[u].of \in History BY <4>2, <4>3
      <4>8. PICK g : g = turns[u].of OBVIOUS
      <4>9. turns'[u].status = "accepted" => g # None /\ Live(g)' /\ hist'[g].active = u
        BY <4>1, <4>6, <4>7, <4>8
      <4>10. turns'[u].of = g BY <4>1, <4>8
      <4>11. turns'[u].status = "accepted" => turns'[u].of # None /\ Live(turns[u].of)' /\ hist'[turns'[u].of].active = u
        BY <4>9, <4>10 DEF Live
      <4> QED BY <4>1, <4>2, <4>4, <4>5, <4>11
    <3> QED BY <3>1, <3>2
  <2>3. ASSUME NEW v \in Turn, NEW u \in Turn, u < v, turns'[v] # None PROVE turns'[u] # None
    <3>1. CASE v = t BY <1>1, <1>7, <1>9, <2>3, <3>1
    <3>2. CASE v # t
      <4>1. turns[u] # None BY <1>7, <2>3, <3>2 DEF HistoryInv, TurnRows
      <4> QED BY <1>7, <1>9, <4>1
    <3> QED BY <3>1, <3>2
  <2> QED BY <2>1, <2>2, <2>3 DEF TurnRows
<1>12. Onward
  <2>1. ASSUME NEW g \in History PROVE RowGoesOn(g)
    <3>1. CASE g = h
      <4> SUFFICES ASSUME hist[h] # None PROVE RowGoesOn(h) BY <3>1 DEF RowGoesOn
      <4>1. record = hist[h] /\ hist[h].at \in Nat /\ hist[h].rev \in Nat /\ hist[h].at <= now
        BY RowTyped DEF MayBegin, HistoryInv, HistoryRows
      <4>2. hist'[h].at >= hist[h].at /\ hist'[h].rev > hist[h].rev BY <1>2, <1>5, <1>6, <4>1
      <4>3. hist[h].deleted = FALSE BY <4>1 DEF MayBegin
      <4> QED BY <1>5, <1>6, <1>9, <4>1, <4>2, <4>3 DEF RowGoesOn
    <3>2. CASE g # h
      <4>1. hist'[g] = hist[g] BY <1>6, <3>2
      <4>2. TurnsOf(g)' = TurnsOf(g)
        <5>1. \A u \in Turn : (turns'[u] # None /\ turns'[u].of = g) <=> (turns[u] # None /\ turns[u].of = g)
          BY <1>1, <1>7, <1>8, <3>2
        <5> QED BY <5>1 DEF TurnsOf
      <4>3. \A u \in TurnsOf(g) : turns'[u] = turns[u] BY <1>1, <1>7 DEF TurnsOf
      <4>4. ASSUME hist[g] # None PROVE hist[g].at >= hist[g].at BY <4>4, RowTyped DEF HistoryInv
      <4> QED BY <4>1, <4>2, <4>3, <4>4 DEF RowGoesOn
    <3> QED BY <3>1, <3>2
  <2>2. ASSUME NEW u \in Turn PROVE TurnGoesOn(u) BY <1>1, <1>7 DEF TurnGoesOn
  <2> QED BY <2>1, <2>2 DEF Onward
<1>13. Inserted(k, h, record, base, t) BY <1>1, <1>5, <1>6, <1>7, <1>8 DEF Inserted
<1> QED BY <1>10, <1>11, <1>12, <1>13 DEF t
LEMMA InsertChains ==
  ASSUME HistoryInv, NEW k \in Thread, NEW h \in History, NEW record, NEW base, MayBegin(k, h, record, base),
         Insert(k, h, record, base), thread[k].req \in Request, UNCHANGED now
  PROVE  Chains'
<1> DEFINE t == NextTurn
<1>0. Inserted(k, h, record, base, t) BY InsertRows
<1> HIDE DEF t
<1>1. /\ t \in Turn /\ turns[t] = None /\ \A u \in Turn : turns[u] # None => u < t
      /\ hist'[h].active = t /\ hist'[h].kind = record.kind /\ hist'[h].ctx = record.ctx
      /\ hist'[h].last = record.last
      /\ \A g \in History \ {h} : hist'[g] = hist[g]
      /\ turns'[t] \in TurnRow /\ turns'[t].of = h /\ turns'[t].status = "accepted" /\ turns'[t].base = base
      /\ \A u \in Turn \ {t} : turns'[u] = turns[u]
  BY <1>0 DEF Inserted
<1>2. StoreAssumption /\ t \in Nat /\ None \notin Turn /\ None \notin History /\ Turn \subseteq Nat /\ turns'[t] # None
  BY <1>1, Numbers, TurnFields DEF HistoryInv
<1>3. TurnsOf(h)' = TurnsOf(h) \cup {t}
  <2>1. \A u \in Turn : (turns'[u] # None /\ turns'[u].of = h) <=> ((turns[u] # None /\ turns[u].of = h) \/ u = t)
    BY <1>1, <1>2
  <2> QED BY <1>1, <2>1 DEF TurnsOf
<1>4. t \notin TurnsOf(h) /\ TurnsOf(h) \subseteq Turn /\ \A u \in TurnsOf(h) : turns'[u] = turns[u] /\ turns[u] # None
  BY <1>1 DEF TurnsOf
<1>5. Won(h)' = Won(h) BY <1>1, <1>3, <1>4 DEF Won
<1>6. Chained(h)'
  <2>1. hist[h] = None => TurnsOf(h) = {}
    <3>1. TurnRows BY DEF HistoryInv
    <3>2. ASSUME NEW u \in Turn, turns[u] # None, turns[u].of = h PROVE hist[h] # None
      <4>1. turns[u].of # None BY <1>2, <3>2
      <4> QED BY <3>1, <3>2, <4>1 DEF TurnRows
    <3> QED BY <3>2 DEF TurnsOf
  <2>2. base \notin TurnsOf(h)' \/ record.last # None \/ record.kind # "query"
    <3>1. base # t BY <1>1, <1>2 DEF MayBegin
    <3>2. base \notin TurnsOf(h) \/ record.last # None \/ record.kind # "query"
      BY <1>2, <2>1 DEF MayBegin, TurnsOf
    <3> QED BY <1>3, <3>1, <3>2
  <2>3. ActiveTurn(h)'
    <3>1. t \in TurnsOf(h)' BY <1>3
    <3>2. ASSUME NEW u \in TurnsOf(h)' PROVE u <= t
      <4>1. u = t \/ u \in TurnsOf(h) BY <1>3
      <4>2. u \in TurnsOf(h) => u < t /\ u \in Nat BY <1>1, <1>2, <1>4
      <4> QED BY <1>2, <4>1, <4>2
    <3>3. record.kind = "query" => IF record.last = None THEN base \notin TurnsOf(h)' ELSE base = record.last
      BY <2>2 DEF MayBegin
    <3>4. record.kind = "analysis" => record.last = None BY DEF MayBegin
    <3> QED BY <1>1, <3>1, <3>2, <3>3, <3>4 DEF ActiveTurn
  <2>4. CASE hist[h] = None /\ record.last = None /\ record.ctx = 0
    <3>1. Won(h)' = {} BY <1>5, <2>1, <2>4 DEF Won
    <3>2. Cardinality({}) = 0 BY FS_EmptySet
    <3> QED BY <1>1, <2>3, <2>4, <3>1, <3>2 DEF Chained
  <2>5. CASE hist[h] # None
    <3>0. record = hist[h] /\ hist[h].deleted = FALSE BY <2>5 DEF MayBegin
    <3>1. record = hist[h] /\ Live(h) BY <2>5, <3>0 DEF Live
    <3>2. Chained(h) BY <3>1 DEF HistoryInv, Chains
    <3>3. ASSUME NEW w \in Won(h), Follows(w, h) PROVE Follows(w, h)'
      <4>1. w \in TurnsOf(h) BY <3>3 DEF Won
      <4>2. turns'[w].base = turns[w].base BY <1>4, <4>1
      <4>3. turns[w].base # t BY <1>1, <1>2, <1>4, <4>1 DEF HistoryInv, TurnRows
      <4>4. turns[w].base \in TurnsOf(h)' <=> turns[w].base \in TurnsOf(h) BY <1>3, <4>3
      <4> QED BY <1>5, <3>3, <4>2, <4>4 DEF Follows
    <3>4. hist'[h].kind = "query" => \A w \in Won(h)' : Follows(w, h)'
      BY <1>1, <1>5, <3>1, <3>2, <3>3 DEF Chained
    <3>5. hist'[h].ctx = Cardinality(Won(h)') BY <1>1, <1>5, <3>1, <3>2 DEF Chained
    <3>6. IF hist'[h].last = None THEN Won(h)' = {}
          ELSE hist'[h].last \in Won(h)' /\ \A u \in Won(h)' : u <= hist'[h].last
      BY <1>1, <1>5, <3>1, <3>2 DEF Chained
    <3>7. hist'[h].kind = "analysis" => \A v, u \in Won(h)' : v = u BY <1>1, <1>5, <3>1, <3>2 DEF Chained
    <3> QED BY <2>3, <3>4, <3>5, <3>6, <3>7 DEF Chained
  <2>6. record # None BY <1>2, HistoryFields DEF MayBegin
  <2> QED BY <2>4, <2>5, <2>6 DEF MayBegin
<1>7. ASSUME NEW g \in History, g # h, Live(g)' PROVE Chained(g)'
  <2>1. hist'[g] = hist[g] BY <1>1, <1>7
  <2>2. Chained(g) BY <1>7, <2>1 DEF HistoryInv, Chains, Live
  <2>3. TurnsOf(g)' = TurnsOf(g)
    <3>1. \A u \in Turn : (turns'[u] # None /\ turns'[u].of = g) <=> (turns[u] # None /\ turns[u].of = g)
      BY <1>1, <1>7
    <3> QED BY <3>1 DEF TurnsOf
  <2>4. \A u \in TurnsOf(g) : turns'[u] = turns[u] BY <1>1 DEF TurnsOf
  <2> QED BY <1>2, <2>1, <2>2, <2>3, <2>4, ChainUntouched
<1> QED BY <1>6, <1>7 DEF Chains

LEMMA InsertKeeps ==
  ASSUME HistoryInv, NEW k \in Thread, NEW h \in History, NEW record, NEW base, MayBegin(k, h, record, base),
         Insert(k, h, record, base), thread[k].req \in Request, UNCHANGED <<saved, epoch, client, told, now>>,
         lease' \subseteq History
  PROVE  HistoryInv'
<1> DEFINE t == NextTurn  r == thread[k].req
<1>1. /\ t \in Turn /\ turns[t] = None
      /\ hist'[h] \in HistoryRow /\ hist'[h].op = record.op
      /\ turns'[t] \in TurnRow /\ turns'[t].of = h /\ turns'[t].hash = r
      /\ \A u \in Turn \ {t} : turns'[u] = turns[u]
      /\ HistoryRows' /\ TurnRows' /\ Onward
  BY InsertRows DEF Inserted
<1>2. StoreAssumption /\ StoreAssumption' BY DEF HistoryInv, StoreAssumption
<1>3. hist'[h] # None /\ turns'[t] # None BY <1>1, <1>2, HistoryFields, TurnFields
<1>4. Chains' BY InsertChains
<1>5. Hashes'
  <2>1. ASSUME NEW u \in Turn, turns'[u] # None PROVE AskedBy(u)'
    <3>1. CASE u = t
      <4>1. IF r.act \in {"submit", "resume"} THEN r.of = h ELSE record.op = r.op BY DEF MayBegin
      <4> HIDE DEF t
      <4> QED BY <1>1, <1>3, <3>1, <4>1 DEF AskedBy
    <3>2. CASE u # t
      <4>1. turns[u] # None BY <1>1, <2>1, <3>2
      <4>2. AskedBy(u) BY <4>1 DEF HistoryInv, Hashes
      <4> QED BY <1>1, <4>1, <4>2, AskedGoesOn DEF HistoryInv
    <3> QED BY <3>1, <3>2
  <2>2. ASSUME NEW u \in Turn, NEW v \in Turn, turns'[u] # None, turns'[v] # None, turns'[u].hash = turns'[v].hash
        PROVE  u = v
    <3>1. \A w \in Turn : turns[w] # None => turns[w].hash # r BY DEF MayBegin
    <3>2. \A w, x \in Turn : turns[w] # None /\ turns[x] # None /\ turns[w].hash = turns[x].hash => w = x
      BY DEF HistoryInv, Hashes
    <3> HIDE DEF t, r
    <3> QED BY <1>1, <2>2, <3>1, <3>2
  <2> QED BY <2>1, <2>2 DEF Hashes
<1>6. Callers'
  <2>1. PICK c : c = Working(thread[k], h, t, record.gen + 1) OBVIOUS
  <2>2. thread' = [thread EXCEPT ![k] = c] BY <2>1 DEF Insert, Working
  <2>3. c \in Caller /\ c.pc = "work" /\ c.req = r /\ c.of = h /\ c.turn = t
    <3>1. record.gen + 1 \in Nat BY <1>2, HistoryFields DEF MayBegin
    <3>2. thread[k] \in Caller BY CallerAt
    <3> QED BY <1>1, <2>1, <3>1, <3>2, CallerTakes
  <2>4. thread \in [Thread -> Caller] BY DEF HistoryInv, Callers
  <2>5. thread' \in [Thread -> Caller] /\ thread'[k] = c /\ \A i \in Thread \ {k} : thread'[i] = thread[i]
    BY <2>2, <2>3, <2>4
  <2>6. HoldsTurn(c)' BY <1>1, <1>3, <2>3 DEF HoldsTurn
  <2>7. CallerFits(c)' BY <2>3, <2>6 DEF CallerFits, PendingPc
  <2>8. CallerFits(thread[k])' BY <2>5, <2>7
  <2> QED BY <1>1, <2>5, <2>8, CallersGoOn DEF HistoryInv
<1>7. AnswersKept' BY <1>1, AnswersGoOn DEF HistoryInv
<1>8. SavedRows' /\ Viewed' /\ Scanned'
  BY <1>1, SavedGoOn, ViewGoesOn, ScanGoesOn DEF HistoryInv, client
<1>9. HistoryWorld' BY DEF HistoryInv, HistoryWorld
<1> QED BY <1>1, <1>2, <1>4, <1>5, <1>6, <1>7, <1>8, <1>9 DEF HistoryInv
LEMMA BeginKeeps == ASSUME HistoryInv, NEW k \in Thread, Begin(k) PROVE HistoryInv'
<1> DEFINE r == thread[k].req  h == r.of
<1>1. thread[k].pc = "begin" /\ r.act \in {"submit", "resume"} BY DEF Begin
<1>2. Asks(r, "begin") BY <1>1, CallerAt DEF CallerFits, PendingPc
<1>3. r \in Request /\ h \in History /\ hist[h] # None BY <1>1, <1>2 DEF Asks
<1>4. CASE Live(h) /\ Previous(h, r.op) # {}
  <2>1. PICK t \in Previous(h, r.op) : Repeats(k, h, t) BY <1>4 DEF Begin
  <2>2. t \in Turn /\ turns[t] # None BY <2>1 DEF Previous, TurnsOf
  <2> QED BY <2>1, <2>2, RepeatsKeeps
<1>5. CASE ~(Live(h) /\ Previous(h, r.op) # {})
  <2>1. UNCHANGED <<saved, epoch, client, told, now>> BY <1>5 DEF Begin
  <2>2. CASE Release(k, h) /\ UNCHANGED <<hist, turns>>
    <3>1. thread' = [thread EXCEPT ![k] = Over] /\ lease' \subseteq lease BY <2>2 DEF Release
    <3> QED BY <2>1, <2>2, <3>1, GivesUp
  <2>3. CASE /\ Live(h) /\ hist[h].active = None /\ ContextKnown(k, h)
             /\ Insert(k, h, hist[h], IF hist[h].kind = "query" THEN hist[h].last ELSE None)
             /\ UNCHANGED lease
    <3> DEFINE base == IF hist[h].kind = "query" THEN hist[h].last ELSE None
    <3>1. hist[h] \in HistoryRow /\ hist[h].deleted = FALSE /\ hist[h].last \in Turn \cup {None}
      BY <1>3, <2>3, RowTyped DEF HistoryInv, Live
    <3>2. hist[h].last # None => turns[hist[h].last] # None
      <4>1. Chained(h) BY <1>3, <2>3 DEF HistoryInv, Chains
      <4> QED BY <4>1 DEF Chained, Won, TurnsOf
    <3>3. hist[h].kind = "analysis" => hist[h].last = None
      <4>1. ASSUME hist[h].kind = "analysis" PROVE hist[h].last = None
        <5>1. r.act = "resume" BY <1>1, <1>2, <4>1 DEF Asks
        <5>2. hist[h].rev = r.rev BY <2>3, <5>1 DEF ContextKnown
        <5> QED BY <1>2, <2>3, <5>1, <5>2 DEF Asks
      <4> QED BY <4>1
    <3>4. ASSUME NEW u \in Turn, turns[u] # None, turns[u].hash = r PROVE FALSE
      <4>1. AskedBy(u) /\ turns[u].op = r.op BY <3>4 DEF HistoryInv, Hashes, TurnRows
      <4>2. turns[u].of = h BY <1>1, <2>3, <3>4, <4>1 DEF AskedBy, Live
      <4>3. u \in Previous(h, r.op) BY <3>4, <4>1, <4>2 DEF Previous, TurnsOf
      <4> QED BY <1>5, <2>3, <4>3
    <3>5. MayBegin(k, h, hist[h], base) BY <1>1, <2>3, <3>1, <3>2, <3>3, <3>4 DEF MayBegin
    <3>6. lease' \subseteq History BY <2>3 DEF HistoryInv, HistoryWorld
    <3>7. Insert(k, h, hist[h], base) BY <2>3
    <3> HIDE DEF base, r, h
    <3> QED BY <1>3, <2>1, <3>5, <3>6, <3>7, InsertKeeps DEF r
  <2> QED BY <1>1, <1>5, <2>2, <2>3 DEF Begin
<1> QED BY <1>4, <1>5

LEMMA BeginRequeryKeeps == ASSUME HistoryInv, NEW k \in Thread, BeginRequery(k) PROVE HistoryInv'
<1> DEFINE r == thread[k].req
<1>1. thread[k].pc = "begin" /\ r.act \notin {"submit", "resume"} BY DEF BeginRequery
<1>2. Asks(r, "begin") BY <1>1, CallerAt DEF CallerFits, PendingPc
<1>3. r \in Request /\ r.of \in Turn /\ turns[r.of] # None /\ r.op \in Op BY <1>1, <1>2 DEF Asks, Request
<1>4. CASE ByOperation(r.op) # {}
  <2>1. PICK h \in ByOperation(r.op) :
          IF hist[h].hash = r /\ Live(h) THEN \E t \in Previous(h, r.op) : Repeats(k, None, t)
          ELSE /\ thread' = [thread EXCEPT ![k] = Over]
               /\ UNCHANGED <<hist, turns, saved, lease, epoch, client, told, now>>
    BY <1>4 DEF BeginRequery
  <2>2. CASE \E t \in Previous(h, r.op) : Repeats(k, None, t)
    <3>1. PICK t \in Previous(h, r.op) : Repeats(k, None, t) BY <2>2
    <3>2. t \in Turn /\ turns[t] # None BY <3>1 DEF Previous, TurnsOf
    <3> QED BY <3>1, <3>2, RepeatsKeeps
  <2>3. CASE /\ thread' = [thread EXCEPT ![k] = Over]
             /\ UNCHANGED <<hist, turns, saved, lease, epoch, client, told, now>>
    BY <2>3, GivesUp
  <2> QED BY <2>1, <2>2, <2>3
<1>5. CASE ByOperation(r.op) = {}
  <2>1. UNCHANGED <<saved, epoch, client, told, now>> BY <1>5 DEF BeginRequery
  <2>2. CASE thread' = [thread EXCEPT ![k] = Over] /\ UNCHANGED <<hist, turns, lease>>
    BY <2>1, <2>2, GivesUp
  <2>3. CASE \E h \in Free(History, hist), kind \in Source(k) :
               /\ Insert(k, h, Record(kind, r.op, r, now), IF kind = "query" THEN r.of ELSE None)
               /\ lease' = lease \cup {h}
    <3>1. PICK h \in Free(History, hist), kind \in Source(k) :
               /\ Insert(k, h, Record(kind, r.op, r, now), IF kind = "query" THEN r.of ELSE None)
               /\ lease' = lease \cup {h}
      BY <2>3
    <3>2. h \in History /\ hist[h] = None BY DEF Free
    <3>3. kind \in Kinds
      <4>1. CASE r.act = "requery saved"
        <5>1. kind \in {s.kind : s \in {q \in saved : q.turn = r.of}} BY <4>1 DEF Source
        <5> QED BY <5>1 DEF HistoryInv, SavedRows
      <4>2. CASE r.act # "requery saved"
        <5>1. PICK g \in History : Live(g) /\ kind = hist[g].kind BY <4>2 DEF Source
        <5> QED BY <5>1, RowTyped DEF HistoryInv, Live
      <4> QED BY <4>1, <4>2
    <3> DEFINE base == IF kind = "query" THEN r.of ELSE None
    <3>4. PICK record : record = Record(kind, r.op, r, now) OBVIOUS
    <3>5. now \in Nat BY DEF HistoryInv, HistoryWorld, StoreAssumption
    <3>6. /\ record \in HistoryRow /\ record.deleted = FALSE /\ record.last = None /\ record.ctx = 0
          /\ record.op = r.op /\ record.kind = kind
      BY <1>3, <3>3, <3>4, <3>5, NewRow
    <3>7. ASSUME NEW u \in Turn, turns[u] # None, turns[u].hash = r PROVE FALSE
      <4>1. AskedBy(u) BY <3>7 DEF HistoryInv, Hashes
      <4>2. PICK g \in History : hist[g] # None /\ hist[g].op = r.op BY <1>1, <3>7, <4>1 DEF AskedBy
      <4> QED BY <1>5, <4>2 DEF ByOperation
    <3>8. MayBegin(k, h, record, base) BY <1>1, <1>3, <3>2, <3>6, <3>7 DEF MayBegin
    <3>9. lease' \subseteq History BY <3>1, <3>2 DEF HistoryInv, HistoryWorld
    <3>10. Insert(k, h, record, base) BY <3>1, <3>4
    <3> HIDE DEF base
    <3> QED BY <1>3, <2>1, <3>2, <3>8, <3>9, <3>10, InsertKeeps
  <2> QED BY <1>1, <1>5, <2>2, <2>3 DEF BeginRequery
<1> QED BY <1>4, <1>5
-----------------------------------------------------------------------------
(***************************************************************************)
(* The attempt works, and its thread answers.                              *)
(***************************************************************************)
Resulted(c, pc, result) == [c EXCEPT !.pc = pc, !.result = result]

LEMMA CallerResults ==
  ASSUME NEW c \in Caller, NEW pc \in {"finish", "release"}, NEW result \in Status, NEW s, s = Resulted(c, pc, result)
  PROVE  s \in Caller /\ s.pc = pc /\ s.result = result /\ s.req = c.req /\ s.of = c.of /\ s.turn = c.turn
<1>1. PICK c1 : c1 = [c EXCEPT !.pc = pc] OBVIOUS
<1>2. c1 \in Caller BY <1>1, CallerMoves
<1>3. PICK c2 : c2 = [c1 EXCEPT !.result = result] OBVIOUS
<1>4. c2 \in Caller BY <1>2, <1>3 DEF Caller
<1>5. s = c2 BY <1>1, <1>3 DEF Resulted
<1>6. s.pc = pc /\ s.result = result /\ s.req = c.req /\ s.of = c.of /\ s.turn = c.turn BY DEF Caller, Resulted
<1> QED BY <1>4, <1>5, <1>6

LEMMA WorkKeeps == ASSUME HistoryInv, NEW k \in Thread, Work(k) PROVE HistoryInv'
<1>1. PICK result \in {"succeeded", "failed", "unconfirmed"} :
        thread' = [thread EXCEPT ![k].pc = IF result = "unconfirmed" THEN "release" ELSE "finish",
                                 ![k].result = result]
  BY DEF Work
<1>2. thread[k].pc = "work" /\ UNCHANGED <<hist, turns, saved, lease, epoch, client, told, now>> BY DEF Work
<1>3. PICK pc \in {"finish", "release"} : pc = IF result = "unconfirmed" THEN "release" ELSE "finish" OBVIOUS
<1>4. PICK c : c = Resulted(thread[k], pc, result) OBVIOUS
<1>5. thread[k] \in Caller /\ CallerFits(thread[k]) /\ thread \in [Thread -> Caller] BY DEF HistoryInv, Callers
<1>6. c \in Caller /\ c.pc = pc /\ c.result = result /\ c.req = thread[k].req /\ c.of = thread[k].of
      /\ c.turn = thread[k].turn
  BY <1>4, <1>5, CallerResults DEF Status
<1>7. thread' = [thread EXCEPT ![k] = c] BY <1>1, <1>3, <1>4, <1>5 DEF Resulted
<1>8. HoldsTurn(thread[k]) BY <1>2, <1>5 DEF CallerFits, HoldingPc
<1>9. CallerFits(c) BY <1>3, <1>6, <1>8 DEF CallerFits, HoldsTurn, PendingPc, Concluded
<1>10. lease' \subseteq History BY <1>2 DEF HistoryInv, HistoryWorld
<1> QED BY <1>2, <1>6, <1>7, <1>9, <1>10, ThreadMoves

LEMMA AnswerKeeps == ASSUME HistoryInv, NEW k \in Thread, Answer(k) PROVE HistoryInv'
<1>1. lease' \subseteq lease /\ UNCHANGED <<hist, turns, saved, epoch, client, now>> BY DEF Answer
<1>2. HoldsTurn(thread[k]) BY CallerAt DEF Answer, CallerFits, HoldingPc
<1>3. CASE thread[k].pc = "answer" /\ Tell(k, thread[k].turn)
  BY <1>1, <1>2, <1>3, TellKeeps DEF HoldsTurn
<1>4. CASE thread' = [thread EXCEPT ![k] = Over] /\ UNCHANGED told BY <1>1, <1>4, GivesUp
<1> QED BY <1>3, <1>4 DEF Answer

-----------------------------------------------------------------------------
(***************************************************************************)
(* Turns are settled, by their attempt or by whoever gives them up.        *)
(***************************************************************************)
RowSettles(h) ==
  \/ hist'[h] = hist[h]
  \/ /\ Live(h) /\ hist[h].active \in Turn /\ turns'[hist[h].active].status # "accepted"
     /\ hist'[h] \in HistoryRow /\ hist'[h].active = None /\ hist'[h].rev = hist[h].rev + 1 /\ hist'[h].at = now
     /\ hist'[h].kind = hist[h].kind /\ hist'[h].op = hist[h].op /\ hist'[h].deleted = hist[h].deleted
TurnSettles(t) ==
  \/ turns'[t] = turns[t]
  \/ /\ turns[t] # None /\ turns[t].status = "accepted" /\ turns'[t] \in TurnRow /\ turns'[t].status # "accepted"
     /\ turns'[t].of = turns[t].of /\ turns'[t].op = turns[t].op /\ turns'[t].hash = turns[t].hash
     /\ turns'[t].base = turns[t].base
     /\ \E h \in History : turns[t].of = h /\ hist[h].rev < hist'[h].rev
Settles ==
  /\ DOMAIN hist' = History /\ hist' = [h \in History |-> hist'[h]]
  /\ DOMAIN turns' = Turn /\ turns' = [t \in Turn |-> turns'[t]]
  /\ (\A h \in History : RowSettles(h)) /\ (\A t \in Turn : TurnSettles(t))

LEMMA SettleRows ==
  ASSUME HistoryInv, Settles, UNCHANGED now
  PROVE  /\ HistoryRows' /\ TurnRows' /\ Onward /\ Hashes'
         /\ \A h \in History : TurnsOf(h)' = TurnsOf(h)
         /\ \A h \in History : hist'[h] = hist[h] => \A t \in TurnsOf(h) : turns'[t] = turns[t]
<1>1. StoreAssumption /\ now \in Nat /\ None \notin Turn /\ None \notin History /\ HistoryRows /\ TurnRows
  BY Numbers DEF HistoryInv, HistoryWorld, StoreAssumption
<1>2. \A h \in History : (hist'[h] = None) = (hist[h] = None)
  <2> SUFFICES ASSUME NEW h \in History PROVE (hist'[h] = None) = (hist[h] = None) OBVIOUS
  <2>1. RowSettles(h) BY DEF Settles
  <2> QED BY <1>1, <2>1, HistoryFields DEF RowSettles, Live
<1>3. \A t \in Turn : /\ (turns'[t] = None) = (turns[t] = None)
                      /\ turns'[t].of = turns[t].of /\ turns'[t].op = turns[t].op /\ turns'[t].hash = turns[t].hash
                      /\ turns'[t].base = turns[t].base
                      /\ (turns[t].status # "accepted" => turns'[t] = turns[t])
  <2> SUFFICES ASSUME NEW t \in Turn
               PROVE  /\ (turns'[t] = None) = (turns[t] = None)
                      /\ turns'[t].of = turns[t].of /\ turns'[t].op = turns[t].op /\ turns'[t].hash = turns[t].hash
                      /\ turns'[t].base = turns[t].base
                      /\ (turns[t].status # "accepted" => turns'[t] = turns[t])
    OBVIOUS
  <2>1. TurnSettles(t) BY DEF Settles
  <2> QED BY <1>1, <2>1, TurnFields DEF TurnSettles
<1>4. \A h \in History : TurnsOf(h)' = TurnsOf(h)
  <2> SUFFICES ASSUME NEW h \in History PROVE TurnsOf(h)' = TurnsOf(h) OBVIOUS
  <2>1. \A u \in Turn : (turns'[u] # None /\ turns'[u].of = h) <=> (turns[u] # None /\ turns[u].of = h) BY <1>3
  <2> QED BY <2>1 DEF TurnsOf
<1>5. ASSUME NEW h \in History, hist'[h] = hist[h], NEW t \in TurnsOf(h) PROVE turns'[t] = turns[t]
  <2>1. t \in Turn /\ turns[t] # None /\ turns[t].of = h BY DEF TurnsOf
  <2>2. TurnSettles(t) BY <2>1 DEF Settles
  <2>3. hist[h].rev \in Nat BY <1>1, <1>3, <2>1, RowTyped DEF TurnRows
  <2> QED BY <1>5, <2>1, <2>2, <2>3 DEF TurnSettles
<1>6. HistoryRows'
  <2>1. ASSUME NEW h \in History PROVE hist'[h] \in HistoryRow \cup {None} /\ (hist'[h] # None => hist'[h].at <= now)
    <3>1. RowSettles(h) BY DEF Settles
    <3>2. hist[h] \in HistoryRow \cup {None} /\ (hist[h] # None => hist[h].at <= now) BY <1>1 DEF HistoryRows
    <3> QED BY <1>1, <3>1, <3>2 DEF RowSettles
  <2>2. hist' \in [History -> HistoryRow \cup {None}] BY <2>1 DEF Settles
  <2> QED BY <2>1, <2>2 DEF HistoryRows
<1>7. TurnRows'
  <2>1. turns' \in [Turn -> TurnRow \cup {None}]
    <3>1. ASSUME NEW t \in Turn PROVE turns'[t] \in TurnRow \cup {None}
      <4>1. TurnSettles(t) BY DEF Settles
      <4> QED BY <1>1, <4>1 DEF TurnRows, TurnSettles
    <3> QED BY <3>1 DEF Settles
  <2>2. ASSUME NEW t \in Turn, turns'[t] # None
        PROVE  /\ turns'[t].op = turns'[t].hash.op
               /\ turns'[t].of # None => hist'[turns'[t].of] # None
               /\ turns'[t].base # None => turns'[turns'[t].base] # None
    <3>1. turns[t] # None BY <1>3, <2>2
    <3>2. turns[t].of \in History \cup {None} /\ turns[t].base \in Turn \cup {None} BY <1>1, <3>1, TurnTyped
    <3>3. /\ turns[t].op = turns[t].hash.op
          /\ turns[t].of # None => hist[turns[t].of] # None
          /\ turns[t].base # None => turns[turns[t].base] # None
      BY <1>1, <3>1 DEF TurnRows
    <3> QED BY <1>2, <1>3, <3>2, <3>3
  <2>3. ASSUME NEW t \in Turn, NEW h, turns'[t] # None, turns'[t].status = "accepted", turns'[t].of = h
        PROVE  h # None /\ Live(h)' /\ hist'[h].active = t
    <3>1. TurnSettles(t) BY DEF Settles
    <3>2. turns'[t] = turns[t] BY <2>3, <3>1 DEF TurnSettles
    <3>3. h # None /\ Live(h) /\ hist[h].active = t BY <1>1, <2>3, <3>2 DEF TurnRows
    <3>4. h \in History BY <1>1, <2>3, <3>2, <3>3, TurnTyped
    <3>5. RowSettles(h) BY <3>4 DEF Settles
    <3>6. hist'[h] = hist[h] BY <2>3, <3>3, <3>5 DEF RowSettles
    <3> QED BY <3>3, <3>6 DEF Live
  <2>4. ASSUME NEW t \in Turn, NEW u \in Turn, u < t, turns'[t] # None PROVE turns'[u] # None
    BY <1>1, <1>3, <2>4 DEF TurnRows
  <2>5. ASSUME NEW t \in Turn, turns'[t] # None, turns'[t].status = "accepted"
        PROVE  turns'[t].of # None /\ Live(turns[t].of)' /\ hist'[turns'[t].of].active = t
    <3>1. PICK h : h = turns'[t].of OBVIOUS
    <3>2. h # None /\ Live(h)' /\ hist'[h].active = t BY <2>3, <2>5, <3>1
    <3> QED BY <3>1, <3>2 DEF Live
  <2> QED BY <2>1, <2>2, <2>4, <2>5 DEF TurnRows
<1>8. Onward
  <2>1. ASSUME NEW h \in History PROVE RowGoesOn(h)
    <3> SUFFICES ASSUME hist[h] # None PROVE RowGoesOn(h) BY DEF RowGoesOn
    <3>1. RowSettles(h) BY DEF Settles
    <3>2. hist[h].rev \in Nat /\ hist[h].at \in Nat /\ hist[h].at <= now BY <1>1, RowTyped DEF HistoryRows
    <3>3. CASE hist'[h] = hist[h]
      <4>1. hist[h].at >= hist[h].at BY <3>2
      <4> QED BY <1>4, <1>5, <3>3, <4>1 DEF RowGoesOn
    <3>4. CASE hist'[h] # hist[h]
      <4>1. /\ hist'[h].rev = hist[h].rev + 1 /\ hist'[h].at = now
            /\ hist'[h].kind = hist[h].kind /\ hist'[h].op = hist[h].op /\ hist'[h].deleted = hist[h].deleted
        BY <3>1, <3>4 DEF RowSettles
      <4>2. hist'[h].rev > hist[h].rev /\ hist'[h].at >= hist[h].at BY <1>1, <3>2, <4>1
      <4>3. hist'[h] # None BY <1>2
      <4> QED BY <4>1, <4>2, <4>3 DEF RowGoesOn
    <3> QED BY <3>3, <3>4
  <2>2. ASSUME NEW t \in Turn PROVE TurnGoesOn(t) BY <1>3 DEF TurnGoesOn
  <2> QED BY <2>1, <2>2 DEF Onward
<1>9. Hashes'
  <2>1. ASSUME NEW t \in Turn, turns'[t] # None PROVE AskedBy(t)'
    <3>1. turns[t] # None BY <1>3, <2>1
    <3>2. AskedBy(t) BY <3>1 DEF HistoryInv, Hashes
    <3> QED BY <1>1, <1>8, <3>1, <3>2, AskedGoesOn
  <2>2. ASSUME NEW u \in Turn, NEW v \in Turn, turns'[u] # None, turns'[v] # None, turns'[u].hash = turns'[v].hash
        PROVE  u = v
    BY <1>3, <2>2 DEF HistoryInv, Hashes
  <2> QED BY <2>1, <2>2 DEF Hashes
<1> QED BY <1>4, <1>5, <1>6, <1>7, <1>8, <1>9

\* A history whose turn was given up.
LEMMA GivenUpChain ==
  ASSUME HistoryInv, Settles, UNCHANGED now, NEW h \in History, Live(h), hist'[h].active = None,
         hist'[h].kind = hist[h].kind, hist'[h].ctx = hist[h].ctx, hist'[h].last = hist[h].last,
         \A t \in TurnsOf(h) : turns'[t] = turns[t] \/ (turns[t].status = "accepted" /\ turns'[t].status = "unconfirmed")
  PROVE  Chained(h)'
<1>1. TurnsOf(h)' = TurnsOf(h) BY SettleRows
<1>2. \A t \in TurnsOf(h) : turns'[t].base = turns[t].base
  <2> SUFFICES ASSUME NEW t \in TurnsOf(h) PROVE turns'[t].base = turns[t].base OBVIOUS
  <2>1. TurnSettles(t) BY DEF Settles, TurnsOf
  <2> QED BY <2>1 DEF TurnSettles
<1>3. \A t \in TurnsOf(h) : turns'[t].status = "succeeded" <=> turns[t].status = "succeeded" OBVIOUS
<1>4. SameChain(h) BY <1>1, <1>2, <1>3 DEF SameChain
<1>5. Chained(h) BY DEF HistoryInv, Chains
<1> QED BY <1>4, <1>5, ChainStays DEF HistoryInv

LEMMA UntouchedChain ==
  ASSUME HistoryInv, Settles, UNCHANGED now, NEW h \in History, Live(h)', hist'[h] = hist[h]
  PROVE  Chained(h)'
<1>1. TurnsOf(h)' = TurnsOf(h) /\ \A t \in TurnsOf(h) : turns'[t] = turns[t] BY SettleRows
<1>2. Chained(h) BY DEF HistoryInv, Chains, Live
<1> QED BY <1>1, <1>2, ChainUntouched DEF HistoryInv

\* The turns of some histories are given up.
LEMMA GivesUpTurns ==
  ASSUME HistoryInv, NEW H \in SUBSET History, \A h \in H : Live(h) /\ hist[h].active # None,
         NEW T, T = {hist[h].active : h \in H}, turns' = Unconfirmed(T),
         hist' = [h \in History |-> IF h \in H THEN GivenUp(h) ELSE hist[h]], UNCHANGED now
  PROVE  HistoryRows' /\ TurnRows' /\ Onward /\ Hashes' /\ Chains'
<1>1. StoreAssumption /\ now \in Nat /\ HistoryRows /\ TurnRows
  BY DEF HistoryInv, HistoryWorld, StoreAssumption
<1>2. ASSUME NEW h \in H
      PROVE  /\ hist[h].active \in Turn /\ hist[h].active \in TurnsOf(h) /\ turns[hist[h].active] # None
             /\ turns[hist[h].active].status = "accepted"
             /\ hist[h].rev \in Nat /\ hist[h] \in HistoryRow
  <2>1. ActiveTurn(h) BY DEF HistoryInv, Chains, Chained
  <2>2. hist[h].rev \in Nat /\ hist[h] \in HistoryRow BY <1>1, RowTyped DEF Live
  <2> QED BY <2>1, <2>2 DEF ActiveTurn, TurnsOf
<1>3. ASSUME NEW h \in H
      PROVE  /\ hist'[h] \in HistoryRow /\ hist'[h].active = None /\ hist'[h].rev = hist[h].rev + 1 /\ hist'[h].at = now
             /\ hist'[h].kind = hist[h].kind /\ hist'[h].op = hist[h].op /\ hist'[h].deleted = hist[h].deleted
             /\ hist'[h].ctx = hist[h].ctx /\ hist'[h].last = hist[h].last
  <2>1. hist'[h] = Abandoned(hist[h], now) BY DEF GivenUp, Abandoned
  <2> QED BY <1>1, <1>2, <2>1, GivenUpRow
<1>4. ASSUME NEW t \in T
      PROVE  \E h \in H :
               /\ t = hist[h].active /\ t \in TurnsOf(h) /\ t \in Turn /\ turns[t] # None /\ turns[t].status = "accepted"
               /\ turns'[t] \in TurnRow /\ turns'[t].status = "unconfirmed"
               /\ turns'[t].of = turns[t].of /\ turns'[t].op = turns[t].op /\ turns'[t].hash = turns[t].hash
               /\ turns'[t].base = turns[t].base
  <2>1. PICK h \in H : t = hist[h].active OBVIOUS
  <2>2. t \in TurnsOf(h) /\ t \in Turn /\ turns[t] # None /\ turns[t].status = "accepted" BY <1>2, <2>1
  <2>3. turns'[t] = WithStatus(turns[t], "unconfirmed") BY <2>2 DEF Unconfirmed, WithStatus
  <2>4. turns[t] \in TurnRow BY <1>1, <2>2, TurnTyped
  <2>5. "unconfirmed" \in Status BY DEF Status
  <2>6. /\ turns'[t] \in TurnRow /\ turns'[t].status = "unconfirmed"
        /\ turns'[t].of = turns[t].of /\ turns'[t].op = turns[t].op /\ turns'[t].hash = turns[t].hash
        /\ turns'[t].base = turns[t].base
    BY <2>3, <2>4, <2>5, TurnSettled
  <2> QED BY <2>1, <2>2, <2>6
<1>5. \A t \in Turn \ T : turns'[t] = turns[t] BY DEF Unconfirmed
<1>6. \A h \in History \ H : hist'[h] = hist[h] OBVIOUS
<1>7. Settles
  <2>1. ASSUME NEW h \in History PROVE RowSettles(h)
    <3>1. CASE h \in H
      <4>1. turns'[hist[h].active].status # "accepted" BY <1>4, <3>1
      <4> QED BY <1>2, <1>3, <3>1, <4>1 DEF RowSettles
    <3>2. CASE h \notin H BY <1>6, <3>2 DEF RowSettles
    <3> QED BY <3>1, <3>2
  <2>2. ASSUME NEW t \in Turn PROVE TurnSettles(t)
    <3>1. CASE t \in T
      <4>1. PICK h \in H : /\ t = hist[h].active /\ t \in TurnsOf(h) /\ turns[t] # None /\ turns[t].status = "accepted"
               /\ turns'[t] \in TurnRow /\ turns'[t].status = "unconfirmed"
               /\ turns'[t].of = turns[t].of /\ turns'[t].op = turns[t].op /\ turns'[t].hash = turns[t].hash
               /\ turns'[t].base = turns[t].base
        BY <1>4, <3>1
      <4>2. turns[t].of = h BY <4>1 DEF TurnsOf
      <4>3. hist[h].rev \in Nat /\ hist'[h].rev = hist[h].rev + 1 BY <1>2, <1>3
      <4>4. hist[h].rev < hist'[h].rev BY <4>3
      <4> QED BY <4>1, <4>2, <4>4 DEF TurnSettles
    <3>2. CASE t \notin T BY <1>5, <3>2 DEF TurnSettles
    <3> QED BY <3>1, <3>2
  <2>3. DOMAIN hist' = History /\ hist' = [h \in History |-> hist'[h]] OBVIOUS
  <2>4. DOMAIN turns' = Turn /\ turns' = [t \in Turn |-> turns'[t]] BY DEF Unconfirmed
  <2> QED BY <2>1, <2>2, <2>3, <2>4 DEF Settles
<1>8. Chains'
  <2> SUFFICES ASSUME NEW h \in History, Live(h)' PROVE Chained(h)' BY DEF Chains
  <2>1. CASE h \in H
    <3>1. \A t \in TurnsOf(h) : turns'[t] = turns[t] \/ (turns[t].status = "accepted" /\ turns'[t].status = "unconfirmed")
      BY <1>4, <1>5 DEF TurnsOf
    <3> QED BY <1>3, <1>7, <2>1, <3>1, GivenUpChain
  <2>2. CASE h \notin H BY <1>6, <1>7, <2>2, UntouchedChain
  <2> QED BY <2>1, <2>2
<1> QED BY <1>7, <1>8, SettleRows

LEMMA ReconcileKeeps == ASSUME HistoryInv, Reconcile PROVE HistoryInv'
<1>1. PICK h \in History :
        /\ Live(h) /\ hist[h].active # None
        /\ turns' = Unconfirmed({hist[h].active}) /\ hist' = [hist EXCEPT ![h] = GivenUp(h)]
        /\ UNCHANGED <<saved, lease, epoch, thread, client, told, now>>
  BY DEF Reconcile
<1>2. hist \in [History -> HistoryRow \cup {None}] BY DEF HistoryInv, HistoryRows
<1>3. hist' = [g \in History |-> IF g \in {h} THEN GivenUp(g) ELSE hist[g]] BY <1>1, <1>2
<1>4. {hist[h].active} = {hist[g].active : g \in {h}} OBVIOUS
<1>5. \A g \in {h} : Live(g) /\ hist[g].active # None BY <1>1
<1>6. {h} \in SUBSET History OBVIOUS
<1>7. HistoryRows' /\ TurnRows' /\ Onward /\ Hashes' /\ Chains' BY <1>1, <1>3, <1>4, <1>5, <1>6, GivesUpTurns
<1>8. HistoryWorld' BY <1>1 DEF HistoryInv, HistoryWorld
<1> QED BY <1>1, <1>7, <1>8, RestStays DEF HistoryInv

LEMMA IdleFits == Idle \in Caller /\ CallerFits(Idle)
  BY DEF Idle, Caller, CallerFits, PendingPc, HoldingPc

LEMMA RestartKeeps == ASSUME HistoryInv, Restart PROVE HistoryInv'
<1> DEFINE H == {h \in History : Live(h) /\ hist[h].active # None}
           T == {t \in Turn : turns[t] # None /\ turns[t].status = "accepted"}
<1>1. /\ epoch < MaxLives /\ epoch' = epoch + 1 /\ lease' = {}
      /\ thread' = [k \in Thread |-> IF thread[k].pc = "idle" THEN Idle ELSE Over]
      /\ turns' = Unconfirmed(T)
      /\ hist' = [h \in History |-> IF h \in H THEN GivenUp(h) ELSE hist[h]]
      /\ UNCHANGED <<saved, client, told, now>>
  BY DEF Restart
<1>2. T = {hist[h].active : h \in H}
  <2>1. ASSUME NEW t \in T PROVE \E h \in H : t = hist[h].active
    <3>1. /\ t \in Turn /\ turns[t] # None /\ turns[t].of # None /\ Live(turns[t].of)
          /\ hist[turns[t].of].active = t
      BY DEF HistoryInv, TurnRows
    <3>2. turns[t].of \in History /\ t # None BY <3>1, TurnTyped, Numbers DEF HistoryInv
    <3> QED BY <3>1, <3>2
  <2>2. ASSUME NEW h \in H PROVE hist[h].active \in T
    <3>1. ActiveTurn(h) BY DEF HistoryInv, Chains, Chained
    <3> QED BY <3>1 DEF ActiveTurn, TurnsOf
  <2> QED BY <2>1, <2>2
<1>3. HistoryRows' /\ TurnRows' /\ Onward /\ Hashes' /\ Chains'
  <2>1. \A h \in H : Live(h) /\ hist[h].active # None OBVIOUS
  <2>2. H \in SUBSET History OBVIOUS
  <2> HIDE DEF H, T
  <2> QED BY <1>1, <1>2, <2>1, <2>2, GivesUpTurns
<1>4. Callers'
  <2>1. ASSUME NEW k \in Thread PROVE thread'[k] \in {Idle, Over} BY <1>1
  <2>2. thread' \in [Thread -> Caller] BY <1>1, <2>1, IdleFits, OverFits
  <2>3. ASSUME NEW k \in Thread PROVE CallerFits(thread[k])'
    <3>1. PICK c : c = thread'[k] OBVIOUS
    <3>2. CallerFits(c)' BY <2>1, <3>1 DEF Idle, Over, CallerFits, PendingPc, HoldingPc
    <3> QED BY <3>1, <3>2
  <2> QED BY <2>2, <2>3 DEF Callers
<1>5. HistoryWorld' BY <1>1 DEF HistoryInv, HistoryWorld, StoreAssumption
<1>6. saved' \subseteq saved BY <1>1
<1> QED BY <1>1, <1>3, <1>4, <1>5, <1>6, RestStays DEF HistoryInv

-----------------------------------------------------------------------------
(***************************************************************************)
(* The attempt settles its own turn.                                       *)
(***************************************************************************)
LEMMA SucceedsChain ==
  ASSUME HistoryInv, NEW h \in History, Live(h), NEW t, t = hist[h].active, t # None,
         TurnsOf(h)' = TurnsOf(h), \A u \in TurnsOf(h) \ {t} : turns'[u] = turns[u],
         turns'[t].status = "succeeded", turns'[t].base = turns[t].base,
         hist'[h].active = None, hist'[h].kind = hist[h].kind, hist'[h].ctx = hist[h].ctx + 1, hist'[h].last = t
  PROVE  Chained(h)'
<1>1. StoreAssumption /\ Turn \subseteq Nat /\ None \notin Turn /\ TurnsOf(h) \subseteq Turn
  BY Numbers DEF HistoryInv, TurnsOf
<1>2. Chained(h) /\ ActiveTurn(h) BY DEF HistoryInv, Chains, Chained
<1>3. t \in TurnsOf(h) /\ turns[t].status = "accepted" /\ \A u \in TurnsOf(h) : u <= t
  BY <1>2 DEF ActiveTurn
<1>4. Won(h)' = Won(h) \cup {t} BY <1>3 DEF Won
<1>5. t \notin Won(h) /\ Won(h) \subseteq TurnsOf(h) BY <1>3 DEF Won
<1>6. IsFiniteSet(Won(h)) BY <1>1, WonFinite
<1>7. Cardinality(Won(h) \cup {t}) = Cardinality(Won(h)) + 1 BY <1>5, <1>6, FS_AddElement
<1>8. hist'[h].ctx = Cardinality(Won(h)') BY <1>2, <1>4, <1>7 DEF Chained
<1>9. hist'[h].last \in Won(h)' /\ \A u \in Won(h)' : u <= hist'[h].last
  <2>1. t <= t BY <1>1, <1>3
  <2> QED BY <1>3, <1>4, <1>5, <2>1
<1>10. hist'[h].kind = "analysis" => \A u, v \in Won(h)' : u = v
  <2>1. ASSUME hist[h].kind = "analysis" PROVE Won(h) = {}
    <3>1. hist[h].last = None BY <1>2, <2>1 DEF ActiveTurn
    <3> QED BY <1>2, <3>1 DEF Chained
  <2> QED BY <1>4, <2>1
<1>11. ASSUME hist[h].kind = "query" PROVE Follows(t, h)'
  <2>1. CASE hist[h].last = None
    <3>1. Won(h) = {} BY <1>2, <2>1 DEF Chained
    <3>2. turns[t].base \notin TurnsOf(h) BY <1>2, <1>11, <2>1 DEF ActiveTurn
    <3>3. \A u \in Won(h)' : t <= u BY <1>1, <1>3, <1>4, <3>1
    <3> QED BY <3>2, <3>3 DEF Follows
  <2>2. CASE hist[h].last # None
    <3>1. turns[t].base = hist[h].last BY <1>2, <1>11, <2>2 DEF ActiveTurn
    <3>2. hist[h].last \in Won(h) /\ \A u \in Won(h) : u <= hist[h].last BY <1>2, <2>2 DEF Chained
    <3>3. turns[t].base < t
      <4>1. turns[t].base <= t /\ turns[t].base # t BY <1>3, <1>5, <3>1, <3>2
      <4>2. turns[t].base \in Nat /\ t \in Nat BY <1>1, <1>3, <1>5, <3>1, <3>2
      <4> QED BY <4>1, <4>2
    <3>4. ASSUME NEW u \in Won(h)', u < t PROVE u <= turns[t].base
      <4>1. t \in Nat BY <1>1, <1>3
      <4>2. u # t BY <3>4, <4>1
      <4> QED BY <1>4, <3>1, <3>2, <4>2
    <3> QED BY <1>4, <3>1, <3>2, <3>3, <3>4 DEF Follows
  <2> QED BY <2>1, <2>2
<1>12. ASSUME NEW w \in Won(h), Follows(w, h) PROVE Follows(w, h)'
  <2>1. w \in TurnsOf(h) /\ w # t /\ w <= t BY <1>3, <1>5
  <2>2. turns'[w].base = turns[w].base BY <2>1
  <2>3. w \in Nat /\ t \in Nat BY <1>1, <1>3, <2>1
  <2>4. CASE turns[w].base \notin TurnsOf(h) /\ \A u \in Won(h) : w <= u
    BY <1>4, <2>1, <2>2, <2>4 DEF Follows
  <2>5. CASE turns[w].base \in Won(h) /\ turns[w].base < w /\ \A u \in Won(h) : u < w => u <= turns[w].base
    <3>1. ~(t < w) BY <2>1, <2>3
    <3> QED BY <1>4, <2>2, <2>5, <3>1 DEF Follows
  <2> QED BY <1>12, <2>4, <2>5 DEF Follows
<1>13. hist'[h].kind = "query" => \A w \in Won(h)' : Follows(w, h)'
  BY <1>2, <1>4, <1>11, <1>12 DEF Chained
<1>14. None \notin Won(h)' BY <1>1, <1>3, <1>4, <1>5
<1> QED BY <1>8, <1>9, <1>10, <1>13, <1>14 DEF Chained

LEMMA FinishKeeps == ASSUME HistoryInv, NEW k \in Thread, Finish(k) PROVE HistoryInv'
<1>0. PICK t, h, done : t = thread[k].turn /\ h = thread[k].of /\ done = thread[k].result OBVIOUS
<1>1. thread[k].pc = "finish" /\ UNCHANGED <<saved, lease, epoch, client, told, now>> BY DEF Finish
<1>2. HoldsTurn(thread[k]) /\ thread[k] \in Caller /\ thread \in [Thread -> Caller]
  BY <1>1, CallerAt DEF CallerFits, HoldingPc, HistoryInv, Callers
<1>3. t \in Turn /\ turns[t] # None /\ turns[t].hash = thread[k].req /\ h \in History /\ done \in Concluded
  BY <1>0, <1>1, <1>2 DEF HoldsTurn
<1>4. lease' \subseteq History BY <1>1 DEF HistoryInv, HistoryWorld
<1>5. CASE thread' = [thread EXCEPT ![k].pc = "release"] /\ UNCHANGED <<turns, hist>>
  <2>1. PICK c : c = [thread[k] EXCEPT !.pc = "release"] OBVIOUS
  <2>2. c \in Caller /\ c.pc = "release" /\ c.req = thread[k].req /\ c.of = thread[k].of /\ c.turn = thread[k].turn
    BY <1>2, <2>1, CallerMoves
  <2>3. CallerFits(c) BY <1>2, <2>2 DEF CallerFits, HoldsTurn, PendingPc
  <2>4. thread' = [thread EXCEPT ![k] = c] BY <1>5, <2>1
  <2> QED BY <1>1, <1>4, <1>5, <2>2, <2>3, <2>4, ThreadMoves
<1>6. CASE /\ Live(h) /\ hist[h].active = t /\ turns[t].status = "accepted"
           /\ turns' = [turns EXCEPT ![t].status = done]
           /\ hist' = [hist EXCEPT ![h] = Finished(h, t, done = "succeeded")]
           /\ \E reported \in BOOLEAN :
                thread' = [thread EXCEPT ![k].pc = IF reported THEN "answer" ELSE "release"]
  <2>1. /\ StoreAssumption /\ now \in Nat /\ None \notin Turn /\ None \notin History /\ HistoryRows /\ TurnRows
        /\ hist \in [History -> HistoryRow \cup {None}] /\ turns \in [Turn -> TurnRow \cup {None}]
    BY Numbers DEF HistoryInv, HistoryWorld, HistoryRows, TurnRows, StoreAssumption
  <2>2. hist[h] \in HistoryRow /\ hist[h].rev \in Nat BY <1>3, <1>6, <2>1, RowTyped DEF Live
  <2>3. /\ hist'[h] \in HistoryRow /\ hist'[h].active = None /\ hist'[h].rev = hist[h].rev + 1 /\ hist'[h].at = now
        /\ hist'[h].kind = hist[h].kind /\ hist'[h].op = hist[h].op /\ hist'[h].deleted = hist[h].deleted
        /\ hist'[h].ctx = (IF done = "succeeded" THEN hist[h].ctx + 1 ELSE hist[h].ctx)
        /\ hist'[h].last = (IF done = "succeeded" THEN t ELSE hist[h].last)
    <3>1. hist'[h] = Finished(h, t, done = "succeeded") BY <1>3, <1>6, <2>1
    <3>2. CASE done = "succeeded"
      <4>1. hist'[h] = WonBy(hist[h], t, now) BY <3>1, <3>2 DEF Finished, WonBy
      <4> QED BY <1>3, <2>1, <2>2, <3>2, <4>1, WonRow
    <3>3. CASE done # "succeeded"
      <4>1. hist'[h] = FailedAt(hist[h], now) BY <3>1, <3>3 DEF Finished, FailedAt
      <4> QED BY <1>3, <2>1, <2>2, <3>3, <4>1, FailedRow
    <3> QED BY <3>2, <3>3
  <2>4. \A g \in History \ {h} : hist'[g] = hist[g] BY <1>6, <2>1
  <2>5. \A u \in Turn \ {t} : turns'[u] = turns[u] BY <1>6, <2>1
  <2>6. /\ turns'[t] \in TurnRow /\ turns'[t].status = done
        /\ turns'[t].of = turns[t].of /\ turns'[t].op = turns[t].op /\ turns'[t].hash = turns[t].hash
        /\ turns'[t].base = turns[t].base
    <3>1. turns'[t] = WithStatus(turns[t], done) BY <1>3, <1>6, <2>1 DEF WithStatus
    <3>2. done \in Status BY <1>3 DEF Concluded, Status
    <3>3. turns[t] \in TurnRow BY <1>3, <2>1
    <3> QED BY <3>1, <3>2, <3>3, TurnSettled
  <2>7. done # "accepted" BY <1>3 DEF Concluded
  <2>8. DOMAIN hist' = History /\ hist' = [g \in History |-> hist'[g]]
        /\ DOMAIN turns' = Turn /\ turns' = [u \in Turn |-> turns'[u]]
    BY <1>6, <2>1
  <2>9. PICK c : c = thread'[k] OBVIOUS
  <2>10. PICK pc \in {"answer", "release"} : thread' = [thread EXCEPT ![k].pc = pc] BY <1>6
  <2>11. c = [thread[k] EXCEPT !.pc = pc] BY <1>2, <2>9, <2>10
  <2>12. c \in Caller /\ c.pc = pc /\ c.req = thread[k].req /\ c.of = h /\ c.turn = t /\ c.result = done
    BY <1>0, <1>2, <2>11, CallerMoves
  <2>13. thread' \in [Thread -> Caller] /\ \A i \in Thread \ {k} : thread'[i] = thread[i]
    BY <1>2, <2>10, <2>11, <2>12
  <2>14. ActiveTurn(h) BY <1>3, <1>6, <2>1 DEF HistoryInv, Chains, Chained
  <2>15. turns[t].of = h /\ t \in TurnsOf(h) BY <1>6, <2>14 DEF ActiveTurn, TurnsOf
  <2>16. c.turn \in Turn /\ turns'[c.turn] # None /\ turns'[c.turn].hash = c.req /\ turns'[c.turn].status = c.result
    <3>1. turns'[t] # None BY <2>1, <2>6, TurnFields
    <3> QED BY <1>3, <2>6, <2>12, <3>1
  <2>17. t # None BY <1>3, <2>1
  <2>18. Settles
    <3>1. ASSUME NEW g \in History PROVE RowSettles(g)
      BY <1>3, <1>6, <2>3, <2>4, <2>6, <2>7 DEF RowSettles
    <3>2. ASSUME NEW u \in Turn PROVE TurnSettles(u)
      <4>1. hist[h].rev < hist'[h].rev BY <2>2, <2>3
      <4> QED BY <1>3, <1>6, <2>5, <2>6, <2>7, <2>15, <4>1 DEF TurnSettles
    <3> QED BY <2>8, <3>1, <3>2 DEF Settles
  <2>19. /\ HistoryRows' /\ TurnRows' /\ Onward /\ Hashes' /\ TurnsOf(h)' = TurnsOf(h)
    BY <1>1, <1>3, <2>18, SettleRows
  <2>20. Chained(h)'
    <3>1. \A u \in TurnsOf(h) \ {t} : turns'[u] = turns[u] BY <2>5 DEF TurnsOf
    <3>2. CASE done = "succeeded" BY <1>3, <1>6, <2>3, <2>6, <2>17, <2>19, <3>1, <3>2, SucceedsChain
    <3>3. CASE done = "failed"
      <4>1. \A u \in TurnsOf(h) : /\ turns'[u].base = turns[u].base
                                  /\ turns'[u].status = "succeeded" <=> turns[u].status = "succeeded"
        BY <1>6, <2>6, <3>1, <3>3
      <4>2. SameChain(h) BY <2>3, <2>19, <3>3, <4>1 DEF SameChain
      <4>3. Chained(h) BY <1>3, <1>6 DEF HistoryInv, Chains
      <4> QED BY <1>3, <2>1, <4>2, <4>3, ChainStays
    <3> QED BY <1>3, <3>2, <3>3 DEF Concluded
  <2>21. Chains'
    <3> SUFFICES ASSUME NEW g \in History, Live(g)' PROVE Chained(g)' BY DEF Chains
    <3>1. CASE g = h BY <2>20, <3>1
    <3>2. CASE g # h BY <1>1, <2>4, <2>18, <3>2, UntouchedChain
    <3> QED BY <3>1, <3>2
  <2>22. Callers'
    <3>1. HoldsTurn(c)' BY <1>3, <2>10, <2>12, <2>16 DEF HoldsTurn
    <3>2. CallerFits(c)' BY <2>10, <2>12, <3>1 DEF CallerFits, PendingPc
    <3>3. CallerFits(thread[k])' BY <2>9, <3>2
    <3> QED BY <2>13, <2>19, <3>3, CallersGoOn DEF HistoryInv
  <2>23. HistoryWorld' /\ saved' \subseteq saved BY <1>1 DEF HistoryInv, HistoryWorld
  <2> QED BY <1>1, <2>19, <2>21, <2>22, <2>23, RestStays DEF HistoryInv
<1> QED BY <1>0, <1>5, <1>6 DEF Finish

-----------------------------------------------------------------------------
(***************************************************************************)
(* Histories are created, renamed and deleted.                             *)
(***************************************************************************)
LEMMA RowKeeps ==
  ASSUME HistoryInv, NEW h \in History, NEW s \in HistoryRow, hist' = [hist EXCEPT ![h] = s], s.at = now,
         s.deleted = FALSE, UNCHANGED <<turns, now>>,
         \/ hist[h] = None /\ s.active = None /\ s.ctx = 0 /\ s.last = None
         \/ /\ Live(h) /\ s.rev > hist[h].rev /\ s.kind = hist[h].kind /\ s.op = hist[h].op
            /\ s.active = hist[h].active /\ s.ctx = hist[h].ctx /\ s.last = hist[h].last
  PROVE  HistoryRows' /\ TurnRows' /\ Onward /\ Hashes' /\ Chains'
<1>1. /\ StoreAssumption /\ now \in Nat /\ None \notin Turn /\ None \notin History /\ HistoryRows /\ TurnRows
      /\ hist \in [History -> HistoryRow \cup {None}]
  BY Numbers DEF HistoryInv, HistoryWorld, HistoryRows, StoreAssumption
<1>2. hist'[h] = s /\ s # None /\ \A g \in History \ {h} : hist'[g] = hist[g] BY <1>1, HistoryFields
<1>3. \A g \in History : TurnsOf(g)' = TurnsOf(g) BY DEF TurnsOf
<1>4. HistoryRows'
  <2>1. \A g \in History : hist'[g] # None => hist'[g].at <= now BY <1>1, <1>2 DEF HistoryRows
  <2>2. hist' \in [History -> HistoryRow \cup {None}] BY <1>1
  <2> QED BY <2>1, <2>2 DEF HistoryRows
<1>5. TurnRows'
  <2>1. \A g \in History : hist[g] # None => hist'[g] # None BY <1>2
  <2>2. ASSUME NEW g \in History, NEW t \in Turn, Live(g), hist[g].active = t PROVE Live(g)' /\ hist'[g].active = t
    BY <1>1, <1>2, <2>2 DEF Live
  <2>3. \A t \in Turn : turns[t] # None => turns[t].of \in History \cup {None} BY <1>1, TurnTyped
  <2>4. ASSUME NEW t \in Turn, turns[t] # None, turns[t].status = "accepted"
        PROVE  turns[t].of # None /\ Live(turns[t].of)' /\ hist'[turns[t].of].active = t
    <3>1. PICK g : g = turns[t].of OBVIOUS
    <3>2. g # None /\ Live(g) /\ hist[g].active = t BY <1>1, <2>4, <3>1 DEF TurnRows
    <3>3. g \in History BY <2>3, <2>4, <3>1, <3>2
    <3>4. Live(g)' /\ hist'[g].active = t BY <2>2, <3>2, <3>3
    <3> QED BY <3>1, <3>2, <3>4 DEF Live
  <2> QED BY <1>1, <2>1, <2>3, <2>4 DEF TurnRows
<1>6. Onward
  <2>1. ASSUME NEW g \in History, hist[g] # None PROVE RowGoesOn(g)
    <3>1. hist[g].at \in Nat /\ hist[g].at <= now BY <1>1, <2>1, RowTyped DEF HistoryRows
    <3>2. CASE g = h
      <4>1. s.at >= hist[h].at BY <1>1, <3>1, <3>2
      <4> QED BY <1>2, <2>1, <3>2, <4>1 DEF RowGoesOn, Live
    <3>3. CASE g # h
      <4>1. hist[g].at >= hist[g].at BY <3>1
      <4> QED BY <1>2, <1>3, <2>1, <3>3, <4>1 DEF RowGoesOn
    <3> QED BY <3>2, <3>3
  <2>2. \A t \in Turn : TurnGoesOn(t) BY DEF TurnGoesOn
  <2> QED BY <2>1, <2>2 DEF Onward, RowGoesOn
<1>7. Hashes'
  <2>1. ASSUME NEW t \in Turn, turns'[t] # None PROVE AskedBy(t)'
    <3>1. turns[t] # None /\ AskedBy(t) BY <2>1 DEF HistoryInv, Hashes
    <3> QED BY <1>1, <1>6, <3>1, AskedGoesOn
  <2> QED BY <2>1 DEF HistoryInv, Hashes
<1>8. Chains'
  <2> SUFFICES ASSUME NEW g \in History, Live(g)' PROVE Chained(g)' BY DEF Chains
  <2>1. CASE g # h
    <3>1. Chained(g) BY <1>2, <2>1 DEF HistoryInv, Chains, Live
    <3> QED BY <1>1, <1>2, <1>3, <2>1, <3>1, ChainUntouched
  <2>2. CASE g = h /\ hist[h] = None
    <3>1. TurnsOf(h) = {} BY <1>1, <2>2 DEF TurnRows, TurnsOf
    <3>2. Won(h)' = {} BY <1>3, <3>1 DEF Won
    <3>3. Cardinality({}) = 0 BY FS_EmptySet
    <3> QED BY <1>2, <2>2, <3>2, <3>3 DEF Chained, Live
  <2>3. CASE g = h /\ hist[h] # None
    <3>1. Chained(h) BY <2>3 DEF HistoryInv, Chains
    <3>2. SameChain(h) BY <1>2, <1>3, <2>3 DEF SameChain
    <3> QED BY <1>1, <2>3, <3>1, <3>2, ChainStays
  <2> QED BY <2>1, <2>2, <2>3
<1> QED BY <1>4, <1>5, <1>6, <1>7, <1>8

LEMMA CreateKeeps == ASSUME HistoryInv, Create PROVE HistoryInv'
<1>1. PICK kind \in Kinds, op \in Op, h \in Free(History, hist) :
        hist' = [hist EXCEPT ![h] = Record(kind, op, [act |-> "create", kind |-> kind], now)]
  BY DEF Create
<1>2. UNCHANGED <<turns, saved, lease, epoch, thread, client, told, now>> BY DEF Create
<1>3. h \in History /\ hist[h] = None BY DEF Free
<1>4. now \in Nat BY DEF HistoryInv, HistoryWorld, StoreAssumption
<1>5. PICK s : s = Record(kind, op, [act |-> "create", kind |-> kind], now) OBVIOUS
<1>6. s \in HistoryRow /\ s.at = now /\ s.deleted = FALSE /\ s.active = None /\ s.ctx = 0 /\ s.last = None
  BY <1>4, <1>5, NewRow
<1>7. HistoryRows' /\ TurnRows' /\ Onward /\ Hashes' /\ Chains' BY <1>1, <1>2, <1>3, <1>5, <1>6, RowKeeps
<1>8. HistoryWorld' /\ saved' \subseteq saved BY <1>2 DEF HistoryInv, HistoryWorld
<1> QED BY <1>2, <1>7, <1>8, RestStays DEF HistoryInv

LEMMA RenameKeeps == ASSUME HistoryInv, RenameHistory PROVE HistoryInv'
<1>1. PICK h \in History : AsRead(h)
        /\ hist' = [hist EXCEPT ![h] = [hist[h] EXCEPT !.title = @ + 1, !.rev = @ + 1, !.at = now]]
  BY DEF RenameHistory
<1>2. UNCHANGED <<turns, saved, lease, epoch, thread, client, told, now>> BY DEF RenameHistory
<1>3. now \in Nat BY DEF HistoryInv, HistoryWorld, StoreAssumption
<1>4. Live(h) /\ hist[h] \in HistoryRow /\ hist[h].rev \in Nat /\ hist[h].deleted = FALSE
  BY <1>1, RowTyped DEF AsRead, Live, HistoryInv
<1>5. PICK r \in HistoryRow, n \in Nat : r = hist[h] /\ n = now BY <1>3, <1>4
<1>6. PICK s : s = Renamed(r, n) OBVIOUS
<1>7. hist' = [hist EXCEPT ![h] = s] /\ s.active = hist[h].active /\ s.rev = hist[h].rev + 1 /\ s.at = now
      /\ s.kind = hist[h].kind /\ s.op = hist[h].op /\ s.ctx = hist[h].ctx /\ s.last = hist[h].last
      /\ s.deleted = FALSE /\ s \in HistoryRow
  <2>1. /\ s \in HistoryRow /\ s.active = r.active /\ s.rev = r.rev + 1 /\ s.at = n /\ s.kind = r.kind
        /\ s.op = r.op /\ s.ctx = r.ctx /\ s.last = r.last /\ s.deleted = r.deleted
    BY <1>6, RenamedRow
  <2>2. hist' = [hist EXCEPT ![h] = [hist[h] EXCEPT !.title = @ + 1, !.rev = @ + 1, !.at = now]] BY <1>1
  <2>3. s = [hist[h] EXCEPT !.title = @ + 1, !.rev = @ + 1, !.at = now] BY <1>5, <1>6 DEF Renamed
  <2>4. hist' = [hist EXCEPT ![h] = s] BY <2>2, <2>3
  <2> QED BY <1>4, <1>5, <2>1, <2>4
<1>8. s.rev > hist[h].rev BY <1>4, <1>7
<1>9. HistoryRows' /\ TurnRows' /\ Onward /\ Hashes' /\ Chains' BY <1>2, <1>4, <1>7, <1>8, RowKeeps
<1>10. HistoryWorld' /\ saved' \subseteq saved BY <1>2 DEF HistoryInv, HistoryWorld
<1> QED BY <1>2, <1>9, <1>10, RestStays DEF HistoryInv

LEMMA DeleteKeeps == ASSUME HistoryInv, DeleteHistory PROVE HistoryInv'
<1>1. PICK h \in History :
        /\ AsRead(h) /\ hist[h].active = None
        /\ hist' = [hist EXCEPT ![h] = [hist[h] EXCEPT !.deleted = TRUE, !.last = None, !.title = 0,
                                              !.gen = @ + 1, !.rev = @ + 1, !.at = now]]
        /\ turns' = [t \in Turn |-> IF t \in TurnsOf(h) THEN [turns[t] EXCEPT !.of = None] ELSE turns[t]]
  BY DEF DeleteHistory
<1>2. UNCHANGED <<saved, lease, epoch, thread, client, told, now>> BY DEF DeleteHistory
<1>3. /\ StoreAssumption /\ now \in Nat /\ None \notin Turn /\ None \notin History /\ HistoryRows /\ TurnRows
      /\ hist \in [History -> HistoryRow \cup {None}] /\ turns \in [Turn -> TurnRow \cup {None}]
  BY Numbers DEF HistoryInv, HistoryWorld, HistoryRows, TurnRows, StoreAssumption
<1>4. Live(h) /\ hist[h] \in HistoryRow /\ hist[h].rev \in Nat /\ hist[h].at \in Nat /\ hist[h].at <= now
  BY <1>1, <1>3, RowTyped DEF AsRead, Live, HistoryRows
<1>5. PICK s : s = Removed(hist[h], now) OBVIOUS
<1>6. /\ s \in HistoryRow /\ s.rev = hist[h].rev + 1 /\ s.at = now /\ s.kind = hist[h].kind /\ s.op = hist[h].op
      /\ s.deleted /\ s # None
  <2>1. PICK r \in HistoryRow, n \in Nat : r = hist[h] /\ n = now BY <1>3, <1>4
  <2>2. s = Removed(r, n) BY <1>5, <2>1
  <2>3. s \in HistoryRow /\ s.rev = r.rev + 1 /\ s.at = n /\ s.kind = r.kind /\ s.op = r.op /\ s.deleted
    BY <2>2, DeletedRow
  <2> QED BY <1>3, <2>1, <2>3, HistoryFields
<1>7. hist' = [hist EXCEPT ![h] = s]
  <2>1. s = [hist[h] EXCEPT !.deleted = TRUE, !.last = None, !.title = 0, !.gen = @ + 1, !.rev = @ + 1, !.at = now]
    BY <1>5 DEF Removed
  <2>2. hist' = [hist EXCEPT ![h] = [hist[h] EXCEPT !.deleted = TRUE, !.last = None, !.title = 0, !.gen = @ + 1,
                                                   !.rev = @ + 1, !.at = now]]
    BY <1>1
  <2> QED BY <2>1, <2>2
<1>8. hist'[h] = s /\ \A g \in History \ {h} : hist'[g] = hist[g] BY <1>3, <1>7
<1>9. \A t \in Turn \ TurnsOf(h) : turns'[t] = turns[t] BY <1>1
<1>10. ASSUME NEW t \in TurnsOf(h)
       PROVE  /\ t \in Turn /\ turns[t] # None /\ turns[t].of = h /\ turns'[t] \in TurnRow /\ turns'[t].of = None
              /\ turns'[t] # None /\ turns'[t].status = turns[t].status /\ turns'[t].op = turns[t].op
              /\ turns'[t].hash = turns[t].hash /\ turns'[t].base = turns[t].base /\ turns[t].status # "accepted"
  <2>1. t \in Turn /\ turns[t] # None /\ turns[t].of = h BY DEF TurnsOf
  <2>2. turns'[t] = Detached(turns[t]) BY <1>1, <2>1 DEF Detached
  <2>3. turns[t] \in TurnRow BY <1>3, <2>1
  <2>4. turns[t].status # "accepted" BY <1>1, <1>3, <2>1 DEF TurnRows
  <2>5. /\ turns'[t] \in TurnRow /\ turns'[t].of = None /\ turns'[t].status = turns[t].status
        /\ turns'[t].op = turns[t].op /\ turns'[t].hash = turns[t].hash /\ turns'[t].base = turns[t].base
    BY <2>2, <2>3, TurnDetached
  <2> QED BY <1>3, <2>1, <2>4, <2>5, TurnFields
<1>11. \A t \in Turn : /\ (turns'[t] = None) = (turns[t] = None) /\ turns'[t].op = turns[t].op
                       /\ turns'[t].hash = turns[t].hash /\ turns'[t].base = turns[t].base
                       /\ turns'[t].status = turns[t].status
                       /\ turns'[t].of = (IF t \in TurnsOf(h) THEN None ELSE turns[t].of)
  BY <1>9, <1>10
<1>12. ASSUME NEW g \in History, g # h
       PROVE  hist'[g] = hist[g] /\ TurnsOf(g)' = TurnsOf(g) /\ \A t \in TurnsOf(g) : turns'[t] = turns[t]
  <2>1. \A t \in Turn : (turns'[t] # None /\ turns'[t].of = g) <=> (turns[t] # None /\ turns[t].of = g)
    BY <1>3, <1>11, <1>12 DEF TurnsOf
  <2>2. TurnsOf(g)' = TurnsOf(g) BY <2>1 DEF TurnsOf
  <2>3. \A t \in TurnsOf(g) : t \in Turn \ TurnsOf(h) BY <1>12 DEF TurnsOf
  <2> QED BY <1>8, <1>9, <1>12, <2>2, <2>3
<1>13. HistoryRows'
  <2>1. \A g \in History : hist'[g] # None => hist'[g].at <= now BY <1>3, <1>6, <1>8 DEF HistoryRows
  <2>2. hist' \in [History -> HistoryRow \cup {None}] BY <1>3, <1>6, <1>7
  <2> QED BY <1>2, <2>1, <2>2 DEF HistoryRows
<1>14. TurnRows'
  <2>1. turns' \in [Turn -> TurnRow \cup {None}]
    <3>1. \A t \in Turn : turns'[t] \in TurnRow \cup {None} BY <1>3, <1>9, <1>10
    <3> QED BY <1>1, <3>1
  <2>2. \A g \in History : hist[g] # None => hist'[g] # None BY <1>6, <1>8
  <2>3. ASSUME NEW t \in Turn, turns'[t] # None
        PROVE  /\ turns'[t].op = turns'[t].hash.op
               /\ turns'[t].of # None => hist'[turns'[t].of] # None
               /\ turns'[t].base # None => turns'[turns'[t].base] # None
    <3>1. turns[t] # None BY <1>11, <2>3
    <3>2. turns[t].of \in History \cup {None} /\ turns[t].base \in Turn \cup {None} BY <1>3, <3>1, TurnTyped
    <3>3. /\ turns[t].op = turns[t].hash.op
          /\ turns[t].of # None => hist[turns[t].of] # None
          /\ turns[t].base # None => turns[turns[t].base] # None
      BY <1>3, <3>1 DEF TurnRows
    <3> QED BY <1>11, <2>2, <3>2, <3>3
  <2>4. ASSUME NEW t \in Turn, turns'[t] # None, turns'[t].status = "accepted"
        PROVE  turns'[t].of # None /\ Live(turns[t].of)' /\ hist'[turns'[t].of].active = t
    <3>1. PICK g : g = turns[t].of OBVIOUS
    <3>2. t \notin TurnsOf(h) /\ turns[t] # None /\ turns[t].status = "accepted" BY <1>10, <1>11, <2>4
    <3>3. g # None /\ Live(g) /\ hist[g].active = t BY <1>3, <3>1, <3>2 DEF TurnRows
    <3>4. g \in History /\ g # h BY <1>3, <3>1, <3>2, <3>3, TurnTyped DEF TurnsOf
    <3>5. hist'[g] = hist[g] BY <1>8, <3>4
    <3>6. turns'[t].of = g BY <1>11, <3>1, <3>2
    <3> QED BY <3>3, <3>5, <3>6 DEF Live
  <2>5. \A t, u \in Turn : u < t /\ turns'[t] # None => turns'[u] # None BY <1>3, <1>11 DEF TurnRows
  <2> QED BY <2>1, <2>3, <2>4, <2>5 DEF TurnRows
<1>15. Onward
  <2>1. ASSUME NEW g \in History, hist[g] # None PROVE RowGoesOn(g)
    <3>1. CASE g = h
      <4>1. s.at >= hist[h].at /\ s.rev > hist[h].rev BY <1>3, <1>4, <1>6
      <4> QED BY <1>6, <1>8, <3>1, <4>1 DEF RowGoesOn
    <3>2. CASE g # h
      <4>1. hist[g].at >= hist[g].at BY <1>3, <2>1, RowTyped
      <4> QED BY <1>12, <2>1, <3>2, <4>1 DEF RowGoesOn
    <3> QED BY <3>1, <3>2
  <2>2. ASSUME NEW t \in Turn PROVE TurnGoesOn(t)
    <3>1. CASE t \in TurnsOf(h) BY <1>6, <1>8, <1>10, <3>1 DEF TurnGoesOn
    <3>2. CASE t \notin TurnsOf(h) BY <1>9, <3>2 DEF TurnGoesOn
    <3> QED BY <3>1, <3>2
  <2> QED BY <2>1, <2>2 DEF Onward, RowGoesOn
<1>16. Hashes'
  <2>1. ASSUME NEW t \in Turn, turns'[t] # None PROVE AskedBy(t)'
    <3>1. turns[t] # None /\ AskedBy(t) BY <1>11, <2>1 DEF HistoryInv, Hashes
    <3> QED BY <1>3, <1>15, <3>1, AskedGoesOn
  <2>2. ASSUME NEW u \in Turn, NEW v \in Turn, turns'[u] # None, turns'[v] # None, turns'[u].hash = turns'[v].hash
        PROVE  u = v
    BY <1>11, <2>2 DEF HistoryInv, Hashes
  <2> QED BY <2>1, <2>2 DEF Hashes
<1>17. Chains'
  <2> SUFFICES ASSUME NEW g \in History, Live(g)' PROVE Chained(g)' BY DEF Chains
  <2>1. g # h BY <1>6, <1>8 DEF Live
  <2>2. hist'[g] = hist[g] /\ TurnsOf(g)' = TurnsOf(g) /\ \A t \in TurnsOf(g) : turns'[t] = turns[t]
    BY <1>12, <2>1
  <2>3. Chained(g) BY <2>2 DEF HistoryInv, Chains, Live
  <2> QED BY <1>3, <2>2, <2>3, ChainUntouched
<1>18. HistoryWorld' /\ saved' \subseteq saved BY <1>2 DEF HistoryInv, HistoryWorld
<1> QED BY <1>2, <1>13, <1>14, <1>15, <1>16, <1>17, <1>18, RestStays DEF HistoryInv

-----------------------------------------------------------------------------
(***************************************************************************)
(* The page looks, results are kept and dropped, time passes.              *)
(***************************************************************************)
LEMMA LookKeeps == ASSUME HistoryInv, Look PROVE HistoryInv'
<1>1. PICK h \in History : Live(h) /\ view' = Header(h) BY DEF Look
<1>2. UNCHANGED <<hist, turns, saved, lease, epoch, thread, scan, told, now>> BY DEF Look
<1>3. HistoryRows' /\ TurnRows' /\ Chains' /\ Hashes' /\ Onward BY <1>2, TablesStill
<1>4. Viewed'
  <2>1. view'.of = h /\ view'.rev = hist[h].rev /\ view'.content = Content(h) BY <1>1 DEF Header
  <2>2. Content(h)' = Content(h)
    <3>1. TurnsOf(h)' = TurnsOf(h) BY <1>2 DEF TurnsOf
    <3> QED BY <1>2, <3>1 DEF Content
  <2>3. hist[h] # None /\ hist[h].rev \in 0..hist[h].rev BY <1>1, RowTyped DEF Live, HistoryInv
  <2> QED BY <1>2, <2>1, <2>2, <2>3 DEF Viewed
<1>5. AnswersKept' /\ SavedRows' /\ Scanned' /\ Callers'
  BY <1>2, <1>3, AnswersGoOn, SavedGoOn, ScanGoesOn, CallersStay DEF HistoryInv
<1>6. StoreAssumption' /\ HistoryWorld' BY <1>2 DEF HistoryInv, StoreAssumption, HistoryWorld
<1> QED BY <1>3, <1>4, <1>5, <1>6 DEF HistoryInv

LEMMA CopyResultKeeps == ASSUME HistoryInv, CopyResult PROVE HistoryInv'
<1>1. PICK t \in Turn :
        /\ turns[t] # None /\ turns[t].of # None
        /\ saved' = saved \cup {[turn |-> t, kind |-> hist[turns[t].of].kind, base |-> turns[t].base]}
  BY DEF CopyResult
<1>2. UNCHANGED <<hist, turns, lease, epoch, thread, client, told, now>> BY DEF CopyResult
<1>3. HistoryRows' /\ TurnRows' /\ Chains' /\ Hashes' /\ Onward BY <1>2, TablesStill
<1>4. SavedRows'
  <2>1. PICK h : h = turns[t].of OBVIOUS
  <2>2. h \in History /\ turns[t].base \in Turn \cup {None} BY <1>1, <2>1, TurnTyped DEF HistoryInv
  <2>3. hist[h] # None BY <1>1, <2>1 DEF HistoryInv, TurnRows
  <2>4. hist[h].kind \in Kinds BY <2>2, <2>3, RowTyped DEF HistoryInv
  <2>5. [turn |-> t, kind |-> hist[turns[t].of].kind, base |-> turns[t].base]
          \in [turn : Turn, kind : Kinds, base : Turn \cup {None}]
    BY <2>1, <2>2, <2>4
  <2> QED BY <1>1, <1>2, <2>5 DEF HistoryInv, SavedRows
<1>5. AnswersKept' /\ Viewed' /\ Scanned' /\ Callers'
  BY <1>2, <1>3, AnswersGoOn, ViewGoesOn, ScanGoesOn, CallersStay DEF HistoryInv, client
<1>6. StoreAssumption' /\ HistoryWorld' BY <1>2 DEF HistoryInv, StoreAssumption, HistoryWorld
<1> QED BY <1>3, <1>4, <1>5, <1>6 DEF HistoryInv

LEMMA DeleteSavedKeeps == ASSUME HistoryInv, DeleteSaved PROVE HistoryInv'
<1>1. saved' \subseteq saved /\ UNCHANGED <<hist, turns, lease, epoch, thread, client, told, now>> BY DEF DeleteSaved
<1>2. HistoryRows' /\ TurnRows' /\ Chains' /\ Hashes' /\ Onward BY <1>1, TablesStill
<1>3. HistoryWorld' BY <1>1 DEF HistoryInv, HistoryWorld
<1> QED BY <1>1, <1>2, <1>3, RestStays DEF HistoryInv

LEMMA TickKeeps == ASSUME HistoryInv, Tick PROVE HistoryInv'
<1>1. now < MaxTime /\ now' = now + 1 /\ UNCHANGED <<hist, turns, saved, lease, epoch, thread, client, told>>
  BY DEF Tick
<1>2. HistoryRows' /\ TurnRows' /\ Chains' /\ Hashes' /\ Onward BY <1>1, TablesStill
<1>3. HistoryWorld' BY <1>1 DEF HistoryInv, HistoryWorld, StoreAssumption
<1> QED BY <1>1, <1>2, <1>3, RestStays DEF HistoryInv

LEMMA StutterKeeps == ASSUME HistoryInv, UNCHANGED vars PROVE HistoryInv'
<1>1. UNCHANGED <<hist, turns, saved, lease, epoch, thread, client, told, now>> BY DEF vars, client
<1>2. HistoryRows' /\ TurnRows' /\ Chains' /\ Hashes' /\ Onward BY <1>1, TablesStill
<1>3. HistoryWorld' /\ saved' \subseteq saved BY <1>1 DEF HistoryInv, HistoryWorld
<1> QED BY <1>1, <1>2, <1>3, RestStays DEF HistoryInv

-----------------------------------------------------------------------------
(***************************************************************************)
(* A page of the list: the first rows below the cursor, newest first.      *)
(***************************************************************************)
LEMMA NewerIsBelow ==
  ASSUME NEW g, NEW h
  PROVE  Newer(g, h) <=> hist[h].at < hist[g].at \/ (hist[h].at = hist[g].at /\ h < g)
  BY DEF Newer

LEMMA NewerOrders ==
  ASSUME NEW g \in Nat, NEW h \in Nat, hist[g].at \in Nat, hist[h].at \in Nat
  PROVE  ~Newer(h, h) /\ (Newer(g, h) => ~Newer(h, g) /\ g # h)
  BY DEF Newer

LEMMA ListPageKeeps == ASSUME HistoryInv, ListPage PROVE HistoryInv'
<1>1. PICK rows : rows = {h \in History : Live(h) /\ (scan.cursor = None \/ Below(h, scan.cursor))} OBVIOUS
<1>0. PICK n \in 0..Page : \E items \in [1..n -> rows] :
        /\ ~scan.done /\ FirstRows(items, rows)
        /\ scan' = [done |-> rows \subseteq Range(items),
                    cursor |-> IF rows \subseteq Range(items) THEN None
                               ELSE [at |-> hist[Last(items)].at, id |-> Last(items)],
                    seen |-> scan.seen \o items,
                    start |-> IF scan.start = <<>> THEN hist ELSE scan.start]
  BY <1>1 DEF ListPage
<1>2. PICK items \in [1..n -> rows] :
        /\ ~scan.done /\ FirstRows(items, rows)
        /\ scan' = [done |-> rows \subseteq Range(items),
                    cursor |-> IF rows \subseteq Range(items) THEN None
                               ELSE [at |-> hist[Last(items)].at, id |-> Last(items)],
                    seen |-> scan.seen \o items,
                    start |-> IF scan.start = <<>> THEN hist ELSE scan.start]
  BY <1>0
<1>3. UNCHANGED <<hist, turns, saved, lease, epoch, thread, view, told, now>> BY DEF ListPage
<1>4. HistoryRows' /\ TurnRows' /\ Chains' /\ Hashes' /\ Onward BY <1>3, TablesStill
<1>5. /\ StoreAssumption /\ HistoryRows /\ None \notin Cursor /\ History \in SUBSET Nat /\ Page \in Nat \ {0}
      /\ hist \in [History -> HistoryRow \cup {None}]
  BY Numbers DEF HistoryInv, StoreAssumption, HistoryRows
<1>6. rows \subseteq History /\ \A h \in rows : hist[h] # None /\ hist[h].at \in Nat /\ h \in Nat
  BY <1>1, <1>5, RowTyped DEF Live
<1>7. PICK s0 : s0 = scan.seen OBVIOUS
<1>8. PICK st : st = IF scan.start = <<>> THEN hist ELSE scan.start OBVIOUS
<1>9. /\ s0 \in Seq(History) /\ st \in [History -> HistoryRow \cup {None}]
      /\ \A i, j \in 1..Len(s0) : i # j => s0[i] # s0[j]
      /\ \A i \in 1..Len(s0) : hist[s0[i]] # None /\ \A r \in rows : r # s0[i] /\ ~Newer(r, s0[i])
      /\ \A h \in History : st[h] # None =>
           /\ hist[h] # None /\ st[h].rev <= hist[h].rev
           /\ st[h] = hist[h] /\ ~hist[h].deleted => (\E i \in 1..Len(s0) : s0[i] = h) \/ h \in rows
  <2>1. CASE scan = NoScan
    <3>1. s0 = <<>> /\ st = hist /\ scan.cursor = None BY <1>7, <1>8, <2>1 DEF NoScan
    <3>2. Len(s0) = 0 /\ s0 \in Seq(History) BY <3>1
    <3>3. \A h \in History : hist[h] # None => hist[h].rev \in Nat BY <1>5, RowTyped
    <3>4. \A h \in History : hist[h] # None => hist[h].rev <= hist[h].rev BY <3>3
    <3>5. \A h \in History : hist[h] # None /\ ~hist[h].deleted => h \in rows BY <1>1, <3>1 DEF Live
    <3> QED BY <1>5, <3>1, <3>2, <3>4, <3>5
  <2>2. CASE Seen
    <3>1. scan.cursor \in Cursor /\ scan.cursor # None BY <1>2, <1>5, <2>2 DEF Seen
    <3>2. PICK c \in Cursor : c = scan.cursor BY <3>1
    <3>3. c.at \in Nat /\ c.id \in Nat BY <1>5, <3>2 DEF Cursor
    <3>4. rows = {h \in History : Live(h) /\ Below(h, c)} BY <1>1, <3>1, <3>2
    <3>5. s0 \in Seq(History) BY <1>7, <2>2 DEF Seen
    <3>6. ASSUME NEW i \in 1..Len(s0), NEW r \in rows
          PROVE  hist[s0[i]] # None /\ r # s0[i] /\ ~Newer(r, s0[i])
      <4>1. PICK x : x = s0[i] OBVIOUS
      <4>2. x \in History /\ hist[x] # None /\ ~Below(x, c) BY <1>2, <1>7, <2>2, <3>2, <3>5, <4>1 DEF Seen
      <4>3. Below(r, c) /\ r \in History /\ r \in Nat /\ hist[r].at \in Nat BY <1>6, <3>4
      <4>4. hist[x].at \in Nat /\ x \in Nat BY <1>5, <4>2, RowTyped
      <4>5. ~Newer(r, x) BY <3>3, <4>2, <4>3, <4>4 DEF Below, Newer
      <4> QED BY <4>1, <4>2, <4>3, <4>5
    <3>7. \A i \in 1..Len(s0) : hist[s0[i]] # None BY <1>7, <2>2 DEF Seen
    <3>8. st = scan.start \/ (st = hist /\ History = {})
      <4>1. scan.start \in [History -> HistoryRow \cup {None}] BY <2>2 DEF Seen
      <4>2. scan.start = <<>> => History = {} BY <4>1
      <4> QED BY <1>8, <4>2
    <3>9. st \in [History -> HistoryRow \cup {None}] BY <1>5, <2>2, <3>8 DEF Seen
    <3>10. ASSUME NEW h \in History, st[h] # None
           PROVE  /\ hist[h] # None /\ st[h].rev <= hist[h].rev
                  /\ st[h] = hist[h] /\ ~hist[h].deleted => (\E i \in 1..Len(s0) : s0[i] = h) \/ h \in rows
      <4>1. st = scan.start BY <3>8
      <4>2. /\ hist[h] # None /\ st[h].rev <= hist[h].rev
            /\ st[h] = hist[h] /\ ~hist[h].deleted => (\E i \in 1..Len(s0) : s0[i] = h) \/ Below(h, c)
        BY <1>7, <2>2, <3>2, <3>10, <4>1 DEF Seen
      <4> QED BY <3>4, <4>2 DEF Live
    <3>11. \A i, j \in 1..Len(s0) : i # j => s0[i] # s0[j] BY <1>7, <2>2 DEF Seen
    <3> QED BY <3>5, <3>6, <3>7, <3>9, <3>10, <3>11
  <2> QED BY <2>1, <2>2 DEF HistoryInv, Scanned
<1>10. /\ n \in Nat /\ items \in Seq(History) /\ Len(items) = n /\ DOMAIN items = 1..n
       /\ \A i \in 1..n : items[i] \in rows
  <2>1. n \in Nat BY <1>5
  <2>2. items \in [1..n -> rows] /\ items \in [1..n -> History] BY <1>6
  <2>3. items \in Seq(History) /\ Len(items) = n BY <2>1, <2>2, IsASeq, LenProperties
  <2> QED BY <2>1, <2>2, <2>3
<1>11. \A i \in 1..n : \A j \in 1..(i - 1) : Newer(items[j], items[i]) BY <1>2, <1>10 DEF FirstRows
<1>12. ASSUME NEW i \in 1..n, NEW j \in 1..n, j < i PROVE items[i] # items[j] /\ ~Newer(items[i], items[j])
  <2>1. Newer(items[j], items[i]) BY <1>10, <1>11, <1>12
  <2>2. /\ items[i] \in Nat /\ items[j] \in Nat /\ hist[items[i]].at \in Nat /\ hist[items[j]].at \in Nat
    BY <1>6, <1>10
  <2> QED BY <2>1, <2>2, NewerOrders
<1>13. \A i, j \in 1..n : i # j => items[i] # items[j]
  <2> SUFFICES ASSUME NEW i \in 1..n, NEW j \in 1..n, i # j PROVE items[i] # items[j] OBVIOUS
  <2>1. i < j \/ j < i BY <1>10
  <2> QED BY <1>12, <2>1
<1>14. PICK more : more = s0 \o items OBVIOUS
<1>15. /\ more \in Seq(History) /\ Len(more) = Len(s0) + n /\ Len(s0) \in Nat
       /\ \A i \in 1..(Len(s0) + n) : more[i] = IF i <= Len(s0) THEN s0[i] ELSE items[i - Len(s0)]
  BY <1>9, <1>10, <1>14
<1>16. \A i \in 1..Len(more) : (i \in 1..Len(s0) /\ more[i] = s0[i])
                               \/ (i - Len(s0) \in 1..n /\ i > Len(s0) /\ more[i] = items[i - Len(s0)])
  BY <1>10, <1>15
<1>17. ASSUME NEW i \in 1..Len(more), NEW j \in 1..Len(more), i # j PROVE more[i] # more[j]
  <2>1. \A a \in 1..Len(s0), b \in 1..n : s0[a] # items[b] BY <1>9, <1>10
  <2>2. CASE more[i] = s0[i] /\ i \in 1..Len(s0) /\ more[j] = s0[j] /\ j \in 1..Len(s0) BY <1>9, <1>17, <2>2
  <2>3. CASE /\ i - Len(s0) \in 1..n /\ more[i] = items[i - Len(s0)]
             /\ j - Len(s0) \in 1..n /\ more[j] = items[j - Len(s0)]
    <3>1. i - Len(s0) # j - Len(s0) BY <1>15, <1>17
    <3> QED BY <1>13, <2>3, <3>1
  <2>4. CASE more[i] = s0[i] /\ i \in 1..Len(s0) /\ more[j] = items[j - Len(s0)] /\ j - Len(s0) \in 1..n
    BY <2>1, <2>4
  <2>5. CASE more[j] = s0[j] /\ j \in 1..Len(s0) /\ more[i] = items[i - Len(s0)] /\ i - Len(s0) \in 1..n
    BY <2>1, <2>5
  <2> QED BY <1>16, <2>2, <2>3, <2>4, <2>5
<1>18. \A i \in 1..Len(more) : hist[more[i]] # None BY <1>6, <1>9, <1>10, <1>16
<1>19. ASSUME ~(rows \subseteq Range(items))
       PROVE  /\ n = Page /\ n \in 1..n /\ Last(items) = items[n]
              /\ \A h \in rows \ Range(items) : Newer(items[n], h)
  <2>1. PICK h \in rows : h \notin Range(items) BY <1>19
  <2>2. n = Page BY <1>2, <1>10, <2>1 DEF FirstRows
  <2>3. Last(items) = items[n] BY <1>10 DEF Last
  <2> QED BY <1>2, <1>5, <1>10, <2>2, <2>3 DEF FirstRows
<1>20. PICK over \in BOOLEAN : over = (rows \subseteq Range(items)) OBVIOUS
<1>21. PICK cur : cur = IF over THEN None ELSE [at |-> hist[Last(items)].at, id |-> Last(items)] OBVIOUS
<1>22. scan' = [done |-> over, cursor |-> cur, seen |-> more, start |-> st]
  BY <1>2, <1>7, <1>8, <1>14, <1>20, <1>21
<1>23. ASSUME ~over
       PROVE  /\ cur \in Cursor
              /\ \A h : Below(h, cur)' <=> Newer(items[n], h)
              /\ \A i \in 1..Len(more) : ~Newer(items[n], more[i])
  <2>1. n \in 1..n /\ Last(items) = items[n] BY <1>19, <1>20, <1>23
  <2>2. cur = [at |-> hist[items[n]].at, id |-> items[n]] BY <1>21, <1>23, <2>1
  <2>3. items[n] \in rows BY <1>10, <2>1
  <2>4. cur \in Cursor BY <1>6, <2>2, <2>3 DEF Cursor
  <2>5. cur.at = hist[items[n]].at /\ cur.id = items[n] BY <2>2
  <2>6. \A h : Below(h, cur)' <=> Newer(items[n], h) BY <1>3, <2>5, NewerIsBelow DEF Below
  <2>7. \A i \in 1..n : ~Newer(items[n], items[i])
    <3> SUFFICES ASSUME NEW i \in 1..n PROVE ~Newer(items[n], items[i]) OBVIOUS
    <3>1. CASE i = n BY <1>6, <2>3, <3>1, NewerOrders
    <3>2. CASE i < n BY <1>12, <2>1, <3>2
    <3> QED BY <1>10, <3>1, <3>2
  <2>8. \A i \in 1..Len(more) : ~Newer(items[n], more[i]) BY <1>9, <1>16, <2>3, <2>7
  <2> QED BY <2>4, <2>6, <2>8
<1>24. ASSUME NEW h \in History, st[h] # None, st[h] = hist[h], ~hist[h].deleted
       PROVE  (\E i \in 1..Len(more) : more[i] = h) \/ (~over /\ Below(h, cur)')
  <2>1. CASE \E i \in 1..Len(s0) : s0[i] = h
    <3>1. PICK i \in 1..Len(s0) : s0[i] = h BY <2>1
    <3>2. i \in 1..Len(more) /\ i <= Len(s0) /\ i \in 1..(Len(s0) + n) BY <1>10, <1>15
    <3>3. more[i] = h BY <1>15, <3>1, <3>2
    <3> QED BY <3>2, <3>3
  <2>2. CASE h \in Range(items)
    <3>1. PICK i \in 1..n : items[i] = h BY <1>10, <2>2 DEF Range
    <3>2. PICK j \in 1..(Len(s0) + n) : j = Len(s0) + i BY <1>10, <1>15
    <3>3. ~(j <= Len(s0)) /\ j - Len(s0) = i BY <1>10, <1>15, <3>2
    <3>4. more[j] = h BY <1>15, <3>1, <3>3
    <3> QED BY <1>15, <3>4
  <2>3. CASE h \in rows /\ h \notin Range(items)
    <3>1. ~over BY <1>20, <2>3
    <3>2. Newer(items[n], h) BY <1>19, <1>20, <2>3, <3>1
    <3> QED BY <1>23, <3>1, <3>2
  <2> QED BY <1>9, <1>24, <2>1, <2>2, <2>3
<1>25. Seen'
  <2>1. scan'.done = over /\ scan'.cursor = cur /\ scan'.seen = more /\ scan'.start = st BY <1>22
  <2>2. \A i \in 1..Len(more) : hist[more[i]] # None /\ (~over => ~Below(more[i], cur)') BY <1>18, <1>23
  <2>3. \A h \in History : st[h] # None =>
          /\ hist[h] # None /\ st[h].rev <= hist[h].rev
          /\ st[h] = hist[h] /\ ~hist[h].deleted =>
               (\E i \in 1..Len(more) : more[i] = h) \/ (~over /\ Below(h, cur)')
    BY <1>9, <1>24
  <2>4. \A h : Below(h, scan.cursor)' <=> Below(h, cur)' BY <2>1 DEF Below
  <2> QED BY <1>3, <1>9, <1>15, <1>17, <1>23, <2>1, <2>2, <2>3, <2>4 DEF Seen
<1>26. AnswersKept' /\ SavedRows' /\ Viewed' /\ Callers'
  BY <1>3, <1>4, AnswersGoOn, SavedGoOn, ViewGoesOn, CallersStay DEF HistoryInv
<1>27. StoreAssumption' /\ HistoryWorld' BY <1>3 DEF HistoryInv, StoreAssumption, HistoryWorld
<1> QED BY <1>4, <1>25, <1>26, <1>27 DEF HistoryInv, Scanned

-----------------------------------------------------------------------------
(***************************************************************************)
(* The inductive invariant.                                                *)
(***************************************************************************)
LEMMA HistoryInit == StoreAssumption /\ Init => HistoryInv
<1> SUFFICES ASSUME StoreAssumption, Init PROVE HistoryInv
  OBVIOUS
<1>1. /\ now = 1 /\ turns = [t \in Turn |-> None] /\ saved = {} /\ lease = {} /\ epoch = 1
      /\ thread = [k \in Thread |-> Idle] /\ view = NoView /\ scan = NoScan /\ told = {}
  BY DEF Init
<1>2. PICK at \in [History -> {0, 1}] :
        hist = [h \in History |-> IF h <= Len(There) THEN Record(There[h], None, None, at[h]) ELSE None]
  <2>1. {1} \cup (IF "list" \in Acts THEN {0} ELSE {}) \subseteq {0, 1} OBVIOUS
  <2> QED BY <2>1 DEF Init
<1>3. ASSUME NEW h \in History
      PROVE  hist[h] = None \/ (/\ hist[h] \in HistoryRow /\ hist[h].at <= 1 /\ hist[h].active = None
                                /\ hist[h].ctx = 0 /\ hist[h].last = None)
  <2>1. CASE h <= Len(There)
    <3>1. There \in Seq({"query", "analysis"}) /\ h \in 1..Len(There)
      BY <2>1 DEF StoreAssumption, History
    <3>2. There[h] \in Kinds BY <3>1 DEF Kinds, Range
    <3>3. at[h] \in Nat /\ at[h] <= 1 BY <1>2
    <3>4. hist[h] = Record(There[h], None, None, at[h]) BY <1>2, <2>1
    <3>5. /\ Record(There[h], None, None, at[h]) \in HistoryRow
          /\ Record(There[h], None, None, at[h])
               = [kind |-> There[h], op |-> None, hash |-> None, deleted |-> FALSE, active |-> None,
                  gen |-> 0, ctx |-> 0, rev |-> 0, last |-> None, title |-> 0, at |-> at[h]]
      BY <3>2, <3>3, NewRow
    <3> QED BY <3>3, <3>4, <3>5
  <2>2. CASE ~(h <= Len(There)) BY <1>2, <2>2
  <2> QED BY <2>1, <2>2
<1>4. \A t \in Turn : turns[t] = None BY <1>1
<1>5. HistoryRows BY <1>1, <1>2, <1>3 DEF HistoryRows
<1>6. TurnRows BY <1>1, <1>4 DEF TurnRows
<1>7. ASSUME NEW h \in History, Live(h) PROVE Chained(h)
  <2>1. hist[h].active = None /\ hist[h].ctx = 0 /\ hist[h].last = None BY <1>3, <1>7 DEF Live
  <2>2. Won(h) = {} BY <1>4 DEF Won, TurnsOf
  <2>3. Cardinality({}) = 0 BY FS_EmptySet
  <2> QED BY <2>1, <2>2, <2>3 DEF Chained
<1>8. Idle = [pc |-> "idle", req |-> None, of |-> None, turn |-> None, gen |-> 0, result |-> None] BY DEF Idle
<1>9. Callers
  <2>1. Idle \in Caller /\ CallerFits(Idle) BY <1>8 DEF Caller, CallerFits, PendingPc, HoldingPc
  <2>2. \A k \in Thread : thread[k] = Idle BY <1>1
  <2>3. thread \in [Thread -> Caller] BY <1>1, <2>1
  <2> QED BY <2>1, <2>2, <2>3 DEF Callers
<1>10. Hashes /\ SavedRows /\ AnswersKept /\ Scanned BY <1>1, <1>4 DEF Hashes, SavedRows, AnswersKept, Scanned
<1>11. Viewed BY <1>1 DEF Viewed, NoView
<1>12. HistoryWorld BY <1>1 DEF HistoryWorld, StoreAssumption
<1> QED BY <1>5, <1>6, <1>7, <1>9, <1>10, <1>11, <1>12 DEF HistoryInv, Chains

LEMMA HistoryNext == HistoryInv /\ [Next]_vars => HistoryInv'
<1> SUFFICES ASSUME HistoryInv, [Next]_vars PROVE HistoryInv'
  OBVIOUS
<1>1. CASE Create BY <1>1, CreateKeeps
<1>2. ASSUME NEW k \in Thread,
             \/ Submit(k) \/ Resume(k) \/ Requery(k) \/ ReadHeader(k) \/ Reserve(k)
             \/ Begin(k) \/ BeginRequery(k) \/ Work(k) \/ Finish(k) \/ Answer(k)
      PROVE  HistoryInv'
  BY <1>2, SubmitKeeps, ResumeKeeps, RequeryKeeps, ReadHeaderKeeps, ReserveKeeps, BeginKeeps, BeginRequeryKeeps,
     WorkKeeps, FinishKeeps, AnswerKeeps
<1>3. CASE Reconcile \/ Look \/ RenameHistory \/ DeleteHistory \/ CopyResult \/ DeleteSaved
  BY <1>3, ReconcileKeeps, LookKeeps, RenameKeeps, DeleteKeeps, CopyResultKeeps, DeleteSavedKeeps
<1>4. CASE ListPage \/ Tick \/ Restart BY <1>4, ListPageKeeps, TickKeeps, RestartKeeps
<1>5. CASE UNCHANGED vars BY <1>5, StutterKeeps
<1> QED BY <1>1, <1>2, <1>3, <1>4, <1>5 DEF Next

(* Whatever transactions of requests, pages, restarts and time come in whatever order, the
   tables, the answers and the pages keep the inductive invariant.  (history.py) *)
THEOREM HistoriesKeep == ASSUME StoreAssumption PROVE Spec => []HistoryInv
<1>1. Init => HistoryInv BY HistoryInit
<1>2. HistoryInv /\ [Next]_vars => HistoryInv' BY HistoryNext
<1> QED BY <1>1, <1>2, PTL DEF Spec

-----------------------------------------------------------------------------
(***************************************************************************)
(* What it says of the histories.                                          *)
(***************************************************************************)
LEMMA AnswersFollow == ASSUME HistoryInv PROVE AnswersStand
<1> SUFFICES ASSUME NEW a \in told
             PROVE  /\ turns[a.turn].status = a.status
                    /\ \A b \in told : a.req = b.req =>
                         a.turn = b.turn \/ (a.req.act = "resume" /\ "succeeded" \in {a.status, b.status})
  BY DEF AnswersStand
<1>1. \A c \in told : Told(c) BY DEF HistoryInv, AnswersKept
<1>2. ASSUME NEW b \in told, a.req = b.req
      PROVE  a.turn = b.turn \/ (a.req.act = "resume" /\ "succeeded" \in {a.status, b.status})
  <2>1. CASE turns[a.turn].hash = a.req /\ turns[b.turn].hash = b.req
    <3>1. a.turn \in Turn /\ turns[a.turn] # None /\ b.turn \in Turn /\ turns[b.turn] # None BY <1>1 DEF Told
    <3>2. turns[a.turn].hash = turns[b.turn].hash BY <1>2, <2>1
    <3> QED BY <3>1, <3>2 DEF HistoryInv, Hashes
  <2>2. CASE ~(turns[a.turn].hash = a.req /\ turns[b.turn].hash = b.req) BY <1>1, <1>2, <2>2 DEF Told
  <2> QED BY <2>1, <2>2
<1> QED BY <1>1, <1>2 DEF Told

\* The greatest of a set of numbers.
LEMMA MaxIs ==
  ASSUME NEW S \in SUBSET Nat, NEW m \in S, \A u \in S : u <= m
  PROVE  Max(S) = m
<1>1. \A y \in S : m >= y OBVIOUS
<1>2. Max(S) \in S /\ \A y \in S : Max(S) >= y BY <1>1 DEF Max
<1>3. PICK x \in S : x = Max(S) BY <1>2
<1>4. x >= m /\ x <= m BY <1>2, <1>3
<1>5. x = m BY <1>4
<1> QED BY <1>3, <1>5

LEMMA ChainFollows ==
  ASSUME StoreAssumption, NEW h \in History, Chained(h)
  PROVE  /\ hist[h].ctx = Cardinality(Won(h))
         /\ hist[h].kind = "analysis" => Cardinality(Won(h)) <= 1
         /\ hist[h].kind = "query" => \A t \in Won(h) :
              LET before == {u \in Won(h) : u < t} IN
              IF before = {} THEN turns[t].base \notin Won(h) ELSE turns[t].base = Max(before)
<1>1. hist[h].ctx = Cardinality(Won(h)) BY DEF Chained
<1>2. ASSUME hist[h].kind = "analysis" PROVE Cardinality(Won(h)) <= 1
  <2>1. \A t, u \in Won(h) : t = u BY <1>2 DEF Chained
  <2>2. CASE Won(h) = {} BY <2>2, FS_EmptySet
  <2>3. CASE Won(h) # {}
    <3>1. PICK t : t \in Won(h) BY <2>3
    <3>2. Won(h) = {t} BY <2>1, <3>1
    <3>3. Cardinality({t}) = 1 BY FS_Singleton
    <3> QED BY <3>2, <3>3
  <2> QED BY <2>2, <2>3
<1>3. ASSUME hist[h].kind = "query", NEW t \in Won(h)
      PROVE  LET before == {u \in Won(h) : u < t} IN
             IF before = {} THEN turns[t].base \notin Won(h) ELSE turns[t].base = Max(before)
  <2>1. PICK before : before = {u \in Won(h) : u < t} OBVIOUS
  <2>2. Won(h) \subseteq TurnsOf(h) BY DEF Won
  <2>3. Won(h) \in SUBSET Nat BY WonFinite, Numbers
  <2>4. Follows(t, h) BY <1>3 DEF Chained
  <2>5. CASE turns[t].base \notin TurnsOf(h) /\ \A u \in Won(h) : t <= u
    <3>1. before = {} BY <2>1, <2>3, <2>5
    <3> QED BY <2>1, <2>2, <2>5, <3>1
  <2>6. CASE /\ turns[t].base \in Won(h) /\ turns[t].base < t
             /\ \A u \in Won(h) : u < t => u <= turns[t].base
    <3>1. PICK m : m = turns[t].base OBVIOUS
    <3>2. m \in before /\ before \in SUBSET Nat /\ \A u \in before : u <= m BY <2>1, <2>3, <2>6, <3>1
    <3>3. Max(before) = m BY <3>2, MaxIs
    <3> QED BY <2>1, <3>1, <3>2, <3>3
  <2> QED BY <2>4, <2>5, <2>6 DEF Follows
<1> QED BY <1>1, <1>2, <1>3

LEMMA HistoriesFollow == HistoryInv => HistoriesHold
<1> SUFFICES ASSUME HistoryInv PROVE HistoriesHold
  OBVIOUS
<1>1. StoreAssumption /\ HistoryRows /\ TurnRows /\ HistoryWorld BY DEF HistoryInv
<1>2. TypeOK
  <2>1. \A h \in History : hist[h] = None \/ (hist[h].kind \in Kinds /\ hist[h].active \in Turn \cup {None})
    BY <1>1, RowTyped
  <2>2. \A t \in Turn : turns[t] = None \/ turns[t].status \in Status BY <1>1, TurnTyped
  <2> QED BY <1>1, <2>1, <2>2 DEF TypeOK, HistoryWorld
<1>3. RevisionNamesContent BY DEF HistoryInv, Viewed, RevisionNamesContent
<1>4. SuccessesChain
  <2>1. ASSUME NEW h \in History, Live(h) PROVE Chained(h) BY <2>1 DEF HistoryInv, Chains
  <2>2. \A h \in History : Won(h) = {t \in TurnsOf(h) : turns[t].status = "succeeded"} BY DEF Won
  <2> SUFFICES ASSUME NEW h \in History, Live(h)
               PROVE  LET won == Won(h) IN
                      /\ hist[h].ctx = Cardinality(won)
                      /\ hist[h].kind = "analysis" => Cardinality(won) <= 1
                      /\ hist[h].kind = "query" => \A t \in won :
                           LET before == {u \in won : u < t} IN
                           IF before = {} THEN turns[t].base \notin won ELSE turns[t].base = Max(before)
    BY <2>2 DEF SuccessesChain
  <2> QED BY <1>1, <2>1, ChainFollows
<1> QED BY <1>2, <1>3, <1>4, AnswersFollow DEF HistoriesHold

(* In every state of every run a repeated request gets the turn and the outcome it got
   before, a page that holds the current revision has seen every turn and outcome of its
   history, and the context revision counts successes that are each computed from the one
   before.  (_begin, begin_requery, finish_attempt, rename_history, delete_history) *)
THEOREM HistoriesAlwaysHold == ASSUME StoreAssumption PROVE Spec => []HistoriesHold
<1>1. HistoryInv => HistoriesHold BY HistoriesFollow
<1> QED BY <1>1, HistoriesKeep, PTL

LEMMA PagesFollow == HistoryInv => PagesComplete
<1> SUFFICES ASSUME HistoryInv PROVE PagesComplete
  OBVIOUS
<1>1. CASE scan = NoScan
  <2>1. scan.seen = <<>> /\ ~scan.done BY <1>1 DEF NoScan
  <2> QED BY <2>1 DEF PagesComplete
<1>2. CASE Seen
  <2>1. \A i, j \in 1..Len(scan.seen) : scan.seen[i] = scan.seen[j] => i = j BY <1>2 DEF Seen
  <2>2. ASSUME scan.done, NEW h \in History, scan.start[h] # None, scan.start[h] = hist[h], ~hist[h].deleted
        PROVE  h \in Range(scan.seen)
    <3>1. PICK i \in 1..Len(scan.seen) : scan.seen[i] = h BY <1>2, <2>2 DEF Seen
    <3>2. DOMAIN scan.seen = 1..Len(scan.seen) BY <1>2, LenProperties DEF Seen
    <3> QED BY <3>1, <3>2 DEF Range
  <2> QED BY <2>1, <2>2 DEF PagesComplete
<1> QED BY <1>1, <1>2 DEF HistoryInv, Scanned

(* The list shows nothing twice, and when it ends it has shown every history that nobody
   touched since its first page, whatever was created, finished, renamed, deleted or given
   up between the pages.  (_list) *)
THEOREM PagesAlwaysComplete == ASSUME StoreAssumption PROVE Spec => []PagesComplete
<1>1. HistoryInv => PagesComplete BY PagesFollow
<1> QED BY <1>1, HistoriesKeep, PTL
=============================================================================
