----------------------- MODULE ExecutionEvents_proofs -----------------------
(***************************************************************************)
(* Theorems about ExecutionEvents: what a page shows is what the channel   *)
(* held, whatever was evicted, cut or fetched again.                       *)
(***************************************************************************)
EXTENDS ExecutionEvents, SequenceTheorems, FiniteSetTheorems, NaturalsInduction,
        WellFoundedInduction, TLAPS

-----------------------------------------------------------------------------
(***************************************************************************)
(* The ring: its bytes, eviction and reading after a cursor.               *)
(***************************************************************************)

\* The bytes of no event and of one event.
LEMMA NoBytes == Bytes(<<>>) = 0
<1> DEFINE Is(f) == f = [s \in SUBSET {} |-> IF s = {} THEN 0 ELSE
                           f[s \ {Max(s)}] + Size(<<>>[Max(s)])]
           f0 == CHOOSE f : Is(f)
<1>1. Bytes(<<>>) = f0[{}]
  <2>1. DOMAIN <<>> = {} OBVIOUS
  <2> QED BY <2>1, Zenon DEF Bytes, FoldLeft, MapThenFoldSet
<1>2. Is([s \in SUBSET {} |-> 0]) OBVIOUS
<1>3. Is(f0) BY <1>2, Zenon
<1> HIDE DEF f0
<1> QED BY <1>1, <1>3

LEMMA OneByte == ASSUME NEW e, Size(e) \in Nat PROVE Bytes(<<e>>) = Size(e)
<1> DEFINE it == [s \in SUBSET {1} |-> IF s = {} THEN 0 ELSE Size(e)]
           Is(f) == f = [s \in SUBSET {1} |-> IF s = {} THEN 0 ELSE
                           f[s \ {Max(s)}] + Size(<<e>>[Max(s)])]
           f0 == CHOOSE f : Is(f)
<1>1. Bytes(<<e>>) = f0[{1}]
  <2>1. DOMAIN <<e>> = {1} OBVIOUS
  <2> QED BY <2>1, Zenon DEF Bytes, FoldLeft, MapThenFoldSet
<1>2. Max({1}) = 1
  BY DEF Max
<1>3. <<e>>[1] = e OBVIOUS
<1>4. Is(it)
  <2>1. ASSUME NEW s \in SUBSET {1}
        PROVE  it[s] = IF s = {} THEN 0 ELSE it[s \ {Max(s)}] + Size(<<e>>[Max(s)])
    <3>1. CASE s = {} BY <3>1
    <3>2. CASE s = {1}
      <4>1. {1} \ {Max({1})} = {} BY <1>2
      <4>2. it[{}] = 0 /\ it[{1}] = Size(e) OBVIOUS
      <4>3. it[{1}] = it[{1} \ {Max({1})}] + Size(<<e>>[Max({1})])
        <5> HIDE DEF it
        <5> QED BY <4>1, <4>2, <1>2, <1>3
      <4> HIDE DEF it
      <4> QED BY <4>3, <3>2
    <3> QED BY <3>1, <3>2
  <2> QED BY <2>1, Zenon
<1>5. Is(f0) BY <1>4, Zenon
<1> HIDE DEF f0
<1>6. f0[{1}] = f0[{1} \ {Max({1})}] + Size(<<e>>[Max({1})]) BY <1>5
<1>7. f0[{}] = 0 BY <1>5
<1>8. {1} \ {Max({1})} = {} BY <1>2
<1> QED BY <1>1, <1>2, <1>3, <1>6, <1>7, <1>8

\* The least member of a set of numbers.
LEMMA Least == ASSUME NEW S \in SUBSET Nat, S # {}
               PROVE  \E n \in S : \A m \in S : n <= m
<1>1. \E n \in S : \A m \in S : ~(<<m, n>> \in OpToRel(<, Nat))
  BY NatLessThanWellFounded, WFMin
<1>2. PICK n \in S : \A m \in S : ~(m < n)
  BY <1>1 DEF OpToRel
<1> QED BY <1>2

\* A sequence of one element.
LEMMA OneFrame == ASSUME NEW F, NEW s \in Seq(F), Len(s) = 1 PROVE s = <<s[1]>>
<1>1. <<s[1]>> \in Seq(F) /\ Len(<<s[1]>>) = 1 /\ <<s[1]>>[1] = s[1] OBVIOUS
<1>2. PICK t \in Seq(F) : t = <<s[1]>> BY <1>1
<1>3. s = t BY <1>1, <1>2, SeqEqual
<1> QED BY <1>2, <1>3

\* What eviction leaves ends with the newest event and is within the limits, when that event is.
LEMMA Evicted ==
  ASSUME EventsAssumption, NEW F, NEW r \in Seq(F), r # <<>>, Size(r[Len(r)]) \in Nat, Size(r[Len(r)]) <= MaxBytes
  PROVE  \E i \in 1..Len(r) : Evict(r) = SubSeq(r, i, Len(r)) /\ Fits(Evict(r))
<1> DEFINE n == Len(r)
           S == {i \in 1..n : Fits(SubSeq(r, i, n))}
<1>0. n \in Nat \ {0} OBVIOUS
<1>1. n \in S
  <2>1. SubSeq(r, n, n) = <<r[n]>>
    <3>1. \A i \in n .. n : r[i] \in F BY <1>0, ElementOfSeq
    <3>2. SubSeq(r, n, n) \in Seq(F) /\ Len(SubSeq(r, n, n)) = 1 /\ SubSeq(r, n, n)[1] = r[n]
      BY <1>0, <3>1, SubSeqProperties
    <3> HIDE DEF n
    <3> QED BY <3>2, OneFrame
  <2>2. Len(<<r[n]>>) = 1 OBVIOUS
  <2>3. Bytes(<<r[n]>>) <= MaxBytes BY OneByte
  <2>4. Fits(<<r[n]>>) BY <2>2, <2>3 DEF Fits, EventsAssumption
  <2>5. n \in 1 .. n BY <1>0
  <2> HIDE DEF n
  <2> QED BY <2>1, <2>4, <2>5
<1>2. PICK i \in S : \A m \in S : i <= m
  <2>1. S \in SUBSET Nat OBVIOUS
  <2> QED BY <1>1, <2>1, Least
<1> DEFINE Q(k) == /\ Fits(SubSeq(r, k, n))
                   /\ \A j \in 1..(k - 1) : ~Fits(SubSeq(r, j, n))
<1>3. Q(i)
  <2>1. i \in 1..n /\ Fits(SubSeq(r, i, n)) BY <1>2
  <2>2. ASSUME NEW j \in 1..(i - 1) PROVE ~Fits(SubSeq(r, j, n))
    <3>1. j \in 1..n /\ ~(i <= j) BY <2>1, <1>0
    <3> QED BY <3>1, <1>2
  <2> QED BY <2>1, <2>2
<1> DEFINE start == CHOOSE k \in 1..n : Q(k)
<1>4. start \in 1..n /\ Q(start)
  <2>1. \E k \in 1..n : Q(k) BY <1>3
  <2> HIDE DEF Q
  <2> QED BY <2>1, Zenon
<1>5. Evict(r) = SubSeq(r, start, n)
  BY Zenon DEF Evict
<1> QED BY <1>4, <1>5

\* A subsequence with one more element.
LEMMA OneMore ==
  ASSUME NEW F, NEW r \in Seq(F), NEW k \in 1..(Len(r) + 1), NEW i \in 1..Len(r)
  PROVE  /\ i >= k => SubSeq(r, k, i) = Append(SubSeq(r, k, i - 1), r[i])
         /\ i < k => SubSeq(r, k, i) = <<>>
         /\ SubSeq(r, k, 0) = <<>>
<1>1. \A j \in k .. i : r[j] \in F BY ElementOfSeq
<1>2. \A j \in k .. (i - 1) : r[j] \in F BY ElementOfSeq
<1>3. PICK s : s = SubSeq(r, k, i) OBVIOUS
<1>4. PICK t : t = SubSeq(r, k, i - 1) OBVIOUS
<1>5. /\ s \in Seq(F) /\ Len(s) = IF k <= i THEN i - k + 1 ELSE 0
      /\ \A j \in 1 .. i - k + 1 : s[j] = r[k + j - 1]
  BY <1>1, <1>3, SubSeqProperties
<1>6. /\ t \in Seq(F) /\ Len(t) = IF k <= i - 1 THEN (i - 1) - k + 1 ELSE 0
      /\ \A j \in 1 .. (i - 1) - k + 1 : t[j] = r[k + j - 1]
  BY <1>2, <1>4, SubSeqProperties
<1>7. PICK u : u = Append(t, r[i]) OBVIOUS
<1>8. /\ u \in Seq(F) /\ Len(u) = Len(t) + 1
      /\ \A j \in 1 .. Len(t) : u[j] = t[j]
      /\ u[Len(t) + 1] = r[i]
  BY <1>6, <1>7, AppendProperties
<1>9. ASSUME i >= k PROVE s = u
  <2>1. Len(s) = i - k + 1 /\ Len(t) = i - k /\ Len(u) = i - k + 1 BY <1>5, <1>6, <1>8, <1>9
  <2>2. ASSUME NEW j \in 1 .. Len(s) PROVE s[j] = u[j]
    <3>1. CASE j = i - k + 1 BY <2>1, <3>1, <1>5, <1>8
    <3>2. CASE j < i - k + 1 BY <2>1, <3>2, <1>5, <1>6, <1>8
    <3> QED BY <2>1, <3>1, <3>2
  <2> QED BY <1>5, <1>8, <2>1, <2>2, SeqEqual
<1>10. i < k => SubSeq(r, k, i) = <<>> BY SubSeqEmpty
<1>11. SubSeq(r, k, 0) = <<>> BY SubSeqEmpty
<1> QED BY <1>3, <1>4, <1>7, <1>9, <1>10, <1>11

\* The events after a cursor that the ring still reaches.
LEMMA NewerIs ==
  ASSUME NEW F, ring \in Seq(F), seq \in Nat, Len(ring) <= seq,
         \A i \in 1..Len(ring) : ring[i].seq = seq - Len(ring) + i,
         NEW n \in Nat, seq - Len(ring) <= n, n <= seq
  PROVE  /\ Newer(n) \in Seq(F) /\ Len(Newer(n)) = seq - n
         /\ \A i \in 1..(seq - n) : Newer(n)[i] = ring[n - (seq - Len(ring)) + i]
<1>0. PICK L \in Nat : L = Len(ring) BY LenProperties
<1>a. seq - L <= n /\ L <= seq BY <1>0
<1>b. n - (seq - L) + 1 \in 1 .. (L + 1) BY <1>0, <1>a
<1>1. PICK k \in 1 .. (L + 1) : k = n - (seq - L) + 1 BY <1>b
<1> DEFINE sol == [i \in 0..L |-> SubSeq(ring, k, i)]
           Is(f) == f = [i \in 0..L |-> IF i = 0 THEN <<>>
                           ELSE IF ring[i].seq > n THEN Append(f[i - 1], ring[i]) ELSE f[i - 1]]
           f0 == CHOOSE f : Is(f)
<1>2. Newer(n) = f0[L]
  BY <1>0, Zenon DEF Newer
<1>3. ASSUME NEW i \in 1..L PROVE (ring[i].seq > n) <=> (i >= k)
  BY <1>0, <1>1
<1>4. Is(sol)
  <2>1. ASSUME NEW i \in 0..L
        PROVE  sol[i] = IF i = 0 THEN <<>>
                        ELSE IF ring[i].seq > n THEN Append(sol[i - 1], ring[i]) ELSE sol[i - 1]
    <3>1. CASE i = 0
      <4>1. sol[0] = SubSeq(ring, k, 0) BY <1>0
      <4> HIDE DEF sol
      <4> QED BY <4>1, <3>1, <1>0, <1>1, SubSeqEmpty
    <3>2. CASE i # 0
      <4>1. sol[i] = SubSeq(ring, k, i) /\ sol[i - 1] = SubSeq(ring, k, i - 1) BY <3>2, <1>0
      <4>2. i \in 1..L BY <3>2, <1>0
      <4>3. i < k => SubSeq(ring, k, i - 1) = <<>> BY <4>2, <1>0, <1>1, SubSeqEmpty
      <4> HIDE DEF sol
      <4>4. /\ i >= k => SubSeq(ring, k, i) = Append(SubSeq(ring, k, i - 1), ring[i])
            /\ i < k => SubSeq(ring, k, i) = <<>>
        BY <4>2, <1>0, <1>1, OneMore
      <4>5. CASE i >= k
        <5>1. ring[i].seq > n BY <1>3, <4>2, <4>5
        <5>2. SubSeq(ring, k, i) = Append(SubSeq(ring, k, i - 1), ring[i]) BY <4>4, <4>5
        <5> QED BY <5>1, <5>2, <4>1, <3>2
      <4>6. CASE i < k
        <5>1. ~(ring[i].seq > n) BY <1>0, <1>1, <1>3, <4>2, <4>6
        <5> QED BY <5>1, <4>1, <4>3, <4>4, <4>6, <3>2
      <4> QED BY <4>5, <4>6, <4>2, <1>0, <1>1
    <3> QED BY <3>1, <3>2
  <2> QED BY <2>1, Zenon
<1>5. Is(f0) BY <1>4, Zenon
<1> HIDE DEF f0
<1>6. \A i \in 0..L : f0[i] = SubSeq(ring, k, i)
  <2> DEFINE B == {i \in 0..L : f0[i] # SubSeq(ring, k, i)}
  <2>1. SUFFICES ASSUME B # {} PROVE FALSE OBVIOUS
  <2>2. \A i : i \in B <=> i \in 0..L /\ f0[i] # SubSeq(ring, k, i) OBVIOUS
  <2>a. B \in SUBSET Nat BY <1>0
  <2> HIDE DEF B
  <2>3. PICK i \in B : \A m \in B : i <= m BY <2>1, <2>a, Least
  <2>4. i \in 0..L /\ f0[i] # SubSeq(ring, k, i) BY <2>2, <2>3
  <2>5. sol[i] = SubSeq(ring, k, i) BY <2>4
  <2>6. CASE i = 0
    <3>1. f0[0] = <<>> BY <1>5, <1>0
    <3>2. SubSeq(ring, k, 0) = <<>> BY <1>0, <1>1, SubSeqEmpty
    <3> QED BY <3>1, <3>2, <2>4, <2>6
  <2>7. CASE i # 0
    <3>a. i - 1 \in 0..L /\ ~(i <= i - 1) BY <2>4, <2>7, <1>0
    <3>1. i - 1 \in 0..L /\ i - 1 \notin B BY <2>3, <3>a
    <3>2. f0[i - 1] = SubSeq(ring, k, i - 1) BY <3>1, <2>2
    <3>3. f0[i] = IF ring[i].seq > n THEN Append(f0[i - 1], ring[i]) ELSE f0[i - 1] BY <1>5, <2>4, <2>7
    <3>4. sol[i] = IF ring[i].seq > n THEN Append(sol[i - 1], ring[i]) ELSE sol[i - 1]
      <4> HIDE DEF sol
      <4> QED BY <1>4, <2>4, <2>7
    <3>5. sol[i - 1] = SubSeq(ring, k, i - 1) BY <3>1
    <3> HIDE DEF sol
    <3> QED BY <2>4, <2>5, <3>2, <3>3, <3>4, <3>5
  <2> QED BY <2>6, <2>7
<1>7. Newer(n) = SubSeq(ring, k, L) BY <1>2, <1>6, <1>0
<1>8. \A j \in k .. L : ring[j] \in F BY <1>0, <1>1, ElementOfSeq
<1>9. /\ SubSeq(ring, k, L) \in Seq(F) /\ Len(SubSeq(ring, k, L)) = IF k <= L THEN L - k + 1 ELSE 0
      /\ \A j \in 1 .. L - k + 1 : SubSeq(ring, k, L)[j] = ring[k + j - 1]
  BY <1>0, <1>1, <1>8, SubSeqProperties
<1>10. \A i \in 1..(seq - n) : ring[k + i - 1] = ring[n - (seq - L) + i] BY <1>0, <1>1
<1> HIDE DEF sol
<1> QED BY <1>0, <1>1, <1>7, <1>9, <1>10

-----------------------------------------------------------------------------
(***************************************************************************)
(* The invariant.                                                          *)
(***************************************************************************)
\* Types.
Statuses == Active \cup Terminal
Reasons == {None, "user_cancelled"}
RowType == [status : Statuses, reason : Reasons]
PageState == [seq : Nat, st : StateType]

\* Bodies and frames.
Body == {NoBody} \cup StateType
        \cup [status : Statuses] \cup RowType
        \cup [stage : 0..MaxStage, done : 0..Total, total : {0, Total}]
        \cup [key : Key, offset : Nat, text : Seq(Nat)]
Increment == {"progress", "text_delta", "draft_reset", "terminal"}
Frame == [seq : Nat, gen : Nat, type : Increment \cup {"snapshot", "auth_lost"}, body : Body]

\* The state after an event, as the reducer computes it.
DraftAfter(d, e) ==
  CASE e.type \in {"draft_reset", "terminal"} -> NoDraft
    [] e.type = "text_delta" -> [d EXCEPT ![e.body.key] = @ \o e.body.text]
    [] OTHER -> d
After(st, e) ==
  [status |-> Or(e.body, "status", st.status), reason |-> Or(e.body, "reason", st.reason),
   stage |-> Or(e.body, "stage", st.stage), done |-> Or(e.body, "done", st.done),
   total |-> Or(e.body, "total", st.total), gen |-> e.gen, draft |-> DraftAfter(st.draft, e)]

\* Event e leads from state st to state new.
Leads(st, e, new) ==
  /\ e.type \in Increment
  /\ e.gen = st.gen + (IF e.type = "draft_reset" THEN 1 ELSE 0)
  /\ e.type = "text_delta" => Continues(st.draft, e.body)
  /\ new = After(st, e)

\* An event, a snapshot of the history h.
EventOf(e, h) ==
  /\ e.seq \in 1..(Len(h) - 1)
  /\ Leads(h[e.seq], e, h[e.seq + 1])
  /\ e.seq = 1 => "status" \in DOMAIN e.body
SnapshotOf(e, h) ==
  /\ e.type = "snapshot"
  /\ e.seq \in 0..(Len(h) - 1)
  /\ e.body = h[e.seq + 1] /\ e.gen = e.body.gen

\* a may come before b in the history of a channel.
Upto(a, b) == ~Regresses(a, b) /\ a.gen <= b.gen

\* The history of a channel goes forward, and ends with its only terminal state.
Grows(h) ==
  /\ h \in Seq(StateType) /\ Len(h) >= 1
  /\ h[1] = InitialState
  /\ \A i \in 1..Len(h), j \in 1..Len(h) : i <= j => Upto(h[i], h[j])
  /\ \A i \in 1..(Len(h) - 1) : h[i].status \notin Terminal
  /\ \A i \in 2..Len(h) : h[i].status # "accepted"

\* The channel keeps its history, and its ring the last events of it.
Channel ==
  /\ Grows(past) /\ seq \in Nat /\ Len(past) = seq + 1 /\ past[seq + 1] = state
  /\ ring \in Seq(Frame) /\ Len(ring) <= seq /\ Fits(ring)
  /\ seq > 0 => ring # <<>>
  /\ \A i \in 1..Len(ring) : ring[i].seq = seq - Len(ring) + i /\ EventOf(ring[i], past)

\* What the channel has shown is behind the row.
Rows ==
  /\ row \in RowType /\ ran \in BOOLEAN /\ revoked \in BOOLEAN /\ cut \in 0..Outages
  /\ chan \in {"none", "open", "dropped"}
  /\ chan = "none" => ~ran /\ row.status \in {"accepted", "stopping"} /\ seq = 0
  /\ ran => row.status # "accepted"
  /\ \A i \in 1..Len(past) : past[i].status = "running" => ran
  /\ \A i \in 1..Len(past) : past[i].status \in Confirmed => past[i].status = row.status

\* The row was stopped before it ran.
Unrun == ~ran /\ row.status # "accepted"

\* A row read earlier, and its snapshot.
\* WasRow: before the connection has looked for a channel; Kept: after it found none.
WasRow(v) ==
  /\ v \in RowType
  /\ v.status \in Confirmed => v.status = row.status
  /\ chan = "none" => v.status \in {"accepted", row.status}
Kept(v) ==
  /\ v \in RowType
  /\ v.status \in Confirmed => v.status = row.status
  /\ v.status \in {"running", "stopping"} => chan = "dropped" \/ (v.status = "stopping" /\ Unrun)
SavedOf(e) == \E v \in RowType : Kept(v) /\ e = PersistedSnapshot(v)
\* Every frame is an event or a snapshot of the channel, a row's snapshot or the last word.
Sound(e) == EventOf(e, past) \/ SnapshotOf(e, past) \/ SavedOf(e) \/ e = AuthLost
FromChannel(e) == EventOf(e, past) \/ SnapshotOf(e, past)

ConnType == [pc : {"free", "view", "check", "send", "loop", "read", "closing", "closed"},
             live : BOOLEAN, first : BOOLEAN, view : {None} \cup RowType, cursor : Nat,
             queue : Seq(Frame), gone : BOOLEAN, late : {0, 1}]

\* Record k and wire w of a connection.
ConnFits(k, w) ==
  /\ k \in ConnType /\ w \in Seq(Frame)
  /\ \A i \in 1..Len(w) : Sound(w[i])
  /\ \A i \in 1..Len(k.queue) : Sound(k.queue[i])
  /\ k.pc = "free" => k = FreeConn /\ w = <<>>
  /\ k.pc = "view" => ~k.live /\ k.queue = <<>> /\ w = <<>> /\ WasRow(k.view)
  /\ k.gone => w = <<>> /\ k.pc # "closed"
  /\ k.pc \in {"check", "send"} => k.queue # <<>>
  /\ k.pc \in {"check", "send"} /\ ~k.live => Len(k.queue) = 1 /\ w = <<>> /\ SavedOf(k.queue[1])
  /\ k.pc \in {"loop", "read"} => k.queue = <<>> /\ k.live
  /\ k.live => /\ k.pc \in {"check", "send", "loop", "read", "closing"}
               /\ k.cursor <= seq
               /\ \A i \in 1..Len(k.queue) : FromChannel(k.queue[i])
  /\ k.pc = "send" \/ ~revoked => k.late = 0

\* The connections, and the subscriptions they hold.
Streams == conn = [c \in Conn |-> conn[c]] /\ wire = [c \in Conn |-> wire[c]]
           /\ \A c \in Conn : ConnFits(conn[c], wire[c])

Live == {c \in Conn : conn[c].live}
Counted == IsFiniteSet(Live) /\ subs \in Nat /\ subs = Cardinality(Live) /\ subs <= MaxSubscribers

\* Frames f continue what a page shows as s.
Next1(s, f, i) ==
  \/ /\ SnapshotOf(f[i], past)
     /\ IF i = 1 THEN s = None \/ s.seq <= f[i].seq ELSE f[i - 1].seq <= f[i].seq
  \/ /\ EventOf(f[i], past)
     /\ IF i = 1 THEN s # None /\ f[i].seq = s.seq + 1 ELSE f[i].seq = f[i - 1].seq + 1
\* Where a page that shows s will be after f, and frames that only save or end.
At(s, f) == IF f = <<>> THEN s.seq ELSE f[Len(f)].seq
Quiet(f) == \A i \in 1..Len(f) : SavedOf(f[i]) \/ f[i] = AuthLost

\* The frames f of connection k, on the wire and queued, continue what a page shows as s.
Feeds(s, k, f) ==
  /\ k.pc # "free" /\ ~k.gone
  /\ \A i \in 1..Len(f) :
       \/ Next1(s, f, i)
       \/ i = Len(f) /\ f[i] = AuthLost /\ k.pc \in {"closing", "closed"}
       \/ Len(f) = 1 /\ SavedOf(f[1]) /\ ~k.live
  /\ k.live /\ k.pc # "closing" => At(s, f) = k.cursor /\ (f = <<>> => s # None)

\* What a page shows is the state at its sequence number, but for the status.
Mirrors(s) ==
  /\ s.seq \in 0..seq
  /\ s.st = [past[s.seq + 1] EXCEPT !.status = s.st.status, !.reason = s.st.reason]
  /\ s.st.status \in Confirmed => s.st.status = row.status

\* The status is the channel's or a persisted one ahead of it; or the page still shows a
\* row's snapshot of an execution whose channel is gone.
Ahead(s) ==
  \/ s.st.status = past[s.seq + 1].status
  \/ s.st.status \in Terminal
  \/ s.seq = 0 /\ s.st.status = "stopping" /\ Unrun
Settled(s) == s.seq = 0 /\ chan = "dropped"

PageType == [pc : {"connecting", "observing", "done", "denied", "left"},
             conn : {None} \cup Conn, state : {None} \cup PageState]

\* Record g of a page.
PageFits(g) ==
  /\ g \in PageType
  /\ g.pc = "observing" <=> g.conn # None
  /\ g.state # None => Mirrors(g.state) /\ (Ahead(g.state) \/ Settled(g.state))
  /\ g.pc \in {"connecting", "observing"} /\ g.state # None => g.state.st.status \notin Terminal

\* A page that shows s on a connection k with the frames w on its wire.
Watches(s, k, w) ==
  /\ Feeds(s, k, w \o k.queue)
  /\ s # None => Ahead(s) \/ (~k.live /\ Quiet(w \o k.queue))

\* The pages, each on a connection of its own.
Pages ==
  /\ page = [p \in Page |-> page[p]]
  /\ \A p \in Page : PageFits(page[p])
  /\ \A p \in Page : page[p].pc = "observing" =>
        Watches(page[p].state, conn[page[p].conn], wire[page[p].conn])
  /\ \A p, q \in Page : p # q /\ page[p].pc = "observing" => page[q].conn # page[p].conn

\* The inductive invariant.
EventsInv == EventsAssumption /\ Channel /\ Rows /\ Streams /\ Counted /\ Pages

-----------------------------------------------------------------------------
(***************************************************************************)
(* The channel.                                                            *)
(***************************************************************************)

\* The fields of a state.
LEMMA StateFields ==
  ASSUME EventsAssumption, NEW st \in StateType
  PROVE  /\ st.status \in Statuses /\ st.reason \in Reasons /\ st.stage \in 0..MaxStage /\ st.done \in 0..Total
         /\ st.total \in {0, Total} /\ st.gen \in 0..MaxReset /\ st.draft \in [Key -> Seq(Nat)]
         /\ st.stage \in Nat /\ st.done \in Nat /\ st.total \in Nat /\ st.gen \in Nat
         /\ Rank[st.status] \in 0..3
<1>1. \A s \in Statuses : Rank[s] \in 0..3
  BY DEF Rank, Statuses, Active, Terminal, Confirmed
<1>2. /\ st.status \in Statuses /\ st.reason \in Reasons /\ st.stage \in 0..MaxStage /\ st.done \in 0..Total
      /\ st.total \in {0, Total} /\ st.gen \in 0..MaxReset /\ st.draft \in [Key -> Seq(Nat)]
  BY DEF StateType, Statuses, Reasons
<1>3. MaxStage \in Nat /\ Total \in Nat /\ MaxReset \in Nat BY DEF EventsAssumption
<1> QED BY <1>1, <1>2, <1>3

\* Going forward is transitive.
LEMMA UptoTransitive ==
  ASSUME EventsAssumption, NEW a \in StateType, NEW b \in StateType, NEW c \in StateType, Upto(a, b), Upto(b, c)
  PROVE  Upto(a, c)
<1>1. /\ a.stage \in Nat /\ a.done \in Nat /\ a.total \in Nat /\ a.gen \in Nat /\ Rank[a.status] \in 0..3
      /\ b.stage \in Nat /\ b.done \in Nat /\ b.total \in Nat /\ b.gen \in Nat /\ Rank[b.status] \in 0..3
      /\ c.stage \in Nat /\ c.done \in Nat /\ c.total \in Nat /\ c.gen \in Nat /\ Rank[c.status] \in 0..3
  BY StateFields
<1> QED BY <1>1 DEF Upto, Regresses

\* What is in a history stays in it.
LEMMA StaysInHistory ==
  ASSUME NEW S, NEW h \in Seq(S), NEW t \in Seq(S), NEW e
  PROVE  /\ EventOf(e, h) => EventOf(e, h \o t)
         /\ SnapshotOf(e, h) => SnapshotOf(e, h \o t)
<1>1. PICK H \in Seq(S) : H = h \o t BY ConcatProperties
<1>2. Len(H) = Len(h) + Len(t) /\ (\A i \in 1..Len(h) : H[i] = h[i]) /\ Len(h) \in Nat /\ Len(t) \in Nat
  BY <1>1, ConcatProperties
<1>3. ASSUME EventOf(e, h) PROVE EventOf(e, H)
  <2>1. e.seq \in 1..(Len(h) - 1) BY <1>3 DEF EventOf
  <2>2. H[e.seq] = h[e.seq] /\ H[e.seq + 1] = h[e.seq + 1] /\ e.seq \in 1..(Len(H) - 1) BY <1>2, <2>1
  <2> QED BY <1>3, <2>2 DEF EventOf
<1>4. ASSUME SnapshotOf(e, h) PROVE SnapshotOf(e, H)
  <2>1. e.seq \in 0..(Len(h) - 1) BY <1>4 DEF SnapshotOf
  <2>2. PICK n \in 0..(Len(h) - 1) : n = e.seq BY <2>1
  <2>3. n + 1 \in 1..Len(h) /\ n \in 0..(Len(H) - 1) BY <1>2, <2>2
  <2>4. H[n + 1] = h[n + 1] BY <1>2, <2>3
  <2> QED BY <1>4, <2>2, <2>3, <2>4 DEF SnapshotOf
<1> QED BY <1>1, <1>3, <1>4

\* A history that goes on.
LEMMA GoesOn ==
  ASSUME EventsAssumption, NEW h, Grows(h), NEW t \in Seq(StateType),
         h[Len(h)].status \notin Terminal,
         \A i \in 1..Len(t) : t[i].status # "accepted" /\ Upto(h[Len(h)], t[i]),
         \A i \in 1..(Len(t) - 1) : t[i].status \notin Terminal,
         \A i \in 1..Len(t), j \in 1..Len(t) : i <= j => Upto(t[i], t[j])
  PROVE  Grows(h \o t)
<1>0. h \in Seq(StateType) /\ Len(h) >= 1 BY DEF Grows
<1>1. PICK H \in Seq(StateType) : H = h \o t BY <1>0, ConcatProperties
<1>2. PICK m \in Nat : m = Len(h) BY <1>0, LenProperties
<1>3. PICK n \in Nat : n = Len(t) BY LenProperties
<1>4. Len(H) = m + n /\ \A i \in 1 .. m + n : H[i] = IF i <= m THEN h[i] ELSE t[i - m]
  BY <1>0, <1>1, <1>2, <1>3, ConcatProperties
<1>5. m >= 1 /\ H[1] = InitialState BY <1>0, <1>2, <1>3, <1>4 DEF Grows
<1>6. ASSUME NEW i \in 1 .. m + n, NEW j \in 1 .. m + n, i <= j PROVE Upto(H[i], H[j])
  <2>1. CASE j <= m
    <3>1. H[i] = h[i] /\ H[j] = h[j] /\ i \in 1..m /\ j \in 1..m BY <1>4, <1>6, <2>1
    <3> QED BY <3>1, <1>2, <1>6 DEF Grows
  <2>2. CASE i > m
    <3>1. H[i] = t[i - m] /\ H[j] = t[j - m] /\ i - m \in 1..n /\ j - m \in 1..n /\ i - m <= j - m BY <1>4, <1>6, <2>2
    <3> QED BY <3>1, <1>3
  <2>3. CASE i <= m /\ j > m
    <3>a. i \in 1..m /\ j - m \in 1..n /\ ~(j <= m) BY <2>3
    <3>1. H[i] = h[i] /\ H[j] = t[j - m] /\ i \in 1..m /\ j - m \in 1..n BY <1>4, <2>3, <3>a
    <3>2. Upto(h[i], h[m]) /\ Upto(h[m], t[j - m]) BY <3>1, <1>2, <1>3, <1>5 DEF Grows
    <3>3. h[i] \in StateType /\ h[m] \in StateType /\ t[j - m] \in StateType
      BY <3>1, <1>0, <1>2, <1>3, <1>5, ElementOfSeq
    <3> QED BY <3>1, <3>2, <3>3, UptoTransitive
  <2> QED BY <2>1, <2>2, <2>3
<1>7. ASSUME NEW i \in 1 .. (m + n - 1) PROVE H[i].status \notin Terminal
  <2>1. CASE i < m BY <2>1, <1>2, <1>4 DEF Grows
  <2>2. CASE i = m BY <2>2, <1>2, <1>4
  <2>3. CASE i > m
    <3>1. H[i] = t[i - m] /\ i - m \in 1..(n - 1) BY <1>4, <2>3
    <3> QED BY <3>1, <1>3
  <2> QED BY <2>1, <2>2, <2>3
<1>8. ASSUME NEW i \in 2 .. m + n PROVE H[i].status # "accepted"
  <2>1. CASE i <= m BY <2>1, <1>2, <1>4 DEF Grows
  <2>2. CASE i > m
    <3>1. H[i] = t[i - m] /\ i - m \in 1..n BY <1>4, <2>2
    <3> QED BY <3>1, <1>3
  <2> QED BY <2>1, <2>2
<1>9. Len(H) >= 1 /\ Len(H) = m + n BY <1>4, <1>5
<1> QED BY <1>1, <1>5, <1>6, <1>7, <1>8, <1>9 DEF Grows

\* A size is a number.
LEMMA SizeIsNat == ASSUME EventsAssumption, NEW e \in Frame, e.type = "text_delta" => e.body.text \in Seq(Nat)
                   PROVE Size(e) \in Nat
<1>1. Overhead \in Nat BY DEF EventsAssumption
<1>2. e.type = "text_delta" => Len(e.body.text) \in Nat BY LenProperties
<1> QED BY <1>1, <1>2 DEF Size

\* Arithmetic of positions.
LEMMA Shift == ASSUME NEW a \in Int, NEW i \in Int PROVE a + 1 + (i - 1) = a + i /\ a + 1 + i = a + i + 1
  OBVIOUS

\* n events of a type with bodies bs, each leading on to the next of the states ss.
Series(type, n, bs, ss) ==
  /\ type \in Increment /\ n \in Nat \ {0}
  /\ bs \in Seq(Body) /\ ss \in Seq(StateType) /\ Len(bs) = n /\ Len(ss) = n
  /\ \A i \in 1..n : ss[i].gen = ss[n].gen
  /\ Leads(state, Event(seq + 1, ss[n].gen, type, bs[1]), ss[1])
  /\ \A i \in 2..n : Leads(ss[i - 1], Event(seq + i, ss[n].gen, type, bs[i]), ss[i])
  /\ seq = 0 => "status" \in DOMAIN bs[1]
  /\ type = "text_delta" => bs[n].text \in Seq(Nat)
  /\ Size(Event(seq + n, ss[n].gen, type, bs[n])) <= MaxBytes
  /\ \A i \in 1..n : ss[i].status # "accepted" /\ Upto(state, ss[i])
  /\ \A i \in 1..(n - 1) : ss[i].status \notin Terminal
  /\ \A i \in 1..n, j \in 1..n : i <= j => Upto(ss[i], ss[j])

\* Events that each lead on from the state before keep the channel sound: the ring is
\* consecutive, within its limits, and ends with the newest event.
LEMMA Appended ==
  ASSUME EventsAssumption, Channel, state.status \notin Terminal,
         NEW type, NEW n, NEW bs, NEW ss, Series(type, n, bs, ss),
         Append_locked(type, bs, ss)
  PROVE  Channel' /\ past' = past \o ss /\ seq' = seq + n /\ state' = ss[n]
<1> USE DEF Series
<1>0. past \in Seq(StateType) /\ seq \in Nat /\ Len(past) = seq + 1 /\ past[seq + 1] = state
  BY DEF Channel, Grows
<1>1. PICK g : g = ss[n].gen OBVIOUS
<1>2. g \in Nat
  <2>1. ss[n] \in StateType BY ElementOfSeq
  <2> QED BY <1>1, <2>1, StateFields
<1> DEFINE new == [i \in 1..n |-> Event(seq + i, g, type, bs[i])]
<1>3. /\ seq' = seq + n /\ ring' = Evict(ring \o new) /\ state' = ss[n] /\ past' = past \o ss
  BY <1>1 DEF Append_locked, Last
<1>4. \A i \in 1..n : Event(seq + i, g, type, bs[i]) \in Frame
  <2>1. TAKE i \in 1..n
  <2>2. bs[i] \in Body BY ElementOfSeq
  <2>3. seq + i \in Nat BY <1>0
  <2> QED BY <1>2, <2>2, <2>3 DEF Event, Frame
<1>5. PICK N \in Seq(Frame) : N = new /\ Len(N) = n /\ \A i \in 1..n : N[i] = Event(seq + i, g, type, bs[i])
  <2>1. new \in [1..n -> Frame] BY <1>4
  <2>2. new \in Seq(Frame) /\ Len(new) = n BY <2>1
  <2> QED BY <2>2
<1>6. PICK P \in Seq(StateType) : P = past \o ss BY <1>0, ConcatProperties
<1>7. Len(P) = seq + 1 + n /\ \A i \in 1 .. seq + 1 + n : P[i] = IF i <= seq + 1 THEN past[i] ELSE ss[i - (seq + 1)]
  <2>1. /\ Len(P) = Len(past) + Len(ss)
        /\ \A i \in 1 .. Len(past) + Len(ss) : P[i] = IF i <= Len(past) THEN past[i] ELSE ss[i - Len(past)]
    BY <1>0, <1>6, ConcatProperties
  <2> QED BY <2>1, <1>0
<1>a. ASSUME NEW i \in 1..n PROVE P[seq + 1 + i] = ss[i]
  <2>1. PICK j \in 1 .. seq + 1 + n : j = seq + 1 + i
    <3>1. seq + 1 + i \in 1 .. seq + 1 + n BY <1>0
    <3> QED BY <3>1
  <2>2. ~(j <= seq + 1) /\ j - (seq + 1) = i BY <1>0, <2>1
  <2>3. P[j] = ss[j - (seq + 1)] BY <1>7, <2>2
  <2> QED BY <2>1, <2>2, <2>3
<1>8. ASSUME NEW i \in 1..n PROVE EventOf(N[i], P) /\ N[i].seq = seq + i
  <2>1. N[i] = Event(seq + i, g, type, bs[i]) BY <1>5
  <2>2. N[i].seq = seq + i /\ N[i].body = bs[i] BY <2>1 DEF Event
  <2>3. seq + i \in 1..(Len(P) - 1) BY <1>0, <1>7
  <2>4. Leads(P[seq + i], N[i], P[seq + i + 1])
    <3>1. CASE i = 1
      <4>1. P[seq + 1] = state /\ P[seq + 2] = ss[1] BY <1>0, <1>7
      <4>2. N[1] = Event(seq + 1, g, type, bs[1]) BY <2>1, <3>1
      <4>3. Leads(state, N[1], ss[1]) BY <4>2, <1>1
      <4>4. seq + 1 + 1 = seq + 2 BY <1>0
      <4> QED BY <3>1, <4>1, <4>3, <4>4
    <3>2. CASE i # 1
      <4>c. i \in 2..n /\ i - 1 \in 1..n BY <3>2
      <4>d. seq \in Int /\ i \in Int BY <1>0
      <4>e. seq + 1 + (i - 1) = seq + i /\ seq + 1 + i = seq + i + 1 BY <4>d, Shift
      <4>a. i \in 2..n /\ i - 1 \in 1..n /\ seq + 1 + (i - 1) = seq + i /\ seq + 1 + i = seq + i + 1 BY <4>c, <4>e
      <4>b. P[seq + 1 + (i - 1)] = ss[i - 1] /\ P[seq + 1 + i] = ss[i] BY <1>a, <4>a
      <4>1. i \in 2..n /\ P[seq + i] = ss[i - 1] /\ P[seq + i + 1] = ss[i] BY <4>a, <4>b
      <4>2. Leads(ss[i - 1], N[i], ss[i]) BY <4>1, <2>1, <1>1
      <4> QED BY <4>1, <4>2
    <3> QED BY <3>1, <3>2
  <2>5. N[i].seq = 1 => "status" \in DOMAIN N[i].body
    <3>1. N[i].seq = 1 => i = 1 /\ seq = 0 BY <1>0, <2>2
    <3> QED BY <3>1, <2>2
  <2> QED BY <2>2, <2>3, <2>4, <2>5 DEF EventOf
<1>9. ring \in Seq(Frame) /\ Len(ring) <= seq /\ \A i \in 1..Len(ring) : ring[i].seq = seq - Len(ring) + i /\ EventOf(ring[i], past)
  BY DEF Channel
<1>10. PICK R \in Seq(Frame) : R = ring \o N BY <1>5, <1>9, ConcatProperties
<1>11. PICK m \in Nat : m = Len(ring) BY <1>9, LenProperties
<1>12. Len(R) = m + n /\ \A i \in 1 .. m + n : R[i] = IF i <= m THEN ring[i] ELSE N[i - m]
  BY <1>5, <1>9, <1>10, <1>11, ConcatProperties
<1>13. ASSUME NEW i \in 1 .. m + n PROVE R[i].seq = seq - m + i /\ EventOf(R[i], P)
  <2>1. CASE i <= m
    <3>1. R[i] = ring[i] /\ i \in 1..m BY <1>12, <2>1
    <3> QED BY <3>1, <1>0, <1>6, <1>9, <1>11, StaysInHistory
  <2>2. CASE i > m
    <3>1. R[i] = N[i - m] /\ i - m \in 1..n BY <1>12, <2>2
    <3>2. seq + (i - m) = seq - m + i BY <1>0
    <3> QED BY <3>1, <3>2, <1>8
  <2> QED BY <2>1, <2>2
<1>14. PICK k \in 1..Len(R) : Evict(R) = SubSeq(R, k, Len(R)) /\ Fits(Evict(R))
  <2>1. R # <<>> BY <1>12
  <2>2. R[Len(R)] = N[n] BY <1>12
  <2>3. N[n] = Event(seq + n, g, type, bs[n]) BY <1>5
  <2>4. N[n] \in Frame BY <1>4, <2>3
  <2>5. N[n].type = type /\ N[n].body = bs[n] BY <2>3 DEF Event
  <2>6. Size(N[n]) \in Nat BY <2>4, <2>5, SizeIsNat
  <2>7. Size(N[n]) <= MaxBytes BY <2>3, <1>1
  <2> QED BY <2>1, <2>2, <2>6, <2>7, Evicted
<1>15. PICK E \in Seq(Frame) : /\ E = Evict(R) /\ Len(E) = m + n - k + 1
                              /\ \A i \in 1..Len(E) : E[i] = R[k + i - 1]
  <2>1. \A i \in k .. Len(R) : R[i] \in Frame BY ElementOfSeq
  <2>2. Len(R) \in Nat /\ k <= Len(R) /\ Len(R) - k + 1 = m + n - k + 1 BY <1>12
  <2>3. k \in Int /\ Len(R) \in Int BY <2>2
  <2>4. PICK E : E = SubSeq(R, k, Len(R)) OBVIOUS
  <2>5. /\ E \in Seq(Frame) /\ Len(E) = Len(R) - k + 1 /\ \A i \in 1 .. Len(R) - k + 1 : E[i] = R[k + i - 1]
    BY <2>1, <2>2, <2>3, <2>4, SubSeqProperties
  <2>6. E = Evict(R) BY <1>14, <2>4
  <2> QED BY <2>2, <2>5, <2>6
<1>16. ASSUME NEW i \in 1..Len(E) PROVE E[i].seq = seq + n - Len(E) + i /\ EventOf(E[i], P)
  <2>1. E[i] = R[k + i - 1] /\ k + i - 1 \in 1 .. m + n BY <1>12, <1>15
  <2>2. seq - m + (k + i - 1) = seq + n - Len(E) + i BY <1>0, <1>12, <1>15
  <2> QED BY <2>1, <2>2, <1>13
<1>17. Len(E) <= seq + n /\ E # <<>>
  <2>1. Len(E) >= 1 /\ Len(E) <= m + n BY <1>12, <1>15
  <2> QED BY <2>1, <1>0, <1>9, <1>11
<1>18. Grows(P)
  <2>1. Grows(past) /\ past[Len(past)] = state BY <1>0 DEF Channel
  <2> QED BY <2>1, <1>6, GoesOn
<1>19. P[seq + n + 1] = ss[n] /\ Len(P) = seq + n + 1 /\ seq + n \in Nat
  <2>1. n \in 1..n /\ seq + 1 + n = seq + n + 1 /\ seq + n \in Nat BY <1>0
  <2>2. P[seq + 1 + n] = ss[n] BY <1>a, <2>1
  <2> QED BY <2>1, <2>2, <1>7
<1>20. ring' = E BY <1>3, <1>5, <1>10, <1>15
<1> HIDE DEF new
<1>21. past' = P /\ seq' = seq + n /\ state' = ss[n] /\ ring' = E /\ Fits(E) BY <1>3, <1>6, <1>14, <1>15, <1>20
<1>22. Channel'
  <2>1. Grows(past') /\ seq' \in Nat /\ Len(past') = seq' + 1 /\ past'[seq' + 1] = state' BY <1>18, <1>19, <1>21
  <2>2. ring' \in Seq(Frame) /\ Len(ring') <= seq' BY <1>17, <1>21
  <2>3. \A i \in 1..Len(E) : E[i].seq = seq + n - Len(E) + i /\ EventOf(E[i], P) BY <1>16, Zenon
  <2>4. \A i \in 1..Len(ring') : ring'[i].seq = seq' - Len(ring') + i /\ EventOf(ring'[i], past')
    <3>1. TAKE i \in 1..Len(ring')
    <3>2. i \in 1..Len(E) BY <1>21
    <3>3. E[i].seq = seq + n - Len(E) + i /\ EventOf(E[i], P) BY <2>3, <3>2
    <3>4. ring' = E /\ past' = P /\ seq' = seq + n BY <1>21
    <3>5. ring'[i].seq = seq' - Len(ring') + i
      <4>1. seq \in Nat /\ Len(E) \in Nat /\ i \in Nat BY <1>0, <3>2, LenProperties
      <4> QED BY <3>3, <3>4, <4>1
    <3>6. EventOf(ring'[i], past') BY <3>3, <3>4, Zenon
    <3> QED BY <3>5, <3>6
  <2>5. ring' # <<>> BY <1>17, <1>21
  <2>6. Fits(ring)' BY <1>21, Zenon
  <2> QED BY <2>1, <2>2, <2>4, <2>5, <2>6 DEF Channel
<1> QED BY <1>3, <1>22

\* What a reader gets: the events after its cursor one by one, or a snapshot.
LEMMA ReadAfterIs ==
  ASSUME EventsAssumption, Channel, NEW n \in Nat, n <= seq
  PROVE  /\ ReadAfter(n) \in Seq(Frame)
         /\ \/ /\ Len(ReadAfter(n)) = 1
               /\ SnapshotOf(ReadAfter(n)[1], past) /\ ReadAfter(n)[1].seq = seq
            \/ /\ n + Len(ReadAfter(n)) = seq
               /\ \A i \in 1..Len(ReadAfter(n)) :
                    EventOf(ReadAfter(n)[i], past) /\ ReadAfter(n)[i].seq = n + i
<1>1. /\ past \in Seq(StateType) /\ seq \in Nat /\ Len(past) = seq + 1 /\ past[seq + 1] = state
      /\ ring \in Seq(Frame) /\ Len(ring) <= seq /\ (seq > 0 => ring # <<>>)
      /\ \A i \in 1..Len(ring) : ring[i].seq = seq - Len(ring) + i /\ EventOf(ring[i], past)
  BY DEF Channel, Grows
<1>2. Snapshot \in Frame /\ SnapshotOf(Snapshot, past) /\ Snapshot.seq = seq
  <2>1. state \in StateType BY <1>1, ElementOfSeq
  <2>2. state.gen \in Nat /\ state \in Body BY <2>1, StateFields DEF Body
  <2>3. /\ Snapshot.seq = seq /\ Snapshot.gen = state.gen /\ Snapshot.type = "snapshot" /\ Snapshot.body = state
    BY DEF Snapshot, Event
  <2>4. Snapshot \in Frame BY <1>1, <2>2 DEF Snapshot, Event, Frame
  <2> QED BY <1>1, <2>3, <2>4 DEF SnapshotOf
<1>3. CASE ring # <<>> /\ n < Head(ring).seq - 1
  <2>1. ReadAfter(n) = <<Snapshot>> BY <1>3 DEF ReadAfter
  <2>2. <<Snapshot>> \in Seq(Frame) /\ Len(<<Snapshot>>) = 1 /\ <<Snapshot>>[1] = Snapshot BY <1>2
  <2> QED BY <1>2, <2>1, <2>2
<1>4. CASE ~(ring # <<>> /\ n < Head(ring).seq - 1)
  <2>1. ReadAfter(n) = Newer(n) BY <1>4 DEF ReadAfter
  <2>2. PICK m \in Nat : m = Len(ring) BY <1>1, LenProperties
  <2>3. seq - m <= n
    <3>1. CASE ring = <<>> BY <3>1, <1>1, <2>2
    <3>2. CASE ring # <<>>
      <4>1. Head(ring) = ring[1] /\ m >= 1 BY <3>2, <1>1, <2>2
      <4>2. Head(ring).seq = seq - m + 1 BY <4>1, <1>1, <2>2
      <4> QED BY <4>2, <1>1, <1>4, <3>2
    <3> QED BY <3>1, <3>2
  <2>4. /\ Newer(n) \in Seq(Frame) /\ Len(Newer(n)) = seq - n
        /\ \A i \in 1..(seq - n) : Newer(n)[i] = ring[n - (seq - Len(ring)) + i]
    BY <1>1, <2>2, <2>3, NewerIs
  <2>5. ASSUME NEW i \in 1..(seq - n)
        PROVE  EventOf(Newer(n)[i], past) /\ Newer(n)[i].seq = n + i
    <3>a. n - (seq - m) + i \in 1..m BY <1>1, <2>2, <2>3
    <3>1. PICK j \in 1..m : j = n - (seq - m) + i BY <3>a
    <3>2. Newer(n)[i] = ring[j] /\ seq - m + j = n + i BY <2>2, <2>4, <3>1, <1>1
    <3> QED BY <1>1, <2>2, <3>2
  <2>6. n + (seq - n) = seq BY <1>1
  <2> QED BY <2>1, <2>4, <2>5, <2>6
<1> QED BY <1>3, <1>4

-----------------------------------------------------------------------------
(***************************************************************************)
(* The writers of the channel.                                             *)
(***************************************************************************)

\* The channel has gone on by states whose statuses the row backs.
Wrote ==
  /\ Channel'
  /\ \E t \in Seq(StateType) :
       /\ past' = past \o t
       /\ \A i \in 1..Len(t) : /\ t[i].status = "running" => ran
                               /\ t[i].status \in Confirmed => t[i].status = row.status

\* A sequence of one.
LEMMA Single == ASSUME NEW F, NEW b \in F PROVE <<b>> \in Seq(F) /\ Len(<<b>>) = 1 /\ <<b>>[1] = b
  OBVIOUS

\* A state goes on to itself.
LEMMA UptoItself == ASSUME EventsAssumption, NEW a \in StateType PROVE Upto(a, a)
<1>1. a.stage \in Nat /\ a.done \in Nat /\ a.total \in Nat /\ a.gen \in Nat /\ Rank[a.status] \in 0..3
  BY StateFields
<1> QED BY <1>1 DEF Upto, Regresses

\* One event that is not text.
LEMMA AppendedOne ==
  ASSUME EventsAssumption, Channel, state.status \notin Terminal,
         NEW type \in Increment, type # "text_delta", NEW b \in Body, NEW st \in StateType,
         Leads(state, Event(seq + 1, st.gen, type, b), st),
         seq = 0 => "status" \in DOMAIN b,
         st.status # "accepted", Upto(state, st),
         st.status = "running" => ran, st.status \in Confirmed => st.status = row.status,
         Append_locked(type, <<b>>, <<st>>)
  PROVE  Wrote
<1>1. <<b>> \in Seq(Body) /\ Len(<<b>>) = 1 /\ <<b>>[1] = b BY Single
<1>2. <<st>> \in Seq(StateType) /\ Len(<<st>>) = 1 /\ <<st>>[1] = st BY Single
<1>3. PICK bs \in Seq(Body) : bs = <<b>> /\ Len(bs) = 1 /\ bs[1] = b BY <1>1
<1>4. PICK ss \in Seq(StateType) : ss = <<st>> /\ Len(ss) = 1 /\ ss[1] = st BY <1>2
<1>5. Size(Event(seq + 1, st.gen, type, b)) <= MaxBytes
  <2>1. Event(seq + 1, st.gen, type, b).type = type BY DEF Event
  <2>2. Overhead \in Nat /\ MaxBytes \in Nat /\ Overhead + 1 <= MaxBytes BY DEF EventsAssumption
  <2> QED BY <2>1, <2>2 DEF Size
<1>6. Upto(st, st) BY UptoItself
<1>7. Append_locked(type, bs, ss) BY <1>3, <1>4
<1>8. Leads(state, Event(seq + 1, ss[1].gen, type, bs[1]), ss[1]) BY <1>3, <1>4
<1>9. Size(Event(seq + 1, ss[1].gen, type, bs[1])) <= MaxBytes BY <1>3, <1>4, <1>5
<1>10. \A i \in 1..1 : ss[i].gen = ss[1].gen OBVIOUS
<1>11. seq = 0 => "status" \in DOMAIN bs[1] BY <1>3
<1>12. \A i \in 1..1 : ss[i].status # "accepted" /\ Upto(state, ss[i]) BY <1>4
<1>13. \A i \in 1..1, j \in 1..1 : i <= j => Upto(ss[i], ss[j]) BY <1>4, <1>6
<1>14. Channel' /\ past' = past \o ss
  <2>1. 1 \in Nat \ {0} OBVIOUS
  <2>2. \A i \in 2..1 : Leads(ss[i - 1], Event(seq + i, ss[1].gen, type, bs[i]), ss[i]) OBVIOUS
  <2>3. \A i \in 1..(1 - 1) : ss[i].status \notin Terminal OBVIOUS
  <2>4. type = "text_delta" => bs[1].text \in Seq(Nat) OBVIOUS
  <2>5. Series(type, 1, bs, ss)
    BY <1>3, <1>4, <1>8, <1>9, <1>10, <1>11, <1>12, <1>13, <2>1, <2>2, <2>3, <2>4, Zenon DEF Series
  <2> QED BY <1>7, <2>5, Appended
<1>15. \A i \in 1..Len(ss) : /\ ss[i].status = "running" => ran
                             /\ ss[i].status \in Confirmed => ss[i].status = row.status
  BY <1>4
<1> QED BY <1>14, <1>15, Zenon DEF Wrote

\* The newest state.
LEMMA Newest ==
  ASSUME EventsAssumption, Channel, Rows
  PROVE  /\ state \in StateType /\ seq \in Nat
         /\ seq > 0 => state.status # "accepted"
         /\ state.status = "running" => ran
         /\ state.status \in Confirmed => state.status = row.status
         /\ (\E i \in 1..Len(past) : past[i].status = "running") => seq > 0
<1>1. /\ past \in Seq(StateType) /\ seq \in Nat /\ Len(past) = seq + 1 /\ past[seq + 1] = state
      /\ past[1] = InitialState /\ \A i \in 2..Len(past) : past[i].status # "accepted"
  BY DEF Channel, Grows
<1>2. seq + 1 \in 1..Len(past) /\ (seq > 0 => seq + 1 \in 2..Len(past)) BY <1>1
<1>3. state \in StateType BY <1>1, <1>2, ElementOfSeq
<1>4. seq = 0 => \A i \in 1..Len(past) : past[i].status = "accepted" BY <1>1 DEF InitialState
<1> QED BY <1>1, <1>2, <1>3, <1>4 DEF Rows

LEMMA SetStatusWrites ==
  ASSUME EventsAssumption, Channel, Rows, NEW s \in {"running", "stopping"}, SetStatus(s) PROVE Wrote
<1>1. /\ state \in StateType /\ seq \in Nat /\ state.status \notin Terminal /\ Rank[s] > Rank[state.status]
      /\ (s = "running" => ran) /\ row.reason \in Reasons
  BY Newest DEF SetStatus, Writing, Done, Rows, RowType
<1>2. PICK b \in Body : b = IF s = "running" THEN [status |-> s] ELSE [status |-> s, reason |-> row.reason]
  BY <1>1 DEF Body, RowType, Statuses, Active
<1>3. PICK st \in StateType : st = [state EXCEPT !.status = s, !.reason = IF s = "running" THEN @ ELSE row.reason]
  BY <1>1 DEF StateType, Active, Reasons
<1>4. Append_locked("progress", <<b>>, <<st>>) BY <1>2, <1>3 DEF SetStatus
<1>5. /\ st.status = s /\ st.stage = state.stage /\ st.done = state.done /\ st.total = state.total
      /\ st.gen = state.gen /\ st.draft = state.draft
      /\ st.reason = IF s = "running" THEN state.reason ELSE row.reason
  BY <1>1, <1>3 DEF StateType
<1>6. /\ state.stage \in Nat /\ state.done \in Nat /\ state.total \in Nat /\ state.gen \in Nat /\ Rank[state.status] \in 0..3
      /\ Rank[st.status] \in 0..3
  BY <1>1, StateFields
<1>7. Upto(state, st) BY <1>1, <1>5, <1>6 DEF Upto, Regresses
<1>8. Leads(state, Event(seq + 1, st.gen, "progress", b), st)
  <2>1. PICK e : e = Event(seq + 1, st.gen, "progress", b) OBVIOUS
  <2>2. e.type = "progress" /\ e.gen = st.gen /\ e.body = b BY <2>1 DEF Event
  <2>3. st = After(state, e)
    <3>1. /\ Or(b, "status", state.status) = s /\ Or(b, "stage", state.stage) = state.stage
          /\ Or(b, "done", state.done) = state.done /\ Or(b, "total", state.total) = state.total
          /\ Or(b, "reason", state.reason) = IF s = "running" THEN state.reason ELSE row.reason
      BY <1>2 DEF Or
    <3>2. DraftAfter(state.draft, e) = state.draft BY <2>2 DEF DraftAfter
    <3> QED BY <1>5, <2>2, <3>1, <3>2 DEF After, StateType
  <2> QED BY <2>1, <2>2, <2>3, <1>5, <1>6 DEF Leads, Increment
<1>9. "progress" \in Increment /\ "status" \in DOMAIN b /\ s # "accepted" /\ s \notin Confirmed
  BY <1>2 DEF Increment, Confirmed
<1> QED BY <1>1, <1>4, <1>5, <1>7, <1>8, <1>9, AppendedOne

\* A progress event of the business steps.
LEMMA ProgressWrites ==
  ASSUME EventsAssumption, Channel, Rows, Working, NEW st \in StateType,
         st.status = state.status, st.reason = state.reason, st.gen = state.gen, st.draft = state.draft,
         st.stage >= state.stage, st.done >= state.done, state.total # 0 => st.total = state.total,
         Append_locked("progress", <<ProgressBody(st)>>, <<st>>)
  PROVE  Wrote
<1>1. /\ state \in StateType /\ seq \in Nat /\ state.status \notin Terminal /\ seq > 0 /\ state.status # "accepted"
      /\ (state.status = "running" => ran) /\ (state.status \in Confirmed => state.status = row.status)
  BY Newest DEF Working, Writing, Done
<1>2. PICK b \in Body : b = ProgressBody(st)
  <2>1. st.stage \in 0..MaxStage /\ st.done \in 0..Total /\ st.total \in {0, Total} BY StateFields
  <2>2. [stage |-> st.stage, done |-> st.done, total |-> st.total] \in [stage : 0..MaxStage, done : 0..Total, total : {0, Total}]
    BY <2>1
  <2> QED BY <2>2, Zenon DEF Body, ProgressBody
<1>3. /\ state.stage \in Nat /\ state.done \in Nat /\ state.total \in Nat /\ state.gen \in Nat /\ Rank[state.status] \in 0..3
      /\ st.stage \in Nat /\ st.done \in Nat /\ st.total \in Nat /\ st.gen \in Nat
  BY <1>1, StateFields
<1>4. Upto(state, st) BY <1>3 DEF Upto, Regresses
<1>5. Leads(state, Event(seq + 1, st.gen, "progress", b), st)
  <2>1. PICK e : e = Event(seq + 1, st.gen, "progress", b) OBVIOUS
  <2>2. e.type = "progress" /\ e.gen = st.gen /\ e.body = b BY <2>1 DEF Event
  <2>3. st = After(state, e)
    <3>1. /\ Or(b, "status", state.status) = state.status /\ Or(b, "stage", state.stage) = st.stage
          /\ Or(b, "done", state.done) = st.done /\ Or(b, "total", state.total) = st.total
          /\ Or(b, "reason", state.reason) = state.reason
      BY <1>2 DEF Or, ProgressBody
    <3>2. DraftAfter(state.draft, e) = state.draft BY <2>2 DEF DraftAfter
    <3>3. st = [status |-> st.status, reason |-> st.reason, stage |-> st.stage, done |-> st.done,
                total |-> st.total, gen |-> st.gen, draft |-> st.draft] BY DEF StateType
    <3> QED BY <2>2, <3>1, <3>2, <3>3, Zenon DEF After
  <2>4. e.gen = state.gen + (IF e.type = "draft_reset" THEN 1 ELSE 0) BY <1>3, <2>2
  <2> QED BY <2>1, <2>2, <2>3, <2>4 DEF Leads, Increment
<1>6. "progress" \in Increment BY DEF Increment
<1>7. Append_locked("progress", <<b>>, <<st>>) BY <1>2
<1>8. /\ "progress" # "text_delta" /\ (seq = 0 => "status" \in DOMAIN b) /\ st.status # "accepted"
      /\ (st.status = "running" => ran) /\ (st.status \in Confirmed => st.status = row.status)
  BY <1>1
<1> QED BY <1>1, <1>4, <1>5, <1>6, <1>7, <1>8, AppendedOne

LEMMA SetStageWrites ==
  ASSUME EventsAssumption, Channel, Rows, NEW n \in 1..MaxStage, SetStage(n) PROVE Wrote
<1>1. state \in StateType BY Newest
<1>2. PICK st \in StateType : st = [state EXCEPT !.stage = n]
  <2>1. n \in 0..MaxStage BY DEF EventsAssumption
  <2> QED BY <1>1, <2>1 DEF StateType
<1>3. /\ st.status = state.status /\ st.reason = state.reason /\ st.gen = state.gen /\ st.draft = state.draft
      /\ st.stage = n /\ st.done = state.done /\ st.total = state.total
  BY <1>1, <1>2 DEF StateType
<1>4. Working /\ n >= state.stage /\ Append_locked("progress", <<ProgressBody(st)>>, <<st>>)
  BY <1>2 DEF SetStage
<1>5. state.done \in Nat BY <1>1, StateFields
<1> QED BY <1>3, <1>4, <1>5, ProgressWrites

LEMMA SetTaskProgressWrites ==
  ASSUME EventsAssumption, Channel, Rows, NEW n \in 0..Total, SetTaskProgress(n) PROVE Wrote
<1>1. state \in StateType BY Newest
<1>2. PICK st \in StateType : st = [state EXCEPT !.done = n, !.total = Total]
  BY <1>1 DEF StateType
<1>3. /\ st.status = state.status /\ st.reason = state.reason /\ st.gen = state.gen /\ st.draft = state.draft
      /\ st.stage = state.stage /\ st.done = n /\ st.total = Total
  BY <1>1, <1>2 DEF StateType
<1>4. Working /\ n \in state.done..Total /\ Append_locked("progress", <<ProgressBody(st)>>, <<st>>)
  BY <1>2 DEF SetTaskProgress
<1>5. state.done \in Nat /\ state.stage \in Nat /\ state.total \in {0, Total} BY <1>1, StateFields
<1>6. st.stage >= state.stage /\ st.done >= state.done /\ (state.total # 0 => st.total = state.total)
  BY <1>3, <1>4, <1>5
<1> QED BY <1>3, <1>4, <1>6, ProgressWrites

LEMMA NoDraftIsDraft == NoDraft \in [Key -> Seq(Nat)]
<1>1. <<>> \in Seq(Nat) OBVIOUS
<1> QED BY <1>1 DEF NoDraft

LEMMA ResetWrites ==
  ASSUME EventsAssumption, Channel, Rows, Reset PROVE Wrote
<1>1. /\ state \in StateType /\ seq \in Nat /\ state.status \notin Terminal /\ seq > 0 /\ state.status # "accepted"
      /\ (state.status = "running" => ran) /\ (state.status \in Confirmed => state.status = row.status)
  BY Newest DEF Reset, Working, Writing, Done
<1>2. NoBody \in Body BY DEF Body
<1>3. state.gen + 1 \in 0..MaxReset
  <2>1. state.gen < MaxReset /\ state.gen \in Nat /\ MaxReset \in Nat BY <1>1, StateFields DEF Reset, EventsAssumption
  <2> QED BY <2>1
<1>4. PICK st \in StateType : st = [state EXCEPT !.gen = @ + 1, !.draft = NoDraft]
  BY <1>1, <1>3, NoDraftIsDraft DEF StateType
<1>5. /\ st.status = state.status /\ st.reason = state.reason /\ st.gen = state.gen + 1 /\ st.draft = NoDraft
      /\ st.stage = state.stage /\ st.done = state.done /\ st.total = state.total
  BY <1>1, <1>4 DEF StateType
<1>6. /\ state.stage \in Nat /\ state.done \in Nat /\ state.total \in Nat /\ state.gen \in Nat /\ Rank[state.status] \in 0..3
  BY <1>1, StateFields
<1>7. Upto(state, st) BY <1>5, <1>6 DEF Upto, Regresses
<1>8. Leads(state, Event(seq + 1, st.gen, "draft_reset", NoBody), st)
  <2>1. PICK e : e = Event(seq + 1, st.gen, "draft_reset", NoBody) OBVIOUS
  <2>2. e.type = "draft_reset" /\ e.gen = st.gen /\ e.body = NoBody BY <2>1 DEF Event
  <2>3. st = After(state, e)
    <3>1. DOMAIN NoBody = {} BY DEF NoBody
    <3>2. \A f, d : Or(NoBody, f, d) = d BY <3>1 DEF Or
    <3>3. DraftAfter(state.draft, e) = NoDraft BY <2>2 DEF DraftAfter
    <3>4. st = [status |-> st.status, reason |-> st.reason, stage |-> st.stage, done |-> st.done,
                total |-> st.total, gen |-> st.gen, draft |-> st.draft] BY DEF StateType
    <3>5. After(state, e) = [status |-> state.status, reason |-> state.reason, stage |-> state.stage, done |-> state.done,
                total |-> state.total, gen |-> st.gen, draft |-> NoDraft] BY <2>2, <3>2, <3>3 DEF After
    <3> QED BY <1>5, <3>4, <3>5
  <2>4. e.gen = state.gen + (IF e.type = "draft_reset" THEN 1 ELSE 0) BY <1>5, <2>2
  <2> QED BY <2>1, <2>2, <2>3, <2>4 DEF Leads, Increment
<1>9. "draft_reset" \in Increment /\ "draft_reset" # "text_delta" BY DEF Increment
<1>10. Append_locked("draft_reset", <<NoBody>>, <<st>>) BY <1>4 DEF Reset
<1>11. /\ (seq = 0 => "status" \in DOMAIN NoBody) /\ st.status # "accepted"
       /\ (st.status = "running" => ran) /\ (st.status \in Confirmed => st.status = row.status)
  BY <1>1, <1>5
<1> QED BY <1>1, <1>2, <1>7, <1>8, <1>9, <1>10, <1>11, AppendedOne

LEMMA FinishWrites ==
  ASSUME EventsAssumption, Channel, Rows, NEW s \in Terminal, Finish(s) PROVE Wrote
<1>1. /\ state \in StateType /\ seq \in Nat /\ state.status \notin Terminal /\ s \in {row.status, "unconfirmed"}
  BY Newest DEF Finish, Done
<1>2. PICK b \in Body : b = [status |-> s] BY DEF Body, Statuses
<1>3. PICK st \in StateType : st = [state EXCEPT !.status = s, !.draft = NoDraft]
  BY <1>1, NoDraftIsDraft DEF StateType
<1>4. Append_locked("terminal", <<b>>, <<st>>) BY <1>2, <1>3 DEF Finish
<1>5. /\ st.status = s /\ st.reason = state.reason /\ st.gen = state.gen /\ st.draft = NoDraft
      /\ st.stage = state.stage /\ st.done = state.done /\ st.total = state.total
  BY <1>1, <1>3 DEF StateType
<1>6. /\ state.stage \in Nat /\ state.done \in Nat /\ state.total \in Nat /\ state.gen \in Nat /\ Rank[state.status] \in 0..3
      /\ Rank[s] = 3
  <2>1. Rank[s] = 3 BY DEF Rank, Active, Terminal, Confirmed
  <2> QED BY <1>1, <2>1, StateFields
<1>7. Upto(state, st) BY <1>5, <1>6 DEF Upto, Regresses
<1>8. Leads(state, Event(seq + 1, st.gen, "terminal", b), st)
  <2>1. PICK e : e = Event(seq + 1, st.gen, "terminal", b) OBVIOUS
  <2>2. e.type = "terminal" /\ e.gen = st.gen /\ e.body = b BY <2>1 DEF Event
  <2>3. st = After(state, e)
    <3>1. /\ Or(b, "status", state.status) = s /\ Or(b, "stage", state.stage) = state.stage
          /\ Or(b, "done", state.done) = state.done /\ Or(b, "total", state.total) = state.total
          /\ Or(b, "reason", state.reason) = state.reason
      BY <1>2 DEF Or
    <3>2. DraftAfter(state.draft, e) = NoDraft BY <2>2 DEF DraftAfter
    <3>3. st = [status |-> st.status, reason |-> st.reason, stage |-> st.stage, done |-> st.done,
                total |-> st.total, gen |-> st.gen, draft |-> st.draft] BY DEF StateType
    <3>4. After(state, e) = [status |-> s, reason |-> state.reason, stage |-> state.stage, done |-> state.done,
                total |-> state.total, gen |-> st.gen, draft |-> NoDraft] BY <2>2, <3>1, <3>2 DEF After
    <3> QED BY <1>5, <3>3, <3>4
  <2>4. e.gen = state.gen + (IF e.type = "draft_reset" THEN 1 ELSE 0) BY <1>5, <1>6, <2>2
  <2> QED BY <2>1, <2>2, <2>3, <2>4 DEF Leads, Increment
<1>9. "terminal" \in Increment /\ "terminal" # "text_delta" BY DEF Increment
<1>10. /\ (seq = 0 => "status" \in DOMAIN b) /\ st.status # "accepted"
       /\ (st.status = "running" => ran) /\ (st.status \in Confirmed => st.status = row.status)
  BY <1>1, <1>2, <1>5 DEF Terminal, Confirmed
<1> QED BY <1>1, <1>4, <1>7, <1>8, <1>9, <1>10, AppendedOne

(***************************************************************************)
(* Text: a call is cut into chunks that fit.                               *)
(***************************************************************************)

\* Half of a number.
LEMMA Half == ASSUME NEW x \in Nat, x > 1 PROVE x \div 2 \in 1..(x - 1)
  OBVIOUS

\* The chunk limit is positive and its events fit.
LEMMA LimitFits ==
  ASSUME EventsAssumption, NEW n \in Nat
  PROVE  ChunkLimit(n) \in Nat \ {0} /\ Overhead + (IF ChunkLimit(n) < n THEN ChunkLimit(n) ELSE n) <= MaxBytes
<1> DEFINE fits(c) == Overhead + (IF c < n THEN c ELSE n) <= MaxBytes
           Is(m, f) == f = [c \in 0..m |-> IF c <= 1 \/ fits(c) THEN c ELSE f[c \div 2]]
           f0 == CHOOSE f : Is(MaxDelta, f)
           top == IF MaxDelta < MaxBytes THEN MaxDelta ELSE MaxBytes
<1>1. MaxDelta \in Nat \ {0} /\ Overhead \in Nat /\ MaxBytes \in Nat /\ Overhead + 1 <= MaxBytes
  BY DEF EventsAssumption
<1>2. ChunkLimit(n) = f0[top]
  BY Zenon DEF ChunkLimit
<1>3. \E f : Is(MaxDelta, f)
  <2> HIDE DEF fits
  <2> DEFINE S == {m \in Nat : ~ \E f : Is(m, f)}
  <2>1. SUFFICES ASSUME S # {} PROVE FALSE BY <1>1
  <2>2. \A m : m \in S <=> m \in Nat /\ ~ \E f : Is(m, f) OBVIOUS
  <2>a. S \in SUBSET Nat OBVIOUS
  <2> HIDE DEF S
  <2>3. PICK m \in S : \A j \in S : m <= j BY <2>1, <2>a, Least
  <2>4. m \in Nat /\ ~ \E f : Is(m, f) BY <2>2, <2>3
  <2>5. CASE m = 0
    <3>1. Is(0, [c \in 0..0 |-> 0])
      <4>1. \A c \in 0..0 : c = 0 /\ c <= 1 OBVIOUS
      <4> QED BY <4>1
    <3> QED BY <3>1, <2>4, <2>5
  <2>6. CASE m # 0
    <3>1. m - 1 \in Nat /\ m - 1 \notin S BY <2>3, <2>4, <2>6
    <3>2. PICK f : Is(m - 1, f) BY <2>2, <3>1
    <3>3. \A c \in 0..(m - 1) : f[c] = IF c <= 1 \/ fits(c) THEN c ELSE f[c \div 2] BY <3>2
    <3> DEFINE g == [c \in 0..m |-> IF c < m THEN f[c] ELSE IF c <= 1 \/ fits(c) THEN c ELSE f[c \div 2]]
    <3>4. ASSUME NEW c \in 0..m PROVE g[c] = IF c <= 1 \/ fits(c) THEN c ELSE g[c \div 2]
      <4>1. CASE c <= 1 BY <4>1, <3>3, <2>4
      <4>2. CASE c > 1
        <5>1. c \div 2 \in 1..(c - 1) BY <4>2, Half
        <5>2. c \div 2 \in 0..m /\ c \div 2 < m BY <5>1, <2>4
        <5>3. g[c \div 2] = f[c \div 2] BY <5>2
        <5>4. g[c] = IF c <= 1 \/ fits(c) THEN c ELSE f[c \div 2]
          <6>1. CASE c < m
            <7>1. c \in 0..(m - 1) BY <6>1, <2>4
            <7> QED BY <7>1, <6>1, <3>3
          <6>2. CASE c = m BY <6>2
          <6> QED BY <6>1, <6>2, <2>4
        <5> HIDE DEF g
        <5> QED BY <5>3, <5>4
      <4> QED BY <4>1, <4>2
    <3>5. Is(m, g) BY <3>4, Zenon
    <3> QED BY <3>5, <2>4
  <2> QED BY <2>5, <2>6
<1>4. Is(MaxDelta, f0) BY <1>3, Zenon
<1> HIDE DEF f0
<1>5. \A c \in 0..MaxDelta : f0[c] = IF c <= 1 \/ fits(c) THEN c ELSE f0[c \div 2]
  <2> HIDE DEF fits
  <2> QED BY <1>4
<1>6. ASSUME NEW x \in 1..MaxDelta PROVE f0[x] \in Nat \ {0} /\ (f0[x] <= 1 \/ fits(f0[x]))
  <2> HIDE DEF fits
  <2> DEFINE B == {c \in 1..MaxDelta : ~(f0[c] \in Nat \ {0} /\ (f0[c] <= 1 \/ fits(f0[c])))}
  <2>1. SUFFICES ASSUME B # {} PROVE FALSE OBVIOUS
  <2>2. \A c : c \in B <=> c \in 1..MaxDelta /\ ~(f0[c] \in Nat \ {0} /\ (f0[c] <= 1 \/ fits(f0[c]))) OBVIOUS
  <2>a. B \in SUBSET Nat OBVIOUS
  <2> HIDE DEF B
  <2>3. PICK c \in B : \A j \in B : c <= j BY <2>1, <2>a, Least
  <2>4. c \in 1..MaxDelta /\ ~(f0[c] \in Nat \ {0} /\ (f0[c] <= 1 \/ fits(f0[c]))) BY <2>2, <2>3
  <2>5. f0[c] = IF c <= 1 \/ fits(c) THEN c ELSE f0[c \div 2] BY <2>4, <1>5
  <2>6. CASE c <= 1 \/ fits(c) BY <2>4, <2>5, <2>6
  <2>7. CASE ~(c <= 1 \/ fits(c))
    <3>1. c \div 2 \in 1..(c - 1) BY <2>4, <2>7, Half
    <3>2. c \div 2 \in 1..MaxDelta /\ ~(c <= c \div 2) BY <3>1, <2>4, <1>1
    <3>3. c \div 2 \notin B BY <2>3, <3>2
    <3> QED BY <2>2, <2>4, <2>5, <2>7, <3>2, <3>3
  <2> QED BY <2>6, <2>7
<1>7. top \in 1..MaxDelta BY <1>1
<1>8. PICK y \in Nat \ {0} : y = ChunkLimit(n) /\ (y <= 1 \/ fits(y)) BY <1>2, <1>6, <1>7
<1>9. fits(y)
  <2>1. CASE y = 1 BY <2>1, <1>1
  <2> QED BY <2>1, <1>8
<1> QED BY <1>8, <1>9

\* Products.
LEMMA Times ==
  ASSUME NEW c \in Nat, NEW i \in Nat, NEW j \in Nat, i <= j
  PROVE  i * c \in Nat /\ j * c \in Nat /\ i * c <= j * c /\ (i + 1) * c = i * c + c
<1>1. j - i \in Nat /\ (j - i) * c >= 0 OBVIOUS
<1>2. j * c = i * c + (j - i) * c OBVIOUS
<1> QED BY <1>1, <1>2

\* The number of chunks of at most c characters.
LEMMA Chunks ==
  ASSUME NEW c \in Nat \ {0}, NEW n \in Nat \ {0}
  PROVE  LET m == (n + c - 1) \div c IN m \in Nat \ {0} /\ (m - 1) * c < n /\ n <= m * c
<1>1. PICK a \in Nat : a = n + c - 1 /\ a >= c OBVIOUS
<1>2. PICK m : m = a \div c OBVIOUS
<1>3. m \in Int /\ c * m <= a /\ a < c * m + c BY <1>1, <1>2
<1>4. m * c = c * m /\ (m - 1) * c = c * m - c BY <1>3
<1>5. m >= 1
  <2>1. SUFFICES ASSUME m <= 0 PROVE FALSE BY <1>3
  <2>2. c * m <= 0 BY <2>1, <1>3
  <2> QED BY <2>2, <1>1, <1>3
<1> QED BY <1>1, <1>2, <1>3, <1>4, <1>5

\* Characters of a generation, and a state with so many more of them in a draft.
Text(g, m) == [i \in 1..m |-> g]
Extended(st, k, m) == [st EXCEPT !.draft[k] = @ \o Text(st.gen, m)]

LEMMA TextIs == ASSUME NEW g \in Nat, NEW m \in Nat
                PROVE  Text(g, m) \in Seq(Nat) /\ Len(Text(g, m)) = m /\ \A i \in 1..m : Text(g, m)[i] = g
<1>1. Text(g, m) \in [1..m -> Nat] BY DEF Text
<1>2. Text(g, m) \in Seq(Nat) /\ Len(Text(g, m)) = m BY <1>1
<1> QED BY <1>2 DEF Text

\* Two sequences make one.
Joined(p, q, s) ==
  /\ s = p \o q /\ Len(s) = Len(p) + Len(q)
  /\ \A i \in 1 .. Len(p) + Len(q) : s[i] = IF i <= Len(p) THEN p[i] ELSE q[i - Len(p)]

LEMMA Join ==
  ASSUME NEW F, NEW p \in Seq(F), NEW q \in Seq(F) PROVE p \o q \in Seq(F) /\ Joined(p, q, p \o q)
<1>1. /\ p \o q \in Seq(F) /\ Len(p \o q) = Len(p) + Len(q)
      /\ \A i \in 1 .. Len(p) + Len(q) : (p \o q)[i] = IF i <= Len(p) THEN p[i] ELSE q[i - Len(p)]
  BY ConcatProperties
<1> QED BY <1>1 DEF Joined

\* Two texts make one.
LEMMA TextJoins ==
  ASSUME NEW g \in Nat, NEW a \in Nat, NEW b \in Nat, NEW d \in Seq(Nat)
  PROVE  (d \o Text(g, a)) \o Text(g, b) = d \o Text(g, a + b)
<1>1. PICK x \in Seq(Nat) : x = Text(g, a) /\ Len(x) = a /\ \A i \in 1..a : x[i] = g BY TextIs
<1>2. PICK y \in Seq(Nat) : y = Text(g, b) /\ Len(y) = b /\ \A i \in 1..b : y[i] = g BY TextIs
<1>3. PICK z \in Seq(Nat) : z = Text(g, a + b) /\ Len(z) = a + b /\ \A i \in 1 .. a + b : z[i] = g
  <2>1. a + b \in Nat OBVIOUS
  <2> QED BY <2>1, TextIs
<1>4. PICK l \in Nat : l = Len(d) BY LenProperties
<1>b. PICK u \in Seq(Nat) : Joined(d, x, u)
  BY Join
<1>5. Len(u) = l + a /\ \A i \in 1 .. l + a : u[i] = IF i <= l THEN d[i] ELSE x[i - l]
  BY <1>1, <1>4, <1>b DEF Joined
<1>c. PICK v \in Seq(Nat) : Joined(u, y, v)
  BY Join
<1>6. Len(v) = l + a + b /\ \A i \in 1 .. l + a + b : v[i] = IF i <= l + a THEN u[i] ELSE y[i - (l + a)]
  BY <1>2, <1>5, <1>c DEF Joined
<1>d. PICK w \in Seq(Nat) : Joined(d, z, w)
  BY Join
<1>7. Len(w) = l + (a + b) /\ \A i \in 1 .. l + (a + b) : w[i] = IF i <= l THEN d[i] ELSE z[i - l]
  BY <1>3, <1>4, <1>d DEF Joined
<1>8. l + a + b = l + (a + b) OBVIOUS
<1>9. ASSUME NEW i \in 1..Len(v) PROVE v[i] = w[i]
  <2>1. i \in 1 .. l + a + b /\ i \in 1 .. l + (a + b) BY <1>6, <1>8
  <2>2. CASE i <= l
    <3>1. i <= l + a /\ i \in 1 .. l + a BY <2>1, <2>2
    <3>2. v[i] = u[i] BY <2>1, <3>1, <1>6
    <3>3. u[i] = d[i] BY <2>2, <3>1, <1>5
    <3>4. w[i] = d[i] BY <2>1, <2>2, <1>7
    <3> QED BY <3>2, <3>3, <3>4
  <2>3. CASE i > l /\ i <= l + a
    <3>1. i - l \in 1..a /\ i - l \in 1 .. a + b /\ i \in 1 .. l + a BY <2>1, <2>3
    <3> QED BY <2>1, <2>3, <3>1, <1>1, <1>3, <1>5, <1>6, <1>7
  <2>4. CASE i > l + a
    <3>1. i - (l + a) \in 1..b /\ i - l \in 1 .. a + b /\ i > l BY <2>1, <2>4
    <3>a. ~(i <= l + a) /\ ~(i <= l) BY <2>4, <3>1
    <3>b. v[i] = y[i - (l + a)] BY <2>1, <3>a, <1>6
    <3>c. w[i] = z[i - l] BY <2>1, <3>a, <1>7
    <3>2. v[i] = y[i - (l + a)] /\ w[i] = z[i - l] BY <3>b, <3>c
    <3>3. y[i - (l + a)] = g /\ z[i - l] = g BY <3>1, <1>2, <1>3
    <3> QED BY <3>2, <3>3
  <2> QED BY <2>2, <2>3, <2>4
<1>10. v = w BY <1>6, <1>7, <1>8, <1>9, SeqEqual
<1> QED BY <1>1, <1>2, <1>3, <1>b, <1>c, <1>d, <1>10, Zenon DEF Joined

\* A state is the record of its fields.
LEMMA StateIs ==
  ASSUME NEW s \in StateType
  PROVE  s = [status |-> s.status, reason |-> s.reason, stage |-> s.stage, done |-> s.done,
              total |-> s.total, gen |-> s.gen, draft |-> s.draft]
  BY DEF StateType

\* A state with more text.
Longer(st, k, m, new) ==
  /\ new \in StateType /\ new = Extended(st, k, m)
  /\ new.status = st.status /\ new.reason = st.reason /\ new.stage = st.stage /\ new.done = st.done
  /\ new.total = st.total /\ new.gen = st.gen
  /\ new.draft = [st.draft EXCEPT ![k] = st.draft[k] \o Text(st.gen, m)]
  /\ new.draft[k] = st.draft[k] \o Text(st.gen, m)
  /\ st.draft[k] \in Seq(Nat) /\ new.draft[k] \in Seq(Nat)
  /\ Len(new.draft[k]) = Len(st.draft[k]) + m

LEMMA ExtendedIs ==
  ASSUME EventsAssumption, NEW st \in StateType, NEW k \in Key, NEW m \in Nat
  PROVE  Longer(st, k, m, Extended(st, k, m))
<1>1. st.draft \in [Key -> Seq(Nat)] /\ st.gen \in Nat BY StateFields
<1>2. PICK t \in Seq(Nat) : t = Text(st.gen, m) /\ Len(t) = m BY <1>1, TextIs
<1>3. PICK d \in Seq(Nat) : d = st.draft[k] BY <1>1
<1>b. PICK u \in Seq(Nat) : Joined(d, t, u)
  BY Join
<1>4. u = d \o t /\ Len(u) = Len(d) + m BY <1>2, <1>b DEF Joined
<1>5. PICK f : f = [st.draft EXCEPT ![k] = u] OBVIOUS
<1>a. f \in [Key -> Seq(Nat)] /\ f[k] = u BY <1>1, <1>5
<1>6. Extended(st, k, m) = [st EXCEPT !.draft = f] BY <1>2, <1>3, <1>4, <1>5 DEF Extended
<1>7. [st EXCEPT !.draft = f] \in StateType BY <1>a DEF StateType
<1>8. PICK new \in StateType : new = [st EXCEPT !.draft = f] BY <1>7
<1>9. /\ new.status = st.status /\ new.reason = st.reason /\ new.stage = st.stage /\ new.done = st.done
      /\ new.total = st.total /\ new.gen = st.gen /\ new.draft = f
  BY <1>8 DEF StateType
<1>10. new = Extended(st, k, m) BY <1>6, <1>8
<1>11. Longer(st, k, m, new) BY <1>2, <1>3, <1>4, <1>5, <1>a, <1>9, <1>10 DEF Longer
<1> QED BY <1>10, <1>11

\* Adding text twice adds it at once.
LEMMA ExtendedTwice ==
  ASSUME EventsAssumption, NEW st \in StateType, NEW k \in Key, NEW a \in Nat, NEW b \in Nat
  PROVE  Extended(Extended(st, k, a), k, b) = Extended(st, k, a + b)
<1>1. PICK new : Longer(st, k, a, new) BY ExtendedIs
<1>a. new \in StateType BY <1>1 DEF Longer
<1>2. PICK x : Longer(new, k, b, x) BY <1>a, ExtendedIs
<1>3. a + b \in Nat OBVIOUS
<1>4. PICK y : Longer(st, k, a + b, y) BY <1>3, ExtendedIs
<1>5. st.draft \in [Key -> Seq(Nat)] /\ st.gen \in Nat BY StateFields
<1>6. (st.draft[k] \o Text(st.gen, a)) \o Text(st.gen, b) = st.draft[k] \o Text(st.gen, a + b)
  <2>1. st.draft[k] \in Seq(Nat) BY <1>5
  <2> QED BY <2>1, <1>5, TextJoins
<1>7. x.draft = y.draft
  <2>1. PICK u : u = st.draft[k] \o Text(st.gen, a) OBVIOUS
  <2>2. PICK v : v = st.draft[k] \o Text(st.gen, a + b) OBVIOUS
  <2>3. x.draft = [[st.draft EXCEPT ![k] = u] EXCEPT ![k] = v] BY <1>1, <1>2, <1>6, <2>1, <2>2 DEF Longer
  <2>4. y.draft = [st.draft EXCEPT ![k] = v] BY <1>4, <2>2 DEF Longer
  <2> QED BY <2>3, <2>4, <1>5
<1>8. x = y
  <2>1. /\ x.status = y.status /\ x.reason = y.reason /\ x.stage = y.stage /\ x.done = y.done
        /\ x.total = y.total /\ x.gen = y.gen /\ x \in StateType /\ y \in StateType
    BY <1>1, <1>2, <1>4 DEF Longer
  <2>3. x = [status |-> x.status, reason |-> x.reason, stage |-> x.stage, done |-> x.done,
             total |-> x.total, gen |-> x.gen, draft |-> x.draft] BY <2>1, StateIs
  <2>4. y = [status |-> y.status, reason |-> y.reason, stage |-> y.stage, done |-> y.done,
             total |-> y.total, gen |-> y.gen, draft |-> y.draft] BY <2>1, StateIs
  <2> QED BY <2>1, <2>3, <2>4, <1>7
<1>9. x = Extended(Extended(st, k, a), k, b) /\ y = Extended(st, k, a + b) BY <1>1, <1>2, <1>4 DEF Longer
<1> QED BY <1>8, <1>9

\* The items of a list are as many as before, or more.
LEMMA ItemsGrow ==
  ASSUME EventsAssumption, NEW d \in [Key -> Seq(Nat)], NEW k \in Key, NEW t \in Seq(Nat),
         NEW f \in ListField
  PROVE  /\ Items(d, f) \in Nat
         /\ Items([d EXCEPT ![k] = d[k] \o t], f) \in Nat
         /\ Items(d, f) <= Items([d EXCEPT ![k] = d[k] \o t], f)
<1> DEFINE I == 0..(MaxItems - 1)
<1>0. MaxItems \in Nat \ {0} BY DEF EventsAssumption
<1>1. IsFiniteSet(I) BY <1>0, FS_Interval
<1>2. PICK n \in [Key -> Seq(Nat)] : n = [d EXCEPT ![k] = d[k] \o t]
  <2>1. d[k] \o t \in Seq(Nat) BY ConcatProperties
  <2> QED BY <2>1
<1> DEFINE A == {i \in I : d[<<f, i>>] # <<>>}
           B == {i \in I : n[<<f, i>>] # <<>>}
<1>3. A \subseteq B
  <2>1. ASSUME NEW i \in I, d[<<f, i>>] # <<>> PROVE n[<<f, i>>] # <<>>
    <3>1. <<f, i>> \in Key BY DEF Key
    <3>2. CASE <<f, i>> # k BY <3>1, <3>2, <1>2, <2>1
    <3>3. CASE <<f, i>> = k
      <4>1. n[k] = d[k] \o t /\ d[k] \in Seq(Nat) /\ d[k] # <<>> BY <1>2, <2>1, <3>3
      <4>2. Len(d[k] \o t) = Len(d[k]) + Len(t) /\ Len(t) \in Nat /\ Len(d[k]) \in Nat /\ Len(d[k]) > 0
        <5>1. PICK q \in Seq(Nat) : q = d[k] BY <4>1
        <5>2. Len(q \o t) = Len(q) + Len(t) /\ Len(t) \in Nat /\ Len(q) \in Nat /\ Len(q) > 0
          BY <4>1, <5>1, ConcatProperties
        <5> QED BY <5>1, <5>2
      <4>3. Len(n[k]) > 0 BY <4>1, <4>2
      <4>4. \A y : y = <<>> => ~(Len(y) > 0) OBVIOUS
      <4>5. n[k] # <<>> BY <4>3, <4>4
      <4> QED BY <3>3, <4>5
    <3> QED BY <3>2, <3>3
  <2> QED BY <2>1
<1>4. IsFiniteSet(A) /\ IsFiniteSet(B)
  <2>1. A \subseteq I /\ B \subseteq I OBVIOUS
  <2> HIDE DEF A, B, I
  <2> QED BY <1>1, <2>1, FS_Subset
<1>5. Items(d, f) = Cardinality(A) /\ Items(n, f) = Cardinality(B) BY DEF Items
<1>6. Cardinality(A) <= Cardinality(B) /\ Cardinality(A) \in Nat /\ Cardinality(B) \in Nat
  <2> HIDE DEF A, B, I
  <2> QED BY <1>3, <1>4, FS_Subset, FS_CardinalityType
<1> QED BY <1>2, <1>5, <1>6

\* A chunk of text leads on.
LEMMA TextLeads ==
  ASSUME EventsAssumption, NEW st \in StateType, NEW k \in Key, NEW m \in Nat, NEW q,
         k[1] \in ListField => k[2] <= Items(st.draft, k[1])
  PROVE  Leads(st, Event(q, st.gen, "text_delta", [key |-> k, offset |-> Len(st.draft[k]), text |-> Text(st.gen, m)]),
               Extended(st, k, m))
<1>1. PICK b : b = [key |-> k, offset |-> Len(st.draft[k]), text |-> Text(st.gen, m)] OBVIOUS
<1>2. b.key = k /\ b.offset = Len(st.draft[k]) /\ b.text = Text(st.gen, m) /\ DOMAIN b = {"key", "offset", "text"} BY <1>1
<1>3. PICK e : e = Event(q, st.gen, "text_delta", b) OBVIOUS
<1>4. e.type = "text_delta" /\ e.gen = st.gen /\ e.body = b BY <1>3 DEF Event
<1>a. PICK new : Longer(st, k, m, new) BY ExtendedIs
<1>5. /\ new \in StateType /\ new = Extended(st, k, m)
      /\ new.status = st.status /\ new.reason = st.reason /\ new.stage = st.stage /\ new.done = st.done
      /\ new.total = st.total /\ new.gen = st.gen
      /\ new.draft = [st.draft EXCEPT ![k] = st.draft[k] \o Text(st.gen, m)]
  BY <1>a DEF Longer
<1>6. After(st, e) = [status |-> st.status, reason |-> st.reason, stage |-> st.stage, done |-> st.done,
                      total |-> st.total, gen |-> st.gen, draft |-> new.draft]
  <2>1. /\ Or(b, "status", st.status) = st.status /\ Or(b, "reason", st.reason) = st.reason
        /\ Or(b, "stage", st.stage) = st.stage /\ Or(b, "done", st.done) = st.done
        /\ Or(b, "total", st.total) = st.total
    BY <1>2 DEF Or
  <2>2. DraftAfter(st.draft, e) = new.draft BY <1>2, <1>4, <1>5 DEF DraftAfter
  <2> QED BY <1>4, <2>1, <2>2, Zenon DEF After
<1>7. new = [status |-> new.status, reason |-> new.reason, stage |-> new.stage, done |-> new.done,
             total |-> new.total, gen |-> new.gen, draft |-> new.draft]
  BY <1>5, StateIs
<1>8. new = After(st, e) BY <1>5, <1>6, <1>7
<1>9. Continues(st.draft, b) BY <1>2 DEF Continues
<1>10. st.gen \in Nat BY StateFields
<1>11. e.type \in Increment /\ e.gen = st.gen + (IF e.type = "draft_reset" THEN 1 ELSE 0)
  BY <1>4, <1>10 DEF Increment
<1> QED BY <1>1, <1>3, <1>4, <1>5, <1>8, <1>9, <1>11, Zenon DEF Leads

\* Where the chunks of a text of n characters end, in chunks of c.
LEMMA Cuts ==
  ASSUME NEW c \in Nat \ {0}, NEW n \in Nat \ {0}, NEW m \in Nat \ {0}, (m - 1) * c < n, n <= m * c,
         NEW i \in 1..m
  PROVE  LET size == IF i * c < n THEN c ELSE n - (i - 1) * c IN
         /\ (i - 1) * c \in Nat /\ size \in Nat /\ size <= (IF c < n THEN c ELSE n)
         /\ (i - 1) * c + size \in Nat
         /\ i < m => (i - 1) * c + size = i * c
<1>1. PICK size : size = IF i * c < n THEN c ELSE n - (i - 1) * c OBVIOUS
<1>2. PICK j \in Nat : j = i - 1 OBVIOUS
<1>3. j * c \in Nat /\ i * c \in Nat /\ i * c = j * c + c
  <2>1. j + 1 = i /\ j <= i /\ i \in Nat BY <1>2
  <2> QED BY <2>1, Times
<1>4. CASE i = m
  <2>1. size = n - j * c /\ j * c < n BY <1>1, <1>2, <1>3, <1>4
  <2> QED BY <1>1, <1>2, <1>3, <1>4, <2>1
<1>5. CASE i < m
  <2>1. i <= m - 1 /\ m - 1 \in Nat /\ i \in Nat BY <1>5
  <2>2. i * c <= (m - 1) * c /\ (m - 1) * c \in Nat BY <2>1, Times
  <2>3. i * c < n /\ size = c /\ c < n BY <1>1, <1>3, <2>2
  <2> QED BY <1>1, <1>2, <1>3, <1>5, <2>3
<1> QED BY <1>4, <1>5

LEMMA TextDeltaWrites ==
  ASSUME EventsAssumption, Channel, Rows, NEW k \in Key, NEW n \in 1..MaxText, TextDelta(k, n) PROVE Wrote
<1>1. /\ state \in StateType /\ seq \in Nat /\ state.status \notin Terminal /\ seq > 0 /\ state.status # "accepted"
      /\ (state.status = "running" => ran) /\ (state.status \in Confirmed => state.status = row.status)
  BY Newest DEF TextDelta, Working, Writing, Done
<1>a. n \in Nat \ {0} BY DEF EventsAssumption
<1>2. PICK c \in Nat \ {0} : c = ChunkLimit(n) /\ Overhead + (IF c < n THEN c ELSE n) <= MaxBytes
  BY <1>a, LimitFits
<1>3. PICK m \in Nat \ {0} : m = (n + c - 1) \div c /\ (m - 1) * c < n /\ n <= m * c
  BY <1>a, Chunks
<1> DEFINE size(i) == IF i * c < n THEN c ELSE n - (i - 1) * c
           end(i) == (i - 1) * c + size(i)
           bs == [i \in 1..m |-> [key |-> k, offset |-> Len(state.draft[k]) + (i - 1) * c, text |-> Text(state.gen, size(i))]]
           ss == [i \in 1..m |-> Extended(state, k, end(i))]
<1>4. ASSUME NEW i \in 1..m
      PROVE  /\ (i - 1) * c \in Nat /\ size(i) \in Nat /\ size(i) <= (IF c < n THEN c ELSE n)
             /\ end(i) \in Nat /\ (i < m => end(i) = i * c)
  BY <1>a, <1>3, Cuts
<1>5. Append_locked("text_delta", bs, ss)
  BY <1>2, <1>3, Zenon DEF TextDelta, Text, Extended
<1>6. k[1] \in ListField => k[2] <= Items(state.draft, k[1])
  BY Zenon DEF TextDelta
<1>7. ASSUME NEW i \in 1..m PROVE bs[i] \in Body /\ bs[i].text \in Seq(Nat) /\ Len(bs[i].text) = size(i)
  <2>1. bs[i] = [key |-> k, offset |-> Len(state.draft[k]) + (i - 1) * c, text |-> Text(state.gen, size(i))] OBVIOUS
  <2>2. state.gen \in Nat /\ state.draft[k] \in Seq(Nat) BY <1>1, StateFields
  <2>3. size(i) \in Nat /\ (i - 1) * c \in Nat BY <1>4
  <2> HIDE DEF size, bs
  <2>4. Text(state.gen, size(i)) \in Seq(Nat) /\ Len(Text(state.gen, size(i))) = size(i) BY <2>2, <2>3, TextIs
  <2>5. Len(state.draft[k]) + (i - 1) * c \in Nat
    <3>1. PICK d \in Nat : d = Len(state.draft[k]) BY <2>2, LenProperties
    <3>2. PICK a \in Nat : a = (i - 1) * c BY <2>3
    <3>3. d + a \in Nat OBVIOUS
    <3> QED BY <3>1, <3>2, <3>3, Zenon
  <2>6. PICK t \in Seq(Nat) : t = Text(state.gen, size(i)) BY <2>4
  <2>7. PICK o \in Nat : o = Len(state.draft[k]) + (i - 1) * c BY <2>5
  <2>8. bs[i] = [key |-> k, offset |-> o, text |-> t] BY <2>1, <2>6, <2>7
  <2>9. [key |-> k, offset |-> o, text |-> t] \in [key : Key, offset : Nat, text : Seq(Nat)] OBVIOUS
  <2>10. bs[i] \in Body BY <2>8, <2>9, Zenon DEF Body
  <2> QED BY <2>4, <2>6, <2>8, <2>10
<1>8. ASSUME NEW i \in 1..m PROVE Longer(state, k, end(i), ss[i])
  <2>1. ss[i] = Extended(state, k, end(i)) OBVIOUS
  <2>2. end(i) \in Nat BY <1>4
  <2> HIDE DEF end, ss
  <2> QED BY <1>1, <2>1, <2>2, ExtendedIs
<1>9. ASSUME NEW i \in 1..m
      PROVE  /\ ss[i] \in StateType /\ ss[i].gen = state.gen /\ ss[i].status = state.status
             /\ Upto(state, ss[i])
  <2> HIDE DEF end, ss
  <2>1. /\ ss[i] \in StateType /\ ss[i].status = state.status /\ ss[i].reason = state.reason /\ ss[i].stage = state.stage
        /\ ss[i].done = state.done /\ ss[i].total = state.total /\ ss[i].gen = state.gen
    BY <1>8 DEF Longer
  <2>2. /\ state.stage \in Nat /\ state.done \in Nat /\ state.total \in Nat /\ state.gen \in Nat /\ Rank[state.status] \in 0..3
    BY <1>1, StateFields
  <2>3. Upto(state, ss[i]) BY <2>1, <2>2 DEF Upto, Regresses
  <2> QED BY <2>1, <2>3
<1>10. bs \in Seq(Body) /\ Len(bs) = m /\ ss \in Seq(StateType) /\ Len(ss) = m
  <2>1. bs = [i \in 1..m |-> bs[i]] /\ ss = [i \in 1..m |-> ss[i]] OBVIOUS
  <2> HIDE DEF bs, ss
  <2>2. bs \in [1..m -> Body] /\ ss \in [1..m -> StateType]
    <3>1. [i \in 1..m |-> bs[i]] \in [1..m -> Body] BY <1>7
    <3>2. [i \in 1..m |-> ss[i]] \in [1..m -> StateType] BY <1>9
    <3> QED BY <2>1, <3>1, <3>2
  <2> QED BY <2>2
<1>11. ASSUME NEW i \in 1..m, NEW st, st = IF i = 1 THEN state ELSE ss[i - 1]
       PROVE  Leads(st, Event(seq + i, state.gen, "text_delta", bs[i]), ss[i])
  <2>1. PICK a \in Nat : a = (i - 1) * c BY <1>4
  <2>2. PICK z \in Nat : z = size(i) BY <1>4
  <2>3. ss[i] = Extended(state, k, a + z) BY <2>1, <2>2
  <2>4. bs[i] = [key |-> k, offset |-> Len(state.draft[k]) + a, text |-> Text(state.gen, z)] BY <2>1, <2>2
  <2>5. i # 1 => i - 1 \in 1..m /\ ss[i - 1] = Extended(state, k, a)
    <3>1. SUFFICES ASSUME i # 1 PROVE i - 1 \in 1..m /\ ss[i - 1] = Extended(state, k, a) OBVIOUS
    <3>2. i - 1 \in 1..m /\ i - 1 < m BY <3>1
    <3>3. ss[i - 1] = Extended(state, k, end(i - 1)) BY <3>2
    <3>4. end(i - 1) = (i - 1) * c BY <3>2, <1>4
    <3> QED BY <3>2, <3>3, <3>4, <2>1
  <2> HIDE DEF ss, bs, size, end
  <2>6. st \in StateType /\ st.gen = state.gen /\ Len(st.draft[k]) = Len(state.draft[k]) + a
    <3>1. CASE i = 1
      <4>1. a = 0 BY <2>1, <3>1
      <4>2. Len(state.draft[k]) \in Nat
        <5>1. state.draft[k] \in Seq(Nat) BY <1>1, StateFields
        <5> QED BY <5>1, LenProperties
      <4> QED BY <4>1, <4>2, <3>1, <1>1, <1>11
    <3>2. CASE i # 1
      <4>1. Longer(state, k, a, st) BY <1>1, <1>11, <2>5, <3>2, ExtendedIs
      <4> QED BY <4>1 DEF Longer
    <3> QED BY <3>1, <3>2
  <2>7. ss[i] = Extended(st, k, z)
    <3>1. CASE i = 1
      <4>1. a + z = z BY <2>1, <3>1
      <4> QED BY <2>3, <3>1, <4>1, <1>11
    <3>2. CASE i # 1
      <4>1. st = Extended(state, k, a) BY <1>11, <2>5, <3>2
      <4> QED BY <2>3, <4>1, <1>1, ExtendedTwice
    <3> QED BY <3>1, <3>2
  <2>8. k[1] \in ListField => k[2] <= Items(st.draft, k[1])
    <3>1. CASE i = 1 BY <3>1, <1>6, <1>11
    <3>2. CASE i # 1
      <4>1. SUFFICES ASSUME k[1] \in ListField PROVE k[2] <= Items(st.draft, k[1]) OBVIOUS
      <4>2. Longer(state, k, a, st) BY <1>1, <1>11, <2>5, <3>2, ExtendedIs
      <4>3. st.draft = [state.draft EXCEPT ![k] = state.draft[k] \o Text(state.gen, a)] BY <4>2 DEF Longer
      <4>4. state.draft \in [Key -> Seq(Nat)] /\ state.gen \in Nat BY <1>1, StateFields
      <4>5. Text(state.gen, a) \in Seq(Nat) BY <4>4, TextIs
      <4>6. Items(state.draft, k[1]) <= Items(st.draft, k[1]) /\ Items(state.draft, k[1]) \in Nat /\ Items(st.draft, k[1]) \in Nat
        BY <4>1, <4>3, <4>4, <4>5, ItemsGrow
      <4>7. k[2] \in Int
        <5>1. MaxItems \in Nat BY DEF EventsAssumption
        <5> QED BY <5>1 DEF Key
      <4> QED BY <4>1, <4>6, <4>7, <1>6
    <3> QED BY <3>1, <3>2
  <2>9. Leads(st, Event(seq + i, st.gen, "text_delta", [key |-> k, offset |-> Len(st.draft[k]), text |-> Text(st.gen, z)]), Extended(st, k, z))
    BY <2>6, <2>8, TextLeads
  <2> QED BY <2>4, <2>6, <2>7, <2>9
<1>12. m \in 1..m /\ 1 \in 1..m OBVIOUS
<1>13. Size(Event(seq + m, ss[m].gen, "text_delta", bs[m])) <= MaxBytes
  <2>1. PICK e : e = Event(seq + m, ss[m].gen, "text_delta", bs[m]) OBVIOUS
  <2>2. e.type = "text_delta" /\ e.body = bs[m] BY <2>1 DEF Event
  <2>3. Len(bs[m].text) = size(m) /\ size(m) \in Nat /\ size(m) <= (IF c < n THEN c ELSE n) BY <1>4, <1>7, <1>12
  <2> HIDE DEF bs, ss, size, end
  <2>4. Size(e) = Overhead + size(m) BY <2>2, <2>3 DEF Size
  <2>5. Overhead \in Nat /\ MaxBytes \in Nat BY DEF EventsAssumption
  <2> QED BY <2>1, <2>3, <2>4, <2>5, <1>2, <1>a
<1> HIDE DEF bs, ss, size, end
<1>14. ss[m].gen = state.gen /\ \A i \in 1..m : ss[i].gen = state.gen BY <1>9, <1>12
<1>15. Leads(state, Event(seq + 1, ss[m].gen, "text_delta", bs[1]), ss[1])
  <2>1. state = IF 1 = 1 THEN state ELSE ss[1 - 1] OBVIOUS
  <2> QED BY <2>1, <1>11, <1>12, <1>14
<1>16. ASSUME NEW i \in 2..m PROVE Leads(ss[i - 1], Event(seq + i, ss[m].gen, "text_delta", bs[i]), ss[i])
  <2>1. i \in 1..m /\ i # 1 OBVIOUS
  <2>2. ss[i - 1] = IF i = 1 THEN state ELSE ss[i - 1] BY <2>1
  <2> QED BY <2>1, <2>2, <1>11, <1>14
<1>17. ASSUME NEW i \in 1..m, NEW j \in 1..m PROVE Upto(ss[i], ss[j])
  <2>1. /\ ss[i].status = ss[j].status /\ ss[i].stage = ss[j].stage /\ ss[i].done = ss[j].done
        /\ ss[i].total = ss[j].total /\ ss[i].gen = ss[j].gen
    BY <1>8 DEF Longer
  <2>2. ss[i] \in StateType BY <1>9
  <2>3. ss[i].stage \in Nat /\ ss[i].done \in Nat /\ ss[i].total \in Nat /\ ss[i].gen \in Nat /\ Rank[ss[i].status] \in 0..3
    BY <2>2, StateFields
  <2> QED BY <2>1, <2>3 DEF Upto, Regresses
<1>18. "text_delta" \in Increment BY DEF Increment
<1>19. \A i \in 1..(m - 1) : ss[i].status \notin Terminal
  <2>1. \A i \in 1..(m - 1) : i \in 1..m OBVIOUS
  <2> QED BY <2>1, <1>1, <1>9
<1>20. Series("text_delta", m, bs, ss)
  <2>1. \A i \in 1..m : ss[i].gen = ss[m].gen BY <1>14
  <2>2. seq = 0 => "status" \in DOMAIN bs[1] BY <1>1
  <2>3. bs[m].text \in Seq(Nat) BY <1>7, <1>12
  <2>4. \A i \in 1..m : ss[i].status # "accepted" /\ Upto(state, ss[i]) BY <1>1, <1>9
  <2> QED BY <1>10, <1>13, <1>15, <1>16, <1>17, <1>18, <1>19, <2>1, <2>2, <2>3, <2>4, Zenon DEF Series
<1>21. Channel' /\ past' = past \o ss BY <1>1, <1>5, <1>20, Appended
<1>22. \A i \in 1..Len(ss) : /\ ss[i].status = "running" => ran
                             /\ ss[i].status \in Confirmed => ss[i].status = row.status
  BY <1>1, <1>9, <1>10
<1> QED BY <1>10, <1>21, <1>22, Zenon DEF Wrote

-----------------------------------------------------------------------------
(***************************************************************************)
(* What stays true of connections and pages when the channel or the row    *)
(* goes on.                                                                *)
(***************************************************************************)
Later ==
  /\ past \in Seq(StateType) /\ seq \in Nat /\ Len(past) = seq + 1
  /\ \E t \in Seq(StateType) : past' = past \o t
  /\ seq' \in Nat /\ seq <= seq'
  /\ Unrun => Unrun'
  /\ chan = "dropped" => chan' = "dropped"
  /\ row.status \in Confirmed => row'.status = row.status
  /\ chan' = "none" => chan = "none" /\ (row.status = "accepted" \/ row'.status = row.status)
  /\ revoked => revoked'

LEMMA PastStays == ASSUME Later, NEW i \in 0..seq PROVE past'[i + 1] = past[i + 1]
<1>1. PICK t \in Seq(StateType) : past' = past \o t BY DEF Later
<1>2. past \in Seq(StateType) /\ seq \in Nat /\ Len(past) = seq + 1 BY DEF Later
<1>3. PICK P \in Seq(StateType) : Joined(past, t, P) BY <1>2, Join
<1>4. P = past' BY <1>1, <1>3 DEF Joined
<1>5. PICK j \in 1..Len(past) : j = i + 1 BY <1>2
<1>6. j \in 1 .. Len(past) + Len(t) /\ j <= Len(past)
  <2>1. Len(t) \in Nat BY LenProperties
  <2> QED BY <2>1, <1>2, <1>5
<1>7. P[j] = past[j] BY <1>3, <1>6 DEF Joined
<1> QED BY <1>4, <1>5, <1>7

LEMMA FrameStays ==
  ASSUME Later, NEW e
  PROVE  /\ EventOf(e, past) => EventOf(e, past')
         /\ SnapshotOf(e, past) => SnapshotOf(e, past')
         /\ SavedOf(e) => SavedOf(e)'
         /\ Sound(e) => Sound(e)'
         /\ FromChannel(e) => FromChannel(e)'
<1>1. (EventOf(e, past) => EventOf(e, past')) /\ (SnapshotOf(e, past) => SnapshotOf(e, past'))
  <2>1. PICK t \in Seq(StateType) : past' = past \o t BY DEF Later
  <2>2. past \in Seq(StateType) BY DEF Later
  <2> QED BY <2>1, <2>2, StaysInHistory
<1>2. ASSUME SavedOf(e) PROVE SavedOf(e)'
  <2>1. PICK v \in RowType : Kept(v) /\ e = PersistedSnapshot(v) BY <1>2 DEF SavedOf
  <2>2. Kept(v)' BY <2>1 DEF Kept, Later
  <2> QED BY <2>1, <2>2 DEF SavedOf
<1>3. Sound(e) => Sound(e)' BY <1>1, <1>2 DEF Sound
<1>4. FromChannel(e) => FromChannel(e)' BY <1>1 DEF FromChannel
<1> QED BY <1>1, <1>2, <1>3, <1>4

LEMMA ConnStays == ASSUME Later, NEW k, NEW w, ConnFits(k, w) PROVE ConnFits(k, w)'
<1>1. \A i \in 1..Len(w) : Sound(w[i])' BY FrameStays DEF ConnFits
<1>2. \A i \in 1..Len(k.queue) : Sound(k.queue[i])' BY FrameStays DEF ConnFits
<1>3. k.pc = "view" => ~k.live /\ k.queue = <<>> /\ w = <<>> /\ WasRow(k.view)'
  <2>1. WasRow(k.view) => WasRow(k.view)' BY DEF WasRow, Later
  <2> QED BY <2>1 DEF ConnFits
<1>4. k.pc \in {"check", "send"} /\ ~k.live => Len(k.queue) = 1 /\ w = <<>> /\ SavedOf(k.queue[1])'
  BY FrameStays DEF ConnFits
<1>5. k.live => /\ k.pc \in {"check", "send", "loop", "read", "closing"}
                /\ k.cursor <= seq'
                /\ \A i \in 1..Len(k.queue) : FromChannel(k.queue[i])'
  <2>1. k.live => k.cursor <= seq /\ k.cursor \in Nat BY DEF ConnFits, ConnType
  <2>2. seq \in Nat /\ seq' \in Nat /\ seq <= seq' BY DEF Later
  <2>3. k.live => k.cursor <= seq' BY <2>1, <2>2
  <2>4. k.live => \A i \in 1..Len(k.queue) : FromChannel(k.queue[i])' BY FrameStays DEF ConnFits
  <2> QED BY <2>3, <2>4 DEF ConnFits
<1>6. k.pc = "send" \/ ~revoked' => k.late = 0 BY DEF ConnFits, Later
<1>7. /\ k \in ConnType /\ w \in Seq(Frame)
      /\ k.pc = "free" => k = FreeConn /\ w = <<>>
      /\ k.gone => w = <<>> /\ k.pc # "closed"
      /\ k.pc \in {"check", "send"} => k.queue # <<>>
      /\ k.pc \in {"loop", "read"} => k.queue = <<>> /\ k.live
  BY DEF ConnFits
<1> QED BY <1>1, <1>2, <1>3, <1>4, <1>5, <1>6, <1>7, Zenon DEF ConnFits

\* The status of a page that is ahead of the channel stays ahead.
LEMMA AheadStays == ASSUME Later, NEW s, s.seq \in 0..seq PROVE Ahead(s) => Ahead(s)'
<1>1. past'[s.seq + 1] = past[s.seq + 1] BY PastStays
<1> QED BY <1>1 DEF Ahead, Later

LEMMA MirrorsStays == ASSUME Later, NEW s, Mirrors(s) PROVE Mirrors(s)'
<1>1. s.seq \in 0..seq BY DEF Mirrors
<1>2. past'[s.seq + 1] = past[s.seq + 1] BY <1>1, PastStays
<1>3. s.seq \in 0..seq' BY <1>1 DEF Later
<1>4. s.st.status \in Confirmed => s.st.status = row'.status BY DEF Mirrors, Later
<1> QED BY <1>2, <1>3, <1>4 DEF Mirrors

LEMMA PageStays == ASSUME Later, NEW g, PageFits(g) PROVE PageFits(g)'
<1>1. ASSUME g.state # None PROVE Mirrors(g.state)' /\ (Ahead(g.state)' \/ Settled(g.state)')
  <2>1. PICK s : s = g.state OBVIOUS
  <2>2. Mirrors(s) /\ (Ahead(s) \/ Settled(s)) BY <1>1, <2>1 DEF PageFits
  <2>3. s.seq \in 0..seq BY <2>2 DEF Mirrors
  <2>4. Mirrors(s)' BY <2>2, MirrorsStays
  <2>5. Ahead(s) => Ahead(s)' BY <2>3, AheadStays
  <2>6. Settled(s) => Settled(s)' BY DEF Settled, Later
  <2> QED BY <2>1, <2>2, <2>4, <2>5, <2>6
<1>2. /\ g \in PageType
      /\ g.pc = "observing" <=> g.conn # None
      /\ g.pc \in {"connecting", "observing"} /\ g.state # None => g.state.st.status \notin Terminal
  BY DEF PageFits
<1> QED BY <1>1, <1>2, Zenon DEF PageFits

LEMMA QuietStays == ASSUME Later, NEW f PROVE Quiet(f) => Quiet(f)'
  BY FrameStays DEF Quiet

LEMMA FeedsStays == ASSUME Later, NEW s, NEW k, NEW f, Feeds(s, k, f) PROVE Feeds(s, k, f)'
<1>1. ASSUME NEW i \in 1..Len(f)
      PROVE  \/ Next1(s, f, i)'
             \/ i = Len(f) /\ f[i] = AuthLost /\ k.pc \in {"closing", "closed"}
             \/ Len(f) = 1 /\ SavedOf(f[1])' /\ ~k.live
  <2>1. Next1(s, f, i) => Next1(s, f, i)'
    <3>1. (EventOf(f[i], past) => EventOf(f[i], past')) /\ (SnapshotOf(f[i], past) => SnapshotOf(f[i], past'))
      BY FrameStays
    <3> QED BY <3>1 DEF Next1
  <2>2. SavedOf(f[1]) => SavedOf(f[1])' BY FrameStays
  <2> QED BY <2>1, <2>2 DEF Feeds
<1>2. k.pc # "free" /\ ~k.gone /\ (k.live /\ k.pc # "closing" => At(s, f) = k.cursor /\ (f = <<>> => s # None))
  BY DEF Feeds
<1> QED BY <1>1, <1>2, Zenon DEF Feeds

LEMMA WatchesStays ==
  ASSUME Later, NEW s, NEW k, NEW w, s # None => s.seq \in 0..seq, Watches(s, k, w)
  PROVE  Watches(s, k, w)'
<1>1. PICK f : f = w \o k.queue OBVIOUS
<1>2. Feeds(s, k, f)' BY <1>1, FeedsStays DEF Watches
<1>3. s # None => Ahead(s)' \/ (~k.live /\ Quiet(f)')
  <2>1. s # None => (Ahead(s) => Ahead(s)') BY AheadStays
  <2>2. Quiet(f) => Quiet(f)' BY QuietStays
  <2> QED BY <1>1, <2>1, <2>2 DEF Watches
<1> QED BY <1>1, <1>2, <1>3, Zenon DEF Watches

\* The connections and the pages, when only the channel or the row goes on.
LEMMA WatchersStay ==
  ASSUME Later, Streams, Counted, Pages, UNCHANGED <<conn, wire, page, subs>>
  PROVE  Streams' /\ Counted' /\ Pages'
<1>1. conn' = conn /\ wire' = wire /\ page' = page /\ subs' = subs OBVIOUS
<1>2. ASSUME NEW c \in Conn PROVE ConnFits(conn[c], wire[c])'
  <2>1. PICK k : k = conn[c] OBVIOUS
  <2>2. PICK w : w = wire[c] OBVIOUS
  <2>3. ConnFits(k, w)' BY <2>1, <2>2, ConnStays DEF Streams
  <2>4. conn'[c] = k /\ wire'[c] = w BY <1>1, <2>1, <2>2
  <2> QED BY <2>3, <2>4, Zenon
<1>3. Streams'
  <2>1. (conn = [c \in Conn |-> conn[c]] /\ wire = [c \in Conn |-> wire[c]])' BY <1>1 DEF Streams
  <2> QED BY <1>2, <2>1, Zenon DEF Streams
<1>4. Counted'
  <2>1. Live' = Live BY <1>1 DEF Live
  <2> QED BY <1>1, <2>1 DEF Counted
<1>5. ASSUME NEW p \in Page PROVE PageFits(page[p])'
  <2>1. PICK g : g = page[p] OBVIOUS
  <2>2. PageFits(g)' BY <2>1, PageStays DEF Pages
  <2>3. page'[p] = g BY <1>1, <2>1
  <2> QED BY <2>2, <2>3, Zenon
<1>6. ASSUME NEW p \in Page, page'[p].pc = "observing"
      PROVE  Watches(page[p].state, conn[page[p].conn], wire[page[p].conn])'
  <2>1. PICK s : s = page[p].state OBVIOUS
  <2>2. PICK k : k = conn[page[p].conn] OBVIOUS
  <2>3. PICK w : w = wire[page[p].conn] OBVIOUS
  <2>4. Watches(s, k, w) /\ PageFits(page[p]) BY <1>1, <1>6, <2>1, <2>2, <2>3 DEF Pages
  <2>5. s # None => s.seq \in 0..seq BY <2>1, <2>4 DEF PageFits, Mirrors
  <2>6. Watches(s, k, w)' BY <2>4, <2>5, WatchesStays
  <2>7. page'[p].state = s /\ conn'[page'[p].conn] = k /\ wire'[page'[p].conn] = w BY <1>1, <2>1, <2>2, <2>3
  <2> QED BY <2>6, <2>7, Zenon
<1>7. Pages'
  <2>1. (page = [p \in Page |-> page[p]])' BY <1>1 DEF Pages
  <2>2. (\A p, q \in Page : p # q /\ page[p].pc = "observing" => page[q].conn # page[p].conn)'
    BY <1>1 DEF Pages
  <2> QED BY <1>5, <1>6, <2>1, <2>2, Zenon DEF Pages
<1> QED BY <1>3, <1>4, <1>7

\* The row goes on, or the channel enters or leaves the registry.
LEMMA RowGoesOn ==
  ASSUME EventsInv, UNCHANGED <<seq, state, ring, past>>, Rows',
         Unrun => Unrun', chan = "dropped" => chan' = "dropped",
         row.status \in Confirmed => row'.status = row.status,
         chan' = "none" => chan = "none" /\ (row.status = "accepted" \/ row'.status = row.status),
         revoked => revoked', UNCHANGED <<conn, wire, page, subs>>
  PROVE  EventsInv'
<1>1. past' = past /\ seq' = seq /\ state' = state /\ ring' = ring OBVIOUS
<1>2. past \in Seq(StateType) /\ seq \in Nat /\ Len(past) = seq + 1 BY DEF EventsInv, Channel, Grows
<1>3. Later
  <2>1. <<>> \in Seq(StateType) /\ past \o <<>> = past BY <1>2, ConcatEmptySeq
  <2>2. \E t \in Seq(StateType) : past' = past \o t BY <1>1, <2>1
  <2>3. seq' \in Nat /\ seq <= seq' BY <1>1, <1>2
  <2> QED BY <1>2, <2>2, <2>3, Zenon DEF Later
<1>4. Channel' BY <1>1 DEF EventsInv, Channel, Grows, Fits
<1>5. Streams' /\ Counted' /\ Pages' BY <1>3, WatchersStay DEF EventsInv
<1> QED BY <1>4, <1>5 DEF EventsInv

LEMMA PersistKeeps == ASSUME EventsInv, NEW s \in Active \cup Confirmed, Persist(s) PROVE EventsInv'
<1>1. Rows BY DEF EventsInv
<1>2. /\ row.status \in Active /\ s \in RowNext[row.status]
      /\ (chan = "open" \/ (chan = "none" /\ s = "stopping"))
      /\ row' = [status |-> s, reason |-> IF s = "stopping" THEN "user_cancelled" ELSE row.reason]
      /\ ran' = (ran \/ s = "running")
      /\ UNCHANGED <<chan, seq, state, ring, past, subs, conn, page, wire, revoked, cut>>
  BY DEF Persist, channel, server, client
<1>3. row.status \in Active /\ s \in Statuses /\ s # "accepted" /\ (s = "running" => row.status = "accepted")
      /\ (s = "stopping" => row.status # "stopping") /\ row.reason \in Reasons
  BY <1>1, <1>2 DEF Active, Statuses, Terminal, Confirmed, RowNext, Rows, RowType
<1>4. row'.status = s /\ row' \in RowType BY <1>2, <1>3 DEF RowType, Reasons
<1>5. row.status \notin Confirmed BY <1>3 DEF Active, Confirmed
<1>6. Rows'
  <2>1. /\ row' \in RowType /\ ran' \in BOOLEAN /\ revoked' \in BOOLEAN /\ cut' \in 0..Outages
        /\ chan' \in {"none", "open", "dropped"}
    BY <1>1, <1>2, <1>4 DEF Rows
  <2>2. chan' = "none" => ~ran' /\ row'.status \in {"accepted", "stopping"} /\ seq' = 0
    BY <1>1, <1>2, <1>4 DEF Rows
  <2>3. ran' => row'.status # "accepted" BY <1>3, <1>4
  <2>4. \A i \in 1..Len(past') : past'[i].status = "running" => ran' BY <1>1, <1>2 DEF Rows
  <2>5. \A i \in 1..Len(past') : past'[i].status \in Confirmed => past'[i].status = row'.status
    BY <1>1, <1>2, <1>5 DEF Rows
  <2> QED BY <2>1, <2>2, <2>3, <2>4, <2>5 DEF Rows
<1>7. Unrun => Unrun' BY <1>2, <1>3, <1>4 DEF Unrun
<1>8. chan' = "none" => chan = "none" /\ (row.status = "accepted" \/ row'.status = row.status)
  <2>1. chan = "none" => row.status \in {"accepted", "stopping"} BY <1>1 DEF Rows
  <2> QED BY <1>2, <1>3, <1>4, <2>1
<1> QED BY <1>2, <1>5, <1>6, <1>7, <1>8, RowGoesOn

LEMMA ReconcileKeeps == ASSUME EventsInv, Reconcile PROVE EventsInv'
<1>1. Rows BY DEF EventsInv
<1>2. /\ row.status \in Active /\ chan = "dropped" /\ row' = [row EXCEPT !.status = "unconfirmed"]
      /\ UNCHANGED <<ran, chan, seq, state, ring, past, subs, conn, page, wire, revoked, cut>>
  BY DEF Reconcile, channel, server, client
<1>3. row'.status = "unconfirmed" /\ row' \in RowType /\ row.status \notin Confirmed
  BY <1>1, <1>2 DEF Rows, RowType, Statuses, Terminal, Active, Confirmed
<1>4. Rows'
  <2>1. \A i \in 1..Len(past') : past'[i].status \in Confirmed => past'[i].status = row'.status
    BY <1>1, <1>2, <1>3 DEF Rows
  <2> QED BY <1>1, <1>2, <1>3, <2>1 DEF Rows
<1>5. Unrun => Unrun' BY <1>2, <1>3 DEF Unrun
<1> QED BY <1>2, <1>3, <1>4, <1>5, RowGoesOn

LEMMA AttachKeeps == ASSUME EventsInv, Attach PROVE EventsInv'
<1>1. Rows BY DEF EventsInv
<1>2. /\ chan = "none" /\ chan' = "open"
      /\ UNCHANGED <<row, ran, seq, state, ring, past, subs, conn, page, wire, revoked, cut>>
  BY DEF Attach, server, client
<1>4. Rows' BY <1>1, <1>2 DEF Rows
<1>5. Unrun => Unrun' BY <1>2 DEF Unrun
<1> QED BY <1>2, <1>4, <1>5, RowGoesOn

LEMMA DropChannelKeeps == ASSUME EventsInv, DropChannel PROVE EventsInv'
<1>1. Rows BY DEF EventsInv
<1>2. /\ chan = "open" /\ chan' = "dropped"
      /\ UNCHANGED <<row, ran, seq, state, ring, past, subs, conn, page, wire, revoked, cut>>
  BY DEF DropChannel, server, client
<1>4. Rows' BY <1>1, <1>2 DEF Rows
<1>5. Unrun => Unrun' BY <1>2 DEF Unrun
<1> QED BY <1>2, <1>4, <1>5, RowGoesOn

LEMMA RevokeKeeps == ASSUME EventsInv, Revoke PROVE EventsInv'
<1>1. Rows BY DEF EventsInv
<1>2. /\ revoked' = TRUE
      /\ UNCHANGED <<row, ran, chan, seq, state, ring, past, subs, conn, page, wire, cut>>
  BY DEF Revoke, channel, server, client
<1>4. Rows' BY <1>1, <1>2 DEF Rows
<1>5. Unrun => Unrun' BY <1>2 DEF Unrun
<1> QED BY <1>2, <1>4, <1>5, RowGoesOn

\* The writers of the channel.
LEMMA WritersKeep ==
  ASSUME EventsInv, Wrote, chan = "open", UNCHANGED <<row, ran, chan, server, client, revoked, cut>>
  PROVE  EventsInv'
<1>1. UNCHANGED <<row, ran, chan, subs, conn, page, wire, revoked, cut>> BY DEF server, client
<1>2. PICK t \in Seq(StateType) : /\ past' = past \o t
         /\ \A i \in 1..Len(t) : /\ t[i].status = "running" => ran
                                 /\ t[i].status \in Confirmed => t[i].status = row.status
  BY DEF Wrote
<1>3. past \in Seq(StateType) /\ seq \in Nat /\ Len(past) = seq + 1 /\ Rows /\ Channel
  BY DEF EventsInv, Channel, Grows
<1>4. Channel' BY DEF Wrote
<1>5. past' \in Seq(StateType) /\ seq' \in Nat /\ Len(past') = seq' + 1 BY <1>4 DEF Channel, Grows
<1>6. PICK P \in Seq(StateType) : Joined(past, t, P) BY <1>3, Join
<1>7. P = past' BY <1>2, <1>6 DEF Joined
<1>8. seq <= seq'
  <2>1. Len(t) \in Nat /\ Len(past') = Len(past) + Len(t) BY <1>6, <1>7, LenProperties DEF Joined
  <2> QED BY <2>1, <1>3, <1>5
<1>9. Later
  <2>1. \E u \in Seq(StateType) : past' = past \o u BY <1>2
  <2>2. Unrun => Unrun' BY <1>1 DEF Unrun
  <2>3. /\ chan = "dropped" => chan' = "dropped"
        /\ row.status \in Confirmed => row'.status = row.status
        /\ chan' = "none" => chan = "none" /\ (row.status = "accepted" \/ row'.status = row.status)
        /\ revoked => revoked'
    BY <1>1
  <2> QED BY <1>3, <1>5, <1>8, <2>1, <2>2, <2>3, Zenon DEF Later
<1>10. Rows'
  <2>1. ASSUME NEW i \in 1..Len(past')
        PROVE  /\ past'[i].status = "running" => ran
               /\ past'[i].status \in Confirmed => past'[i].status = row.status
    <3>1. PICK m \in Nat : m = Len(past) BY <1>3
    <3>2. PICK n \in Nat : n = Len(t) BY LenProperties
    <3>3. Len(past') = m + n /\ \A j \in 1 .. m + n : past'[j] = IF j <= m THEN past[j] ELSE t[j - m]
      BY <1>6, <1>7, <3>1, <3>2 DEF Joined
    <3>4. CASE i <= m
      <4>1. i \in 1..m /\ past'[i] = past[i] BY <3>3, <3>4
      <4> QED BY <4>1, <3>1, <1>3 DEF Rows
    <3>5. CASE i > m
      <4>1. i - m \in 1..n /\ past'[i] = t[i - m] BY <3>3, <3>5
      <4> QED BY <4>1, <3>2, <1>2
    <3> QED BY <3>4, <3>5, <3>3
  <2>2. /\ row' = row /\ ran' = ran /\ revoked' = revoked /\ cut' = cut /\ chan' = chan /\ chan' # "none"
    BY <1>1
  <2>3. \A i \in 1..Len(past') : past'[i].status = "running" => ran' BY <2>1, <2>2
  <2>4. \A i \in 1..Len(past') : past'[i].status \in Confirmed => past'[i].status = row'.status BY <2>1, <2>2
  <2>5. /\ row \in RowType /\ ran \in BOOLEAN /\ revoked \in BOOLEAN /\ cut \in 0..Outages
        /\ chan \in {"none", "open", "dropped"} /\ (ran => row.status # "accepted")
    BY <1>3 DEF Rows
  <2>6. /\ row' \in RowType /\ ran' \in BOOLEAN /\ revoked' \in BOOLEAN /\ cut' \in 0..Outages
        /\ chan' \in {"none", "open", "dropped"} /\ (ran' => row'.status # "accepted")
    BY <2>2, <2>5
  <2>7. chan' = "none" => ~ran' /\ row'.status \in {"accepted", "stopping"} /\ seq' = 0 BY <2>2
  <2> QED BY <2>3, <2>4, <2>6, <2>7, Zenon DEF Rows
<1>11. Streams' /\ Counted' /\ Pages'
  <2>1. UNCHANGED <<conn, wire, page, subs>> BY <1>1
  <2> QED BY <1>9, <2>1, WatchersStay DEF EventsInv
<1> QED BY <1>4, <1>10, <1>11 DEF EventsInv

LEMMA WorkerKeeps == ASSUME EventsInv, Worker PROVE EventsInv'
<1>0. EventsAssumption /\ Channel /\ Rows BY DEF EventsInv
<1>1. ASSUME NEW s \in Active \cup Confirmed, Persist(s) PROVE EventsInv' BY <1>1, PersistKeeps
<1>2. ASSUME NEW s \in {"running", "stopping"}, SetStatus(s) PROVE EventsInv'
  <2>1. Wrote BY <1>0, <1>2, SetStatusWrites
  <2>2. chan = "open" /\ UNCHANGED <<row, ran, chan, server, client, revoked, cut>> BY <1>2 DEF SetStatus, Writing
  <2> QED BY <2>1, <2>2, WritersKeep
<1>3. ASSUME NEW n \in 1..MaxStage, SetStage(n) PROVE EventsInv'
  <2>1. Wrote BY <1>0, <1>3, SetStageWrites
  <2>2. chan = "open" /\ UNCHANGED <<row, ran, chan, server, client, revoked, cut>> BY <1>3 DEF SetStage, Working, Writing
  <2> QED BY <2>1, <2>2, WritersKeep
<1>4. ASSUME NEW n \in 0..Total, SetTaskProgress(n) PROVE EventsInv'
  <2>1. Wrote BY <1>0, <1>4, SetTaskProgressWrites
  <2>2. chan = "open" /\ UNCHANGED <<row, ran, chan, server, client, revoked, cut>> BY <1>4 DEF SetTaskProgress, Working, Writing
  <2> QED BY <2>1, <2>2, WritersKeep
<1>5. ASSUME NEW k \in Key, NEW n \in 1..MaxText, TextDelta(k, n) PROVE EventsInv'
  <2>1. Wrote BY <1>0, <1>5, TextDeltaWrites
  <2>2. chan = "open" /\ UNCHANGED <<row, ran, chan, server, client, revoked, cut>>
    BY <1>5, Zenon DEF TextDelta, Working, Writing
  <2> QED BY <2>1, <2>2, WritersKeep
<1>6. ASSUME Reset PROVE EventsInv'
  <2>1. Wrote BY <1>0, <1>6, ResetWrites
  <2>2. chan = "open" /\ UNCHANGED <<row, ran, chan, server, client, revoked, cut>> BY <1>6 DEF Reset, Working, Writing
  <2> QED BY <2>1, <2>2, WritersKeep
<1>7. ASSUME NEW s \in Terminal, Finish(s) PROVE EventsInv'
  <2>1. Wrote BY <1>0, <1>7, FinishWrites
  <2>2. chan = "open" /\ UNCHANGED <<row, ran, chan, server, client, revoked, cut>> BY <1>7 DEF Finish
  <2> QED BY <2>1, <2>2, WritersKeep
<1> QED BY <1>1, <1>2, <1>3, <1>4, <1>5, <1>6, <1>7, AttachKeeps, DropChannelKeeps DEF Worker, Conclude

-----------------------------------------------------------------------------
(***************************************************************************)
(* The server side of a connection.                                        *)
(***************************************************************************)

\* A step that leaves the channel and the row alone.
Still == UNCHANGED <<row, ran, chan, seq, state, ring, past, revoked>>

LEMMA StillIsLater == ASSUME EventsInv, Still PROVE Later /\ Channel'
<1>1. past' = past /\ seq' = seq /\ state' = state /\ ring' = ring /\ row' = row /\ ran' = ran /\ chan' = chan /\ revoked' = revoked
  BY DEF Still
<1>2. past \in Seq(StateType) /\ seq \in Nat /\ Len(past) = seq + 1 BY DEF EventsInv, Channel, Grows
<1>3. Later
  <2>1. <<>> \in Seq(StateType) /\ past \o <<>> = past BY <1>2, ConcatEmptySeq
  <2>2. \E t \in Seq(StateType) : past' = past \o t BY <1>1, <2>1
  <2>3. seq' \in Nat /\ seq <= seq' BY <1>1, <1>2
  <2>4. Unrun => Unrun' BY <1>1 DEF Unrun
  <2>5. /\ chan = "dropped" => chan' = "dropped"
        /\ row.status \in Confirmed => row'.status = row.status
        /\ chan' = "none" => chan = "none" /\ (row.status = "accepted" \/ row'.status = row.status)
        /\ revoked => revoked'
    BY <1>1
  <2> QED BY <1>2, <2>2, <2>3, <2>4, <2>5, Zenon DEF Later
<1>4. Channel' BY <1>1 DEF EventsInv, Channel, Grows, Fits
<1> QED BY <1>3, <1>4

\* What a page shows.
Shown(s) == s # None => Mirrors(s) /\ (Ahead(s) \/ Settled(s))

\* One connection takes a step; the pages watch on.
LEMMA ConnMoves ==
  ASSUME EventsInv, UNCHANGED <<row, ran, channel, page, revoked, cut>>,
         NEW c \in Conn, NEW k, NEW w,
         conn' = [b \in Conn |-> conn'[b]], wire' = [b \in Conn |-> wire'[b]],
         conn'[c] = k, wire'[c] = w, \A b \in Conn \ {c} : conn'[b] = conn[b] /\ wire'[b] = wire[b],
         ConnFits(k, w), Counted',
         \A s : Shown(s) /\ Watches(s, conn[c], wire[c]) => Watches(s, k, w)
  PROVE  EventsInv'
<1>1. Still BY DEF Still, channel
<1>2. Later /\ Channel' BY <1>1, StillIsLater
<1>3. Rows' BY DEF EventsInv, Rows, channel
<1>4. ASSUME NEW b \in Conn PROVE ConnFits(conn[b], wire[b])'
  <2>1. PICK j : j = conn'[b] OBVIOUS
  <2>2. PICK v : v = wire'[b] OBVIOUS
  <2>3. ConnFits(j, v)
    <3>1. CASE b = c BY <3>1, <2>1, <2>2
    <3>2. CASE b # c
      <4>1. j = conn[b] /\ v = wire[b] BY <3>2, <2>1, <2>2
      <4> QED BY <4>1 DEF EventsInv, Streams
    <3> QED BY <3>1, <3>2
  <2>4. ConnFits(j, v)' BY <1>2, <2>3, ConnStays
  <2> QED BY <2>1, <2>2, <2>4, Zenon
<1>5. Streams' BY <1>4, Zenon DEF Streams
<1>6. page' = page OBVIOUS
<1>7. ASSUME NEW p \in Page PROVE PageFits(page[p])'
  <2>1. PICK g : g = page[p] OBVIOUS
  <2>2. PageFits(g)' BY <1>2, <2>1, PageStays DEF EventsInv, Pages
  <2>3. page'[p] = g BY <1>6, <2>1
  <2> QED BY <2>2, <2>3, Zenon
<1>8. ASSUME NEW p \in Page, page'[p].pc = "observing"
      PROVE  Watches(page[p].state, conn[page[p].conn], wire[page[p].conn])'
  <2>1. PICK s : s = page[p].state OBVIOUS
  <2>2. PICK b : b = page[p].conn OBVIOUS
  <2>3. PICK j : j = conn'[b] OBVIOUS
  <2>4. PICK v : v = wire'[b] OBVIOUS
  <2>5. PageFits(page[p]) /\ Watches(s, conn[b], wire[b]) BY <1>6, <1>8, <2>1, <2>2 DEF EventsInv, Pages
  <2>6. b \in Conn
    <3>1. page[p] \in PageType /\ page[p].conn # None BY <1>6, <1>8, <2>5 DEF PageFits
    <3> QED BY <3>1, <2>2 DEF PageType
  <2>7. Shown(s) BY <2>1, <2>5, Zenon DEF PageFits, Shown
  <2>8. Watches(s, j, v)
    <3>1. CASE b = c BY <3>1, <2>3, <2>4, <2>5, <2>7
    <3>2. CASE b # c
      <4>1. j = conn[b] /\ v = wire[b] BY <3>2, <2>3, <2>4, <2>6
      <4> QED BY <4>1, <2>5
    <3> QED BY <3>1, <3>2
  <2>9. s # None => s.seq \in 0..seq BY <2>7 DEF Shown, Mirrors
  <2>10. Watches(s, j, v)' BY <1>2, <2>8, <2>9, WatchesStays
  <2>11. page'[p].state = s /\ page'[p].conn = b BY <1>6, <2>1, <2>2
  <2> QED BY <2>3, <2>4, <2>10, <2>11, Zenon
<1>9. Pages'
  <2>1. (page = [p \in Page |-> page[p]])' BY <1>6 DEF EventsInv, Pages
  <2>2. (\A p, q \in Page : p # q /\ page[p].pc = "observing" => page[q].conn # page[p].conn)'
    BY <1>6 DEF EventsInv, Pages
  <2> QED BY <1>7, <1>8, <2>1, <2>2, Zenon DEF Pages
<1> QED BY <1>2, <1>3, <1>5, <1>9 DEF EventsInv

\* Connections that keep or change a subscription.
LEMMA SameLive ==
  ASSUME Counted, NEW c \in Conn, \A b \in Conn \ {c} : conn'[b] = conn[b],
         conn'[c].live = conn[c].live, subs' = subs
  PROVE  Counted'
<1>1. Live' = Live BY DEF Live
<1> QED BY <1>1 DEF Counted

LEMMA OneMoreLive ==
  ASSUME Counted, NEW c \in Conn, \A b \in Conn \ {c} : conn'[b] = conn[b], ~conn[c].live,
         conn'[c].live, subs' = subs + 1, subs < MaxSubscribers, MaxSubscribers \in Nat
  PROVE  Counted'
<1>1. Live' = Live \cup {c} BY DEF Live
<1>2. c \notin Live BY DEF Live
<1>3. IsFiniteSet(Live) /\ subs \in Nat /\ subs = Cardinality(Live) BY DEF Counted
<1>4. IsFiniteSet(Live \cup {c}) /\ Cardinality(Live \cup {c}) = Cardinality(Live) + 1
  BY <1>2, <1>3, FS_AddElement
<1> QED BY <1>1, <1>3, <1>4 DEF Counted

LEMMA OneLessLive ==
  ASSUME Counted, NEW c \in Conn, \A b \in Conn \ {c} : conn'[b] = conn[b], conn[c].live,
         ~conn'[c].live, subs' = subs - 1, MaxSubscribers \in Nat
  PROVE  Counted'
<1>1. Live' = Live \ {c} BY DEF Live
<1>2. c \in Live BY DEF Live
<1>3. IsFiniteSet(Live) /\ subs \in Nat /\ subs = Cardinality(Live) /\ subs <= MaxSubscribers BY DEF Counted
<1>4. IsFiniteSet(Live \ {c}) /\ Cardinality(Live \ {c}) = Cardinality(Live) - 1
  BY <1>2, <1>3, FS_RemoveElement
<1>5. Cardinality(Live \ {c}) \in Nat BY <1>4, FS_CardinalityType
<1> QED BY <1>1, <1>3, <1>4, <1>5 DEF Counted

\* The frames of a longer wire, seen from its beginning.
LEMMA Prefix ==
  ASSUME NEW s, NEW w \in Seq(Frame), NEW q \in Seq(Frame), NEW i \in 1..Len(w)
  PROVE  Next1(s, w \o q, i) <=> Next1(s, w, i)
<1>1. PICK f \in Seq(Frame) : f = w \o q /\ Joined(w, q, f) BY Join
<1>2. PICK m \in Nat : m = Len(w) BY LenProperties
<1>3. PICK n \in Nat : n = Len(q) BY LenProperties
<1>4. \A j \in 1..m : f[j] = w[j]
  <2>1. \A j \in 1..m : j \in 1 .. m + n /\ j <= m OBVIOUS
  <2> QED BY <2>1, <1>1, <1>2, <1>3 DEF Joined
<1>5. f[i] = w[i] BY <1>2, <1>4
<1>6. i # 1 => f[i - 1] = w[i - 1]
  <2>1. i # 1 => i - 1 \in 1..m BY <1>2
  <2> QED BY <2>1, <1>4
<1> QED BY <1>1, <1>5, <1>6 DEF Next1

\* A frame moves from the queue to the wire.
LEMMA Passes ==
  ASSUME NEW w \in Seq(Frame), NEW q \in Seq(Frame), q # <<>>
  PROVE  /\ Tail(q) \in Seq(Frame) /\ Append(w, Head(q)) \in Seq(Frame) /\ Head(q) = q[1] /\ 1 \in 1..Len(q)
         /\ Append(w, Head(q)) \o Tail(q) = w \o q
         /\ Len(Append(w, Head(q))) = Len(w) + 1
         /\ \A i \in 1..Len(w) : Append(w, Head(q))[i] = w[i]
         /\ Append(w, Head(q))[Len(w) + 1] = q[1]
         /\ Len(Tail(q)) = Len(q) - 1 /\ \A i \in 1..Len(Tail(q)) : i + 1 \in 1..Len(q) /\ Tail(q)[i] = q[i + 1]
<1>1. PICK n \in Nat : n = Len(q) /\ n >= 1 BY LenProperties
<1>2. PICK m \in Nat : m = Len(w) BY LenProperties
<1>3. Head(q) = q[1] /\ q[1] \in Frame /\ 1 \in 1..Len(q) BY <1>1
<1>4. PICK t \in Seq(Frame) : t = Tail(q) /\ Len(t) = n - 1 /\ \A i \in 1..(n - 1) : t[i] = q[i + 1]
  <2>1. Tail(q) \in Seq(Frame) /\ Len(Tail(q)) = Len(q) - 1 /\ \A i \in 1..Len(Tail(q)) : Tail(q)[i] = q[i + 1]
    BY HeadTailProperties
  <2>2. PICK t \in Seq(Frame) : t = Tail(q) BY <2>1
  <2>3. Len(t) = n - 1 /\ \A i \in 1..(n - 1) : t[i] = q[i + 1] BY <1>1, <2>1, <2>2
  <2> QED BY <2>2, <2>3
<1>5. PICK a \in Seq(Frame) : a = Append(w, q[1]) /\ Len(a) = m + 1 /\ (\A i \in 1..m : a[i] = w[i]) /\ a[m + 1] = q[1]
  <2>1. PICK e \in Frame : e = q[1] BY <1>3
  <2>2. /\ Append(w, e) \in Seq(Frame) /\ Len(Append(w, e)) = Len(w) + 1
        /\ \A i \in 1..Len(w) : Append(w, e)[i] = w[i]
        /\ Append(w, e)[Len(w) + 1] = e
    BY AppendProperties
  <2>3. PICK a \in Seq(Frame) : a = Append(w, e) BY <2>2
  <2>4. Len(a) = m + 1 /\ (\A i \in 1..m : a[i] = w[i]) /\ a[m + 1] = e BY <1>2, <2>2, <2>3
  <2> QED BY <2>1, <2>3, <2>4
<1>6. PICK x \in Seq(Frame) : x = a \o t /\ Joined(a, t, x) BY Join
<1>7. PICK y \in Seq(Frame) : y = w \o q /\ Joined(w, q, y) BY Join
<1>8. Len(x) = m + n /\ \A i \in 1 .. m + n : x[i] = IF i <= m + 1 THEN a[i] ELSE t[i - (m + 1)]
  <2>1. Len(a) = m + 1 /\ Len(t) = n - 1 /\ m + 1 + (n - 1) = m + n BY <1>4, <1>5
  <2>2. Len(x) = Len(a) + Len(t) /\ \A i \in 1 .. Len(a) + Len(t) : x[i] = IF i <= Len(a) THEN a[i] ELSE t[i - Len(a)]
    BY <1>6 DEF Joined
  <2>3. Len(a) + Len(t) = m + n BY <2>1
  <2> QED BY <2>1, <2>2, <2>3
<1>9. Len(y) = m + n /\ \A i \in 1 .. m + n : y[i] = IF i <= m THEN w[i] ELSE q[i - m]
  BY <1>1, <1>2, <1>7 DEF Joined
<1>10. ASSUME NEW i \in 1 .. m + n PROVE x[i] = y[i]
  <2>1. CASE i <= m
    <3>1. i <= m + 1 /\ i \in 1..m BY <2>1
    <3> QED BY <2>1, <3>1, <1>5, <1>8, <1>9
  <2>2. CASE i = m + 1
    <3>1. x[i] = a[i] BY <2>2, <1>8
    <3>2. y[i] = q[i - m] /\ i - m = 1 BY <2>2, <1>9
    <3> QED BY <3>1, <3>2, <2>2, <1>5
  <2>3. CASE i > m + 1
    <3>1. x[i] = t[i - (m + 1)] /\ i - (m + 1) \in 1..(n - 1) BY <2>3, <1>8
    <3>2. y[i] = q[i - m] /\ i - (m + 1) + 1 = i - m BY <2>3, <1>9
    <3> QED BY <3>1, <3>2, <1>4
  <2> QED BY <2>1, <2>2, <2>3
<1>11. x = y BY <1>8, <1>9, <1>10, SeqEqual
<1>12. \A i \in 1..(n - 1) : i + 1 \in 1..n OBVIOUS
<1>13. Len(t) = Len(q) - 1 /\ \A i \in 1..Len(t) : i + 1 \in 1..Len(q) /\ t[i] = q[i + 1] BY <1>1, <1>4, <1>12
<1> QED BY <1>2, <1>3, <1>4, <1>5, <1>6, <1>7, <1>11, <1>13

\* The frames that are not events.
LEMMA InitialIsState == ASSUME EventsAssumption PROVE InitialState \in StateType
<1>1. MaxStage \in Nat /\ Total \in Nat /\ MaxReset \in Nat BY DEF EventsAssumption
<1> QED BY <1>1, NoDraftIsDraft DEF InitialState, StateType, Active

LEMMA SavedIs ==
  ASSUME EventsAssumption, NEW v \in RowType
  PROVE  /\ PersistedSnapshot(v) \in Frame
         /\ PersistedSnapshot(v).seq = 0 /\ PersistedSnapshot(v).gen = 0 /\ PersistedSnapshot(v).type = "snapshot"
         /\ PersistedSnapshot(v).body \in StateType
         /\ PersistedSnapshot(v).body = [InitialState EXCEPT !.status = v.status, !.reason = v.reason]
         /\ PersistedSnapshot(v).body.status = v.status /\ PersistedSnapshot(v).body.reason = v.reason
<1>1. PICK st \in StateType : st = [InitialState EXCEPT !.status = v.status, !.reason = v.reason]
  BY InitialIsState DEF StateType, RowType, Statuses, Reasons
<1>2. st.status = v.status /\ st.reason = v.reason
  <2>1. PICK i \in StateType : i = InitialState BY InitialIsState
  <2>2. st = [i EXCEPT !.status = v.status, !.reason = v.reason] BY <1>1, <2>1
  <2> QED BY <2>2 DEF StateType
<1>3. PersistedSnapshot(v) = [seq |-> 0, gen |-> 0, type |-> "snapshot", body |-> st] BY <1>1 DEF PersistedSnapshot, Event
<1>4. st \in Body BY DEF Body
<1>5. [seq |-> 0, gen |-> 0, type |-> "snapshot", body |-> st] \in Frame BY <1>4 DEF Frame
<1>6. PICK e \in Frame : e = [seq |-> 0, gen |-> 0, type |-> "snapshot", body |-> st] BY <1>5
<1>7. e.seq = 0 /\ e.gen = 0 /\ e.type = "snapshot" /\ e.body = st BY <1>6
<1>8. e = PersistedSnapshot(v) BY <1>3, <1>6
<1> QED BY <1>1, <1>2, <1>7, <1>8, Zenon

LEMMA AuthLostIs ==
  AuthLost \in Frame /\ AuthLost.seq = 0 /\ AuthLost.type = "auth_lost" /\ AuthLost.body = NoBody
<1>1. NoBody \in Body BY DEF Body
<1> QED BY <1>1 DEF AuthLost, Event, Frame

LEMMA SnapshotIs ==
  ASSUME EventsAssumption, Channel
  PROVE  Snapshot \in Frame /\ SnapshotOf(Snapshot, past) /\ Snapshot.seq = seq
<1>1. past \in Seq(StateType) /\ seq \in Nat /\ Len(past) = seq + 1 /\ past[seq + 1] = state BY DEF Channel, Grows
<1>2. state \in StateType BY <1>1, ElementOfSeq
<1>3. state.gen \in Nat /\ state \in Body BY <1>2, StateFields DEF Body
<1>4. /\ Snapshot.seq = seq /\ Snapshot.gen = state.gen /\ Snapshot.type = "snapshot" /\ Snapshot.body = state
  BY DEF Snapshot, Event
<1>5. Snapshot \in Frame BY <1>1, <1>3 DEF Snapshot, Event, Frame
<1> QED BY <1>1, <1>4, <1>5 DEF SnapshotOf

\* A frame as a queue.
LEMMA QueueOfOne ==
  ASSUME NEW e \in Frame
  PROVE  <<e>> \in Seq(Frame) /\ Len(<<e>>) = 1 /\ <<e>>[1] = e /\ <<e>> # <<>> /\ <<>> \o <<e>> = <<e>>
<1>1. <<e>> \in Seq(Frame) /\ Len(<<e>>) = 1 /\ <<e>>[1] = e /\ <<e>> # <<>> OBVIOUS
<1>2. <<>> \o <<e>> = <<e>> BY <1>1, ConcatEmptySeq
<1> QED BY <1>1, <1>2

LEMMA SubscribeKeeps == ASSUME EventsInv, NEW c \in Conn, Subscribe(c) PROVE EventsInv'
<1>0. /\ EventsAssumption /\ Channel /\ Rows /\ Counted
      /\ conn = [b \in Conn |-> conn[b]] /\ wire = [b \in Conn |-> wire[b]]
  BY DEF EventsInv, Streams
<1>1. PICK o : o = conn[c] OBVIOUS
<1>2. PICK v : v = wire[c] OBVIOUS
<1>3. ConnFits(o, v) /\ o.pc = "view" BY <1>1, <1>2 DEF EventsInv, Streams, Subscribe
<1>4. /\ o \in ConnType /\ ~o.live /\ o.queue = <<>> /\ v = <<>> /\ WasRow(o.view) /\ o.view \in RowType
      /\ (~revoked => o.late = 0)
  BY <1>3 DEF ConnFits, WasRow
<1>5. UNCHANGED <<row, ran, channel, page, wire, revoked, cut>> BY DEF Subscribe, client
<1>6. ASSUME NEW k, k \in ConnType, conn' = [conn EXCEPT ![c] = k], ConnFits(k, v), Counted',
             \A s : Shown(s) /\ Watches(s, o, v) => Watches(s, k, v)
      PROVE  EventsInv'
  <2>1. conn' = [b \in Conn |-> conn'[b]] /\ conn'[c] = k /\ \A b \in Conn \ {c} : conn'[b] = conn[b]
    BY <1>0, <1>6
  <2>2. wire' = [b \in Conn |-> wire'[b]] /\ wire'[c] = v /\ \A b \in Conn \ {c} : wire'[b] = wire[b]
    BY <1>0, <1>2, <1>5
  <2> QED BY <1>1, <1>2, <1>5, <1>6, <2>1, <2>2, ConnMoves
<1>7. CASE chan # "open"
  <2>1. PICK e \in Frame : e = PersistedSnapshot(o.view) BY <1>0, <1>4, SavedIs
  <2>2. PICK k : k = [o EXCEPT !.pc = "check", !.view = None, !.queue = <<e>>] OBVIOUS
  <2>3. conn' = [conn EXCEPT ![c] = k] /\ subs' = subs BY <1>0, <1>1, <1>7, <2>1, <2>2 DEF Subscribe
  <2>4. <<e>> \in Seq(Frame) /\ Len(<<e>>) = 1 /\ <<e>>[1] = e /\ <<e>> # <<>> /\ <<>> \o <<e>> = <<e>> BY QueueOfOne
  <2>5. /\ k \in ConnType /\ k.pc = "check" /\ k.queue = <<e>> /\ k.live = o.live /\ k.gone = o.gone /\ k.late = o.late
    BY <1>4, <2>2, <2>4 DEF ConnType
  <2>6. SavedOf(e)
    <3>1. Kept(o.view)
      <4>1. chan \in {"none", "dropped"} BY <1>0, <1>7 DEF Rows
      <4>2. CASE chan = "dropped" BY <4>2, <1>4 DEF WasRow, Kept
      <4>3. CASE chan = "none"
        <5>1. o.view.status \in {"accepted", row.status} /\ row.status \in {"accepted", "stopping"} /\ ~ran
          BY <4>3, <1>0, <1>4 DEF WasRow, Rows
        <5> QED BY <5>1, <1>4 DEF WasRow, Kept, Unrun
      <4> QED BY <4>1, <4>2, <4>3
    <3> QED BY <1>4, <2>1, <3>1 DEF SavedOf
  <2>7. ConnFits(k, v)
    <3>1. \A i \in 1..Len(k.queue) : Sound(k.queue[i]) BY <2>4, <2>5, <2>6 DEF Sound
    <3>2. \A i \in 1..Len(v) : Sound(v[i]) BY <1>3 DEF ConnFits
    <3>3. v \in Seq(Frame) BY <1>3 DEF ConnFits
    <3>4. k.pc \in {"check", "send"} /\ ~k.live => Len(k.queue) = 1 /\ v = <<>> /\ SavedOf(k.queue[1])
      BY <1>4, <2>4, <2>5, <2>6
    <3> QED BY <1>4, <2>4, <2>5, <3>1, <3>2, <3>3, <3>4 DEF ConnFits
  <2>8. Counted'
    <3>1. conn'[c].live = conn[c].live /\ \A b \in Conn \ {c} : conn'[b] = conn[b] BY <1>0, <1>1, <2>3, <2>5
    <3> QED BY <1>0, <2>3, <3>1, SameLive
  <2>9. ASSUME NEW s, Watches(s, o, v) PROVE Watches(s, k, v)
    <3>1. v \o k.queue = <<e>> BY <1>4, <2>4, <2>5
    <3>2. Feeds(s, k, <<e>>)
      <4>1. ~o.gone BY <2>9 DEF Watches, Feeds
      <4> QED BY <4>1, <1>4, <2>4, <2>5, <2>6 DEF Feeds
    <3>3. Quiet(<<e>>) BY <2>4, <2>6 DEF Quiet
    <3> QED BY <1>4, <2>5, <3>1, <3>2, <3>3, Zenon DEF Watches
  <2> QED BY <2>3, <2>5, <2>7, <2>8, <2>9, <1>6
<1>8. CASE chan = "open" /\ CanSubscribe
  <2>1. PICK e \in Frame : e = Snapshot /\ SnapshotOf(e, past) /\ e.seq = seq BY <1>0, SnapshotIs
  <2>2. PICK k : k = [o EXCEPT !.pc = "check", !.live = TRUE, !.view = None, !.queue = <<e>>, !.cursor = seq] OBVIOUS
  <2>3. conn' = [conn EXCEPT ![c] = k] /\ subs' = subs + 1 BY <1>0, <1>1, <1>8, <2>1, <2>2 DEF Subscribe
  <2>4. <<e>> \in Seq(Frame) /\ Len(<<e>>) = 1 /\ <<e>>[1] = e /\ <<e>> # <<>> /\ <<>> \o <<e>> = <<e>> BY QueueOfOne
  <2>a. seq \in Nat BY <1>0 DEF Channel
  <2>5. /\ k \in ConnType /\ k.pc = "check" /\ k.queue = <<e>> /\ k.live = TRUE /\ k.gone = o.gone /\ k.late = o.late
        /\ k.cursor = seq
    BY <1>4, <2>2, <2>4, <2>a DEF ConnType
  <2>6. FromChannel(e) BY <2>1 DEF FromChannel
  <2>7. ConnFits(k, v)
    <3>1. \A i \in 1..Len(k.queue) : Sound(k.queue[i]) BY <2>1, <2>4, <2>5 DEF Sound
    <3>2. \A i \in 1..Len(k.queue) : FromChannel(k.queue[i]) BY <2>4, <2>5, <2>6
    <3>3. \A i \in 1..Len(v) : Sound(v[i]) BY <1>3 DEF ConnFits
    <3>4. v \in Seq(Frame) BY <1>3 DEF ConnFits
    <3>5. k.cursor <= seq BY <2>5, <2>a
    <3> QED BY <1>4, <2>4, <2>5, <3>1, <3>2, <3>3, <3>4, <3>5 DEF ConnFits
  <2>8. Counted'
    <3>1. conn'[c].live /\ ~conn[c].live /\ \A b \in Conn \ {c} : conn'[b] = conn[b] BY <1>0, <1>1, <1>4, <2>3, <2>5
    <3>2. subs < MaxSubscribers /\ MaxSubscribers \in Nat BY <1>0, <1>8 DEF CanSubscribe, EventsAssumption
    <3> QED BY <1>0, <2>3, <3>1, <3>2, OneMoreLive
  <2>9. ASSUME NEW s, Shown(s), Watches(s, o, v) PROVE Watches(s, k, v)
    <3>1. v \o k.queue = <<e>> BY <1>4, <2>4, <2>5
    <3>2. Next1(s, <<e>>, 1)
      <4>1. s # None => s.seq <= e.seq BY <2>1, <2>9, <2>a DEF Shown, Mirrors
      <4> QED BY <4>1, <2>1, <2>4 DEF Next1
    <3>3. At(s, <<e>>) = k.cursor BY <2>1, <2>4, <2>5 DEF At
    <3>4. Feeds(s, k, <<e>>)
      <4>1. ~o.gone BY <2>9 DEF Watches, Feeds
      <4> QED BY <4>1, <2>4, <2>5, <3>2, <3>3 DEF Feeds
    <3>5. s # None => Ahead(s) BY <1>8, <2>9 DEF Shown, Settled
    <3> QED BY <3>1, <3>4, <3>5, Zenon DEF Watches
  <2> QED BY <2>3, <2>5, <2>7, <2>8, <2>9, <1>6
<1>9. CASE chan = "open" /\ ~CanSubscribe
  <2>2. PICK k : k = [o EXCEPT !.pc = "closing", !.view = None] OBVIOUS
  <2>3. conn' = [conn EXCEPT ![c] = k] /\ subs' = subs BY <1>0, <1>1, <1>9, <2>2 DEF Subscribe
  <2>5. /\ k \in ConnType /\ k.pc = "closing" /\ k.queue = <<>> /\ k.live = o.live /\ k.gone = o.gone /\ k.late = o.late
    BY <1>4, <2>2 DEF ConnType
  <2>7. ConnFits(k, v)
    <3>1. \A i \in 1..Len(k.queue) : Sound(k.queue[i]) BY <2>5
    <3>2. \A i \in 1..Len(v) : Sound(v[i]) BY <1>3 DEF ConnFits
    <3>3. v \in Seq(Frame) BY <1>3 DEF ConnFits
    <3> QED BY <1>4, <2>5, <3>1, <3>2, <3>3 DEF ConnFits
  <2>8. Counted'
    <3>1. conn'[c].live = conn[c].live /\ \A b \in Conn \ {c} : conn'[b] = conn[b] BY <1>0, <1>1, <2>3, <2>5
    <3> QED BY <1>0, <2>3, <3>1, SameLive
  <2>9. ASSUME NEW s, Watches(s, o, v) PROVE Watches(s, k, v)
    <3>1. v \o k.queue = <<>> BY <1>4, <2>5, ConcatEmptySeq
    <3>2. Feeds(s, k, <<>>)
      <4>1. ~o.gone BY <2>9 DEF Watches, Feeds
      <4> QED BY <4>1, <1>4, <2>5 DEF Feeds
    <3>3. Quiet(<<>>) BY DEF Quiet
    <3> QED BY <1>4, <2>5, <3>1, <3>2, <3>3, Zenon DEF Watches
  <2> QED BY <2>3, <2>5, <2>7, <2>8, <2>9, <1>6
<1> QED BY <1>7, <1>8, <1>9

\* What is on the wire, then in the queue.
LEMMA Fed ==
  ASSUME NEW s, NEW k, NEW w \in Seq(Frame), NEW q \in Seq(Frame), Feeds(s, k, w \o q),
         k.pc \notin {"closing", "closed"}, k.live \/ q # <<>>
  PROVE  \A i \in 1..Len(w) : Next1(s, w, i)
<1>1. PICK f \in Seq(Frame) : f = w \o q /\ Joined(w, q, f) BY Join
<1>2. PICK m \in Nat : m = Len(w) BY LenProperties
<1>3. PICK n \in Nat : n = Len(q) BY LenProperties
<1>4. Len(f) = m + n BY <1>1, <1>2, <1>3 DEF Joined
<1>5. ASSUME NEW i \in 1..m PROVE Next1(s, w, i)
  <2>1. i \in 1..Len(f) BY <1>4
  <2>2. Next1(s, f, i) \/ (Len(f) = 1 /\ ~k.live) BY <2>1, <1>1 DEF Feeds
  <2>3. q # <<>> => n >= 1 BY <1>3
  <2>4. Next1(s, f, i) BY <2>2, <2>3, <1>4
  <2> QED BY <2>4, <1>1, <1>2, Prefix
<1> QED BY <1>2, <1>5

\* The stream says that the rights are gone, and ends.
LEMMA SaysAuthLost ==
  ASSUME EventsInv, NEW c \in Conn, NEW o, NEW v, o = conn[c], v = wire[c],
         o.pc \in {"check", "read"}, revoked,
         UNCHANGED <<row, ran, channel, subs, page, revoked, cut>>, Deliver(c, AuthLost),
         conn' = [conn EXCEPT ![c].pc = "closing", ![c].queue = <<>>]
  PROVE  EventsInv'
<1>0. /\ EventsAssumption /\ Channel /\ Rows /\ Counted
      /\ conn = [b \in Conn |-> conn[b]] /\ wire = [b \in Conn |-> wire[b]]
  BY DEF EventsInv, Streams
<1>3. ConnFits(o, v) BY DEF EventsInv, Streams
<1>4. o \in ConnType /\ v \in Seq(Frame) /\ o.queue \in Seq(Frame) BY <1>3 DEF ConnFits, ConnType
<1>5. PICK e \in Frame : e = AuthLost BY AuthLostIs
<1>6. PICK w : w = IF o.gone THEN v ELSE Append(v, e) OBVIOUS
<1>7. PICK k : k = [o EXCEPT !.pc = "closing", !.queue = <<>>] OBVIOUS
<1>b. <<>> \in Seq(Frame) OBVIOUS
<1>c. k \in ConnType BY <1>4, <1>7, <1>b DEF ConnType
<1>8. /\ k \in ConnType /\ k.pc = "closing" /\ k.queue = <<>> /\ k.live = o.live /\ k.gone = o.gone /\ k.late = o.late
      /\ k.cursor = o.cursor
  BY <1>4, <1>7, <1>c DEF ConnType
<1>9. conn' = [b \in Conn |-> conn'[b]] /\ conn'[c] = k /\ \A b \in Conn \ {c} : conn'[b] = conn[b]
  BY <1>0, <1>7
<1>10. wire' = [b \in Conn |-> wire'[b]] /\ wire'[c] = w /\ \A b \in Conn \ {c} : wire'[b] = wire[b]
  BY <1>0, <1>5, <1>6 DEF Deliver
<1>11. PICK m \in Nat : m = Len(v) BY <1>4, LenProperties
<1>12. PICK a \in Seq(Frame) : a = Append(v, e) /\ Len(a) = m + 1 /\ (\A i \in 1..m : a[i] = v[i]) /\ a[m + 1] = e
  <2>1. /\ Append(v, e) \in Seq(Frame) /\ Len(Append(v, e)) = Len(v) + 1
        /\ \A i \in 1..Len(v) : Append(v, e)[i] = v[i]
        /\ Append(v, e)[Len(v) + 1] = e
    BY <1>4, AppendProperties
  <2>2. PICK a \in Seq(Frame) : a = Append(v, e) BY <2>1
  <2>3. Len(a) = m + 1 /\ (\A i \in 1..m : a[i] = v[i]) /\ a[m + 1] = e BY <1>11, <2>1, <2>2
  <2> QED BY <2>2, <2>3
<1>13. w = v \/ (~o.gone /\ w = a) BY <1>6, <1>12
<1>14. ConnFits(k, w)
  <2>1. w \in Seq(Frame) BY <1>4, <1>13
  <2>2. \A i \in 1..Len(w) : Sound(w[i])
    <3>1. \A i \in 1..m : Sound(v[i]) BY <1>3, <1>11 DEF ConnFits
    <3>2. ASSUME NEW i \in 1 .. m + 1 PROVE Sound(a[i])
      <4>1. CASE i \in 1..m BY <4>1, <3>1, <1>12
      <4>2. CASE i = m + 1 BY <4>2, <1>5, <1>12 DEF Sound
      <4> QED BY <4>1, <4>2
    <3> QED BY <3>1, <3>2, <1>11, <1>12, <1>13
  <2>3. \A i \in 1..Len(k.queue) : Sound(k.queue[i]) /\ FromChannel(k.queue[i]) BY <1>8
  <2>4. k.gone => w = <<>> /\ k.pc # "closed" BY <1>3, <1>6, <1>8 DEF ConnFits
  <2>5. k.live => k.cursor <= seq BY <1>3, <1>8 DEF ConnFits
  <2>6. k.pc = "send" \/ ~revoked => k.late = 0 BY <1>8
  <2> QED BY <1>8, <2>1, <2>2, <2>3, <2>4, <2>5, <2>6 DEF ConnFits
<1>15. Counted'
  <2>1. conn'[c].live = conn[c].live /\ subs' = subs BY <1>8, <1>9
  <2> QED BY <1>0, <1>9, <2>1, SameLive
<1>16. ASSUME NEW s, Watches(s, o, v) PROVE Watches(s, k, w)
  <2>1. Feeds(s, o, v \o o.queue) /\ (s # None => Ahead(s) \/ (~o.live /\ Quiet(v \o o.queue)))
    BY <1>16 DEF Watches
  <2>2. ~o.gone BY <2>1 DEF Feeds
  <2>3. w = a BY <1>6, <1>12, <2>2
  <2>4. a \o k.queue = a BY <1>8, ConcatEmptySeq
  <2>5. o.live \/ o.queue # <<>> BY <1>3 DEF ConnFits
  <2>6. \A i \in 1..m : Next1(s, v, i) BY <1>4, <1>11, <2>1, <2>5, Fed
  <2>7. ASSUME NEW i \in 1..m PROVE Next1(s, a, i)
    <3>1. a[i] = v[i] BY <1>12
    <3>2. i # 1 => a[i - 1] = v[i - 1]
      <4>1. i # 1 => i - 1 \in 1..m OBVIOUS
      <4> QED BY <4>1, <1>12
    <3> QED BY <2>6, <3>1, <3>2 DEF Next1
  <2>8. Feeds(s, k, a)
    <3>1. ASSUME NEW i \in 1..Len(a)
          PROVE  Next1(s, a, i) \/ (i = Len(a) /\ a[i] = AuthLost /\ k.pc \in {"closing", "closed"})
      <4>1. CASE i = m + 1 BY <4>1, <1>5, <1>8, <1>12
      <4>2. CASE i # m + 1
        <5>1. i \in 1..m BY <4>2, <1>12
        <5> QED BY <5>1, <2>7
      <4> QED BY <4>1, <4>2
    <3> QED BY <1>8, <2>2, <3>1 DEF Feeds
  <2>9. Quiet(v \o o.queue) => Quiet(a)
    <3>1. PICK f \in Seq(Frame) : f = v \o o.queue /\ Joined(v, o.queue, f) BY <1>4, Join
    <3>2. PICK n \in Nat : n = Len(o.queue) BY <1>4, LenProperties
    <3>3. Len(f) = m + n /\ \A i \in 1..m : i \in 1 .. m + n /\ f[i] = v[i]
      <4>1. \A i \in 1..m : i \in 1 .. m + n /\ i <= m OBVIOUS
      <4> QED BY <4>1, <1>11, <3>1, <3>2 DEF Joined
    <3>4. SUFFICES ASSUME Quiet(f), NEW i \in 1..Len(a) PROVE SavedOf(a[i]) \/ a[i] = AuthLost
      BY <3>1 DEF Quiet
    <3>5. CASE i = m + 1 BY <3>5, <1>5, <1>12
    <3>6. CASE i # m + 1
      <4>1. i \in 1..m BY <3>6, <1>12
      <4>2. a[i] = f[i] /\ i \in 1..Len(f) BY <4>1, <3>3, <1>12
      <4> QED BY <4>2, <3>4 DEF Quiet
    <3> QED BY <3>5, <3>6
  <2> QED BY <1>8, <2>1, <2>3, <2>4, <2>8, <2>9, Zenon DEF Watches
<1> QED BY <1>8, <1>9, <1>10, <1>14, <1>15, <1>16, ConnMoves

\* The connection turns to another line of its loop.
LEMMA OnlyPc ==
  ASSUME EventsInv, NEW c \in Conn, NEW o, NEW v, o = conn[c], v = wire[c], NEW pc,
         UNCHANGED <<row, ran, channel, subs, page, wire, revoked, cut>>,
         conn' = [conn EXCEPT ![c].pc = pc],
         \/ o.pc = "check" /\ pc = "send" /\ ~revoked
         \/ o.pc = "loop" /\ pc \in {"read", "closing"}
         \/ o.pc = "read" /\ pc = "loop"
  PROVE  EventsInv'
<1>0. /\ EventsAssumption /\ Counted
      /\ conn = [b \in Conn |-> conn[b]] /\ wire = [b \in Conn |-> wire[b]]
  BY DEF EventsInv, Streams
<1>3. ConnFits(o, v) BY DEF EventsInv, Streams
<1>4. o \in ConnType /\ v \in Seq(Frame) /\ o.queue \in Seq(Frame) BY <1>3 DEF ConnFits, ConnType
<1>7. PICK k : k = [o EXCEPT !.pc = pc] OBVIOUS
<1>8. /\ k \in ConnType /\ k.pc = pc /\ k.queue = o.queue /\ k.live = o.live /\ k.gone = o.gone /\ k.late = o.late
      /\ k.cursor = o.cursor
  BY <1>4, <1>7 DEF ConnType
<1>9. conn' = [b \in Conn |-> conn'[b]] /\ conn'[c] = k /\ \A b \in Conn \ {c} : conn'[b] = conn[b]
  BY <1>0, <1>7
<1>10. wire' = [b \in Conn |-> wire'[b]] /\ wire'[c] = v /\ \A b \in Conn \ {c} : wire'[b] = wire[b]
  BY <1>0
<1>14. ConnFits(k, v)
  <2>1. k.gone => v = <<>> /\ k.pc # "closed" BY <1>3, <1>8 DEF ConnFits
  <2>2. k.pc = "send" \/ ~revoked => k.late = 0 BY <1>3, <1>8 DEF ConnFits
  <2> QED BY <1>3, <1>8, <2>1, <2>2 DEF ConnFits
<1>15. Counted'
  <2>1. conn'[c].live = conn[c].live /\ subs' = subs BY <1>8, <1>9
  <2> QED BY <1>0, <1>9, <2>1, SameLive
<1>16. ASSUME NEW s, Watches(s, o, v) PROVE Watches(s, k, v)
  <2>1. PICK f : f = v \o o.queue /\ f = v \o k.queue BY <1>8
  <2>2. Feeds(s, o, f) /\ (s # None => Ahead(s) \/ (~o.live /\ Quiet(f))) BY <1>16, <2>1 DEF Watches
  <2>3. Feeds(s, k, f)
    <3>1. k.pc # "free" /\ ~k.gone BY <1>8, <2>2 DEF Feeds
    <3>2. k.live /\ k.pc # "closing" => At(s, f) = k.cursor /\ (f = <<>> => s # None) BY <1>8, <2>2 DEF Feeds
    <3>3. \A i \in 1..Len(f) : Next1(s, f, i) \/ (Len(f) = 1 /\ SavedOf(f[1]) /\ ~k.live) BY <1>8, <2>2 DEF Feeds
    <3> QED BY <3>1, <3>2, <3>3 DEF Feeds
  <2> QED BY <1>8, <2>1, <2>2, <2>3, Zenon DEF Watches
<1> QED BY <1>8, <1>9, <1>10, <1>14, <1>15, <1>16, ConnMoves

LEMMA CheckKeeps == ASSUME EventsInv, NEW c \in Conn, Check(c) PROVE EventsInv'
<1>1. PICK o : o = conn[c] OBVIOUS
<1>2. PICK v : v = wire[c] OBVIOUS
<1>3. o.pc = "check" /\ UNCHANGED <<row, ran, channel, subs, page, revoked, cut>> BY <1>1 DEF Check
<1>4. CASE revoked
  <2>1. Deliver(c, AuthLost) /\ conn' = [conn EXCEPT ![c].pc = "closing", ![c].queue = <<>>] BY <1>4 DEF Check
  <2> QED BY <1>1, <1>2, <1>3, <1>4, <2>1, SaysAuthLost
<1>5. CASE ~revoked
  <2>1. wire' = wire /\ conn' = [conn EXCEPT ![c].pc = "send"] BY <1>5 DEF Check
  <2> QED BY <1>1, <1>2, <1>3, <1>5, <2>1, OnlyPc
<1> QED BY <1>4, <1>5

LEMMA LoopKeeps == ASSUME EventsInv, NEW c \in Conn, Loop(c) PROVE EventsInv'
<1>1. PICK o : o = conn[c] OBVIOUS
<1>2. PICK v : v = wire[c] OBVIOUS
<1>3. PICK pc : pc = IF conn[c].gone THEN "closing" ELSE "read" OBVIOUS
<1>4. o.pc = "loop" /\ conn' = [conn EXCEPT ![c].pc = pc] /\ UNCHANGED <<row, ran, channel, subs, page, wire, revoked, cut>>
  BY <1>1, <1>3 DEF Loop, client
<1>5. pc \in {"read", "closing"} BY <1>3
<1> QED BY <1>1, <1>2, <1>4, <1>5, OnlyPc

LEMMA HeartbeatKeeps == ASSUME EventsInv, NEW c \in Conn, Heartbeat(c) PROVE EventsInv'
<1>1. PICK o : o = conn[c] OBVIOUS
<1>2. PICK v : v = wire[c] OBVIOUS
<1>3. o.pc = "read" /\ UNCHANGED <<row, ran, channel, subs, page, revoked, cut>> BY <1>1 DEF Heartbeat
<1>4. CASE revoked
  <2>1. Deliver(c, AuthLost) /\ conn' = [conn EXCEPT ![c].pc = "closing"] BY <1>4 DEF Heartbeat
  <2>2. ConnFits(o, v) /\ conn = [b \in Conn |-> conn[b]] BY <1>1, <1>2 DEF EventsInv, Streams
  <2>3. o.queue = <<>> /\ o \in ConnType BY <1>3, <2>2 DEF ConnFits
  <2>4. [o EXCEPT !.pc = "closing"] = [o EXCEPT !.pc = "closing", !.queue = <<>>] BY <2>3 DEF ConnType
  <2>5. conn' = [conn EXCEPT ![c].pc = "closing", ![c].queue = <<>>] BY <1>1, <2>1, <2>2, <2>4
  <2> QED BY <1>1, <1>2, <1>3, <1>4, <2>1, <2>5, SaysAuthLost
<1>5. CASE ~revoked
  <2>1. wire' = wire /\ conn' = [conn EXCEPT ![c].pc = "loop"] BY <1>5 DEF Heartbeat
  <2> QED BY <1>1, <1>2, <1>3, <1>5, <2>1, OnlyPc
<1> QED BY <1>4, <1>5

LEMMA SendKeeps == ASSUME EventsInv, NEW c \in Conn, Send(c) PROVE EventsInv'
<1>0. /\ EventsAssumption /\ Counted
      /\ conn = [b \in Conn |-> conn[b]] /\ wire = [b \in Conn |-> wire[b]]
  BY DEF EventsInv, Streams
<1>1. PICK o : o = conn[c] OBVIOUS
<1>2. PICK v : v = wire[c] OBVIOUS
<1>3. ConnFits(o, v) /\ o.pc = "send" BY <1>1, <1>2 DEF EventsInv, Streams, Send
<1>4. o \in ConnType /\ v \in Seq(Frame) /\ o.queue \in Seq(Frame) /\ o.queue # <<>> /\ o.late = 0
  BY <1>3 DEF ConnFits, ConnType
<1>5. UNCHANGED <<row, ran, channel, subs, page, revoked, cut>> BY DEF Send
<1>6. PICK q \in Seq(Frame) : q = o.queue /\ q # <<>> BY <1>4
<1>7. /\ Tail(q) \in Seq(Frame) /\ Append(v, Head(q)) \in Seq(Frame) /\ Head(q) = q[1] /\ 1 \in 1..Len(q)
      /\ Append(v, Head(q)) \o Tail(q) = v \o q
      /\ Len(Append(v, Head(q))) = Len(v) + 1
      /\ \A i \in 1..Len(v) : Append(v, Head(q))[i] = v[i]
      /\ Append(v, Head(q))[Len(v) + 1] = q[1]
      /\ Len(Tail(q)) = Len(q) - 1 /\ \A i \in 1..Len(Tail(q)) : i + 1 \in 1..Len(q) /\ Tail(q)[i] = q[i + 1]
  <2>1. v \in Seq(Frame) /\ q \in Seq(Frame) /\ q # <<>> BY <1>4, <1>6
  <2> QED BY <2>1, Passes, Zenon
<1>e. PICK e : e = Head(q) OBVIOUS
<1>8. /\ Tail(q) \in Seq(Frame) /\ Append(v, e) \in Seq(Frame) /\ e = q[1] /\ 1 \in 1..Len(q)
      /\ Append(v, e) \o Tail(q) = v \o q
      /\ Len(Append(v, e)) = Len(v) + 1
      /\ \A i \in 1..Len(v) : Append(v, e)[i] = v[i]
      /\ Append(v, e)[Len(v) + 1] = q[1]
      /\ Len(Tail(q)) = Len(q) - 1 /\ \A i \in 1..Len(Tail(q)) : i + 1 \in 1..Len(q) /\ Tail(q)[i] = q[i + 1]
  BY <1>7, <1>e, Zenon
<1>9. PICK t \in Seq(Frame) : t = Tail(q) BY <1>8
<1>10. PICK a \in Seq(Frame) : a = Append(v, e) BY <1>8
<1>11. PICK w : w = IF o.gone THEN v ELSE a OBVIOUS
<1>12. PICK pc : pc = IF EndsStream(c, e) THEN "closing" ELSE IF t = <<>> THEN "loop" ELSE "check" OBVIOUS
<1>13. PICK late \in {0, 1} : late = IF revoked THEN o.late + 1 ELSE o.late
  <2>1. (IF revoked THEN o.late + 1 ELSE o.late) \in {0, 1} BY <1>4
  <2> QED BY <2>1
<1>14. PICK k : k = [o EXCEPT !.queue = t, !.first = FALSE, !.late = late, !.pc = pc] OBVIOUS
<1>15. pc \in {"closing", "loop", "check"} /\ (~o.live => pc = "closing") /\ (pc = "loop" => t = <<>>) /\ (pc = "check" => t # <<>>)
  BY <1>1, <1>12 DEF EndsStream
<1>16. k \in ConnType BY <1>4, <1>14, <1>15 DEF ConnType
<1>17. /\ k.pc = pc /\ k.queue = t /\ k.live = o.live /\ k.gone = o.gone /\ k.late = late /\ k.cursor = o.cursor
  BY <1>4, <1>14 DEF ConnType
<1>18. conn' = [conn EXCEPT ![c].queue = t, ![c].first = FALSE, ![c].late = late, ![c].pc = pc]
  BY <1>1, <1>6, <1>e, <1>9, <1>12, <1>13 DEF Send
<1>19. conn' = [b \in Conn |-> conn'[b]] /\ conn'[c] = k /\ \A b \in Conn \ {c} : conn'[b] = conn[b]
  BY <1>0, <1>1, <1>14, <1>18
<1>20. wire' = [b \in Conn |-> wire'[b]] /\ wire'[c] = w /\ \A b \in Conn \ {c} : wire'[b] = wire[b]
  BY <1>0, <1>1, <1>2, <1>6, <1>e, <1>10, <1>11 DEF Send, Deliver
<1>21. PICK m \in Nat : m = Len(v) BY <1>4, LenProperties
<1>22. ConnFits(k, w)
  <2>1. w \in Seq(Frame) BY <1>4, <1>11
  <2>2. \A i \in 1..Len(q) : Sound(q[i]) BY <1>3, <1>6 DEF ConnFits
  <2>3. \A i \in 1..Len(w) : Sound(w[i])
    <3>1. \A i \in 1..m : Sound(v[i]) BY <1>3, <1>21 DEF ConnFits
    <3>2. Len(a) = m + 1 /\ (\A i \in 1..m : a[i] = v[i]) /\ a[m + 1] = q[1] BY <1>8, <1>10, <1>21
    <3>3. Sound(q[1]) BY <1>8, <2>2
    <3>4. ASSUME NEW i \in 1 .. m + 1 PROVE Sound(a[i])
      <4>1. CASE i \in 1..m BY <4>1, <3>1, <3>2
      <4>2. CASE i = m + 1 BY <4>2, <3>2, <3>3
      <4> QED BY <4>1, <4>2
    <3> QED BY <3>1, <3>2, <3>4, <1>11, <1>21
  <2>4. \A i \in 1..Len(t) : Sound(t[i]) BY <1>8, <1>9, <2>2
  <2>5. k.live => k.cursor <= seq /\ \A i \in 1..Len(t) : FromChannel(t[i])
    <3>1. o.live => o.cursor <= seq /\ \A i \in 1..Len(q) : FromChannel(q[i]) BY <1>3, <1>6 DEF ConnFits
    <3> QED BY <3>1, <1>8, <1>9, <1>17
  <2>6. k.gone => w = <<>> /\ k.pc # "closed" BY <1>3, <1>11, <1>15, <1>17 DEF ConnFits
  <2>7. k.pc = "send" \/ ~revoked => k.late = 0 BY <1>4, <1>13, <1>15, <1>17
  <2> QED BY <1>15, <1>16, <1>17, <2>1, <2>3, <2>4, <2>5, <2>6, <2>7 DEF ConnFits
<1>23. Counted'
  <2>1. conn'[c].live = conn[c].live /\ subs' = subs BY <1>1, <1>5, <1>17, <1>19
  <2> QED BY <1>0, <1>19, <2>1, SameLive
<1>24. ASSUME NEW s, Watches(s, o, v) PROVE Watches(s, k, w)
  <2>1. PICK f : f = v \o q OBVIOUS
  <2>2. Feeds(s, o, f) /\ (s # None => Ahead(s) \/ (~o.live /\ Quiet(f))) BY <1>24, <1>6, <2>1 DEF Watches
  <2>3. ~o.gone BY <2>2 DEF Feeds
  <2>4. w \o k.queue = f BY <1>8, <1>9, <1>10, <1>11, <1>17, <2>1, <2>3
  <2>5. Feeds(s, k, f)
    <3>1. k.pc # "free" /\ ~k.gone BY <1>15, <1>17, <2>3
    <3>2. k.live /\ k.pc # "closing" => At(s, f) = k.cursor /\ (f = <<>> => s # None) BY <1>3, <1>17, <2>2 DEF Feeds
    <3>3. \A i \in 1..Len(f) : Next1(s, f, i) \/ (Len(f) = 1 /\ SavedOf(f[1]) /\ ~k.live) BY <1>3, <1>17, <2>2 DEF Feeds
    <3> QED BY <3>1, <3>2, <3>3 DEF Feeds
  <2> QED BY <1>17, <2>2, <2>4, <2>5, Zenon DEF Watches
<1> QED BY <1>1, <1>2, <1>5, <1>19, <1>20, <1>22, <1>23, <1>24, ConnMoves

LEMMA ReadKeeps == ASSUME EventsInv, NEW c \in Conn, Read(c) PROVE EventsInv'
<1>0. /\ EventsAssumption /\ Counted /\ Channel
      /\ conn = [b \in Conn |-> conn[b]] /\ wire = [b \in Conn |-> wire[b]]
  BY DEF EventsInv, Streams
<1>1. PICK o : o = conn[c] OBVIOUS
<1>2. PICK v : v = wire[c] OBVIOUS
<1>3. ConnFits(o, v) /\ o.pc = "read" BY <1>1, <1>2 DEF EventsInv, Streams, Read
<1>4. /\ o \in ConnType /\ v \in Seq(Frame) /\ o.queue = <<>> /\ o.live = TRUE /\ o.cursor \in Nat /\ o.cursor <= seq
      /\ seq \in Nat /\ (~revoked => o.late = 0)
  BY <1>0, <1>3 DEF ConnFits, ConnType, Channel
<1>5. UNCHANGED <<row, ran, channel, subs, page, wire, revoked, cut>> BY DEF Read, client
<1>6. PICK n \in Nat : n = o.cursor /\ n <= seq BY <1>4
<1>7. PICK es \in Seq(Frame) : es = ReadAfter(n) /\ es # <<>> BY <1>0, <1>1, <1>6, ReadAfterIs DEF Read
<1>8. PICK l \in Nat : l = Len(es) /\ l >= 1 BY <1>7, LenProperties
<1>9. \/ l = 1 /\ SnapshotOf(es[1], past) /\ es[1].seq = seq
      \/ n + l = seq /\ \A i \in 1..l : EventOf(es[i], past) /\ es[i].seq = n + i
  BY <1>0, <1>6, <1>7, <1>8, ReadAfterIs
<1>10. es[l].seq = seq /\ l \in 1..l
  <2>1. l \in 1..l BY <1>8
  <2>2. CASE l = 1 /\ es[1].seq = seq BY <2>1, <2>2
  <2>3. CASE n + l = seq /\ \A i \in 1..l : es[i].seq = n + i BY <2>1, <2>3
  <2> QED BY <1>9, <2>1, <2>2, <2>3
<1>11. PICK k : k = [o EXCEPT !.pc = "check", !.queue = es, !.cursor = seq] OBVIOUS
<1>12. k \in ConnType BY <1>4, <1>11 DEF ConnType
<1>13. k.pc = "check" /\ k.queue = es /\ k.live = TRUE /\ k.gone = o.gone /\ k.late = o.late /\ k.cursor = seq
  BY <1>4, <1>11 DEF ConnType
<1>14. conn' = [conn EXCEPT ![c].pc = "check", ![c].queue = es, ![c].cursor = seq]
  BY <1>1, <1>6, <1>7, <1>8, <1>10 DEF Read, Last
<1>15. conn' = [b \in Conn |-> conn'[b]] /\ conn'[c] = k /\ \A b \in Conn \ {c} : conn'[b] = conn[b]
  BY <1>0, <1>1, <1>11, <1>14
<1>16. wire' = [b \in Conn |-> wire'[b]] /\ wire'[c] = v /\ \A b \in Conn \ {c} : wire'[b] = wire[b]
  BY <1>0, <1>2, <1>5
<1>17. ConnFits(k, v)
  <2>1. \A i \in 1..Len(es) : FromChannel(es[i]) BY <1>8, <1>9 DEF FromChannel
  <2>2. \A i \in 1..Len(es) : Sound(es[i]) BY <2>1 DEF FromChannel, Sound
  <2>3. \A i \in 1..Len(v) : Sound(v[i]) BY <1>3 DEF ConnFits
  <2>4. k.gone => v = <<>> BY <1>3, <1>13 DEF ConnFits
  <2>5. k.cursor <= seq BY <1>4, <1>13
  <2> QED BY <1>4, <1>7, <1>12, <1>13, <2>1, <2>2, <2>3, <2>4, <2>5 DEF ConnFits
<1>18. Counted'
  <2>1. conn'[c].live = conn[c].live /\ subs' = subs BY <1>1, <1>4, <1>5, <1>13, <1>15
  <2> QED BY <1>0, <1>15, <2>1, SameLive
<1>19. ASSUME NEW s, Shown(s), Watches(s, o, v) PROVE Watches(s, k, v)
  <2>1. v \o o.queue = v BY <1>4, ConcatEmptySeq
  <2>2. Feeds(s, o, v) /\ (s # None => Ahead(s)) BY <1>4, <1>19, <2>1 DEF Watches
  <2>3. ~o.gone /\ At(s, v) = n /\ (v = <<>> => s # None) BY <1>3, <1>4, <1>6, <2>2 DEF Feeds
  <2>4. \A i \in 1..Len(v) : Next1(s, v, i) BY <1>3, <1>4, <2>2 DEF Feeds
  <2>5. PICK f \in Seq(Frame) : f = v \o es /\ Joined(v, es, f) BY <1>4, Join
  <2>6. PICK m \in Nat : m = Len(v) BY <1>4, LenProperties
  <2>7. Len(f) = m + l /\ \A i \in 1 .. m + l : f[i] = IF i <= m THEN v[i] ELSE es[i - m]
    BY <1>8, <2>5, <2>6 DEF Joined
  <2>8. ASSUME NEW i \in 1..m PROVE Next1(s, f, i)
    BY <1>4, <2>4, <2>5, <2>6, Prefix
  <2>9. ASSUME NEW j \in 1..l PROVE f[m + j] = es[j] /\ m + j \in 1 .. m + l
    <3>1. PICK i \in 1 .. m + l : i = m + j
      <4>1. m + j \in 1 .. m + l OBVIOUS
      <4> QED BY <4>1
    <3>2. ~(i <= m) /\ i - m = j BY <3>1
    <3>3. f[i] = es[j] BY <2>7, <3>2
    <3> QED BY <3>1, <3>3
  <2>10. Next1(s, f, m + 1)
    <3>1. f[m + 1] = es[1] BY <1>8, <2>9
    <3>2. CASE m = 0
      <4>1. v = <<>>
        <5>1. Len(v) = 0 BY <2>6, <3>2
        <5> QED BY <5>1, <1>4, EmptySeq
      <4>2. s # None /\ s.seq = n BY <4>1, <2>3 DEF At
      <4>3. f[1] = es[1] /\ m + 1 = 1 BY <3>1, <3>2
      <4> QED BY <4>2, <4>3, <1>6, <1>8, <1>9 DEF Next1
    <3>3. CASE m # 0
      <4>1. f[m] = v[m] /\ m \in 1..m
        <5>1. m \in 1 .. m + l /\ m <= m /\ m \in 1..m BY <3>3
        <5> QED BY <5>1, <2>7
      <4>2. v # <<>> BY <2>6, <3>3
      <4>3. v[m].seq = n BY <4>2, <2>3, <2>6 DEF At
      <4>4. m + 1 # 1 /\ m + 1 - 1 = m BY <3>3
      <4>5. \/ SnapshotOf(es[1], past) /\ n <= es[1].seq
            \/ EventOf(es[1], past) /\ es[1].seq = n + 1
        BY <1>6, <1>8, <1>9
      <4> QED BY <3>1, <4>1, <4>3, <4>4, <4>5 DEF Next1
    <3> QED BY <3>2, <3>3
  <2>11. ASSUME NEW j \in 2..l PROVE Next1(s, f, m + j)
    <3>1. EventOf(es[j], past) /\ es[j].seq = n + j /\ es[j - 1].seq = n + (j - 1)
      <4>1. l # 1 /\ j \in 1..l /\ j - 1 \in 1..l OBVIOUS
      <4> QED BY <4>1, <1>9
    <3>2. f[m + j] = es[j] /\ f[m + (j - 1)] = es[j - 1]
      <4>1. j \in 1..l /\ j - 1 \in 1..l OBVIOUS
      <4> QED BY <4>1, <2>9
    <3>3. m + j # 1 /\ m + j - 1 = m + (j - 1) OBVIOUS
    <3>4. n + j = n + (j - 1) + 1 OBVIOUS
    <3>5. f[m + j - 1].seq = n + (j - 1) BY <3>1, <3>2, <3>3
    <3>6. f[m + j].seq = f[m + j - 1].seq + 1 BY <3>1, <3>2, <3>4, <3>5
    <3> QED BY <3>1, <3>2, <3>3, <3>6 DEF Next1
  <2>12. \A i \in 1..Len(f) : Next1(s, f, i)
    <3>1. TAKE i \in 1..Len(f)
    <3>2. CASE i <= m
      <4>1. i \in 1..m BY <3>2
      <4> QED BY <4>1, <2>8
    <3>3. CASE i = m + 1 BY <3>3, <2>10
    <3>4. CASE i > m + 1
      <4>1. PICK j \in 2..l : i = m + j
        <5>1. i - m \in 2..l /\ i = m + (i - m) BY <3>4, <2>7
        <5> QED BY <5>1
      <4> QED BY <4>1, <2>11
    <3> QED BY <3>2, <3>3, <3>4, <2>7
  <2>13. At(s, f) = seq /\ f # <<>>
    <3>1. f[m + l] = es[l] BY <1>10, <2>9
    <3>2. f # <<>> BY <1>8, <2>7
    <3> QED BY <3>1, <3>2, <1>10, <2>7 DEF At
  <2>14. Feeds(s, k, f) BY <1>13, <2>3, <2>12, <2>13 DEF Feeds
  <2> QED BY <1>13, <2>2, <2>5, <2>14, Zenon DEF Watches
<1> QED BY <1>1, <1>2, <1>5, <1>15, <1>16, <1>17, <1>18, <1>19, ConnMoves

LEMMA CloseKeeps == ASSUME EventsInv, NEW c \in Conn, Close(c) PROVE EventsInv'
<1>0. /\ EventsAssumption /\ Counted
      /\ conn = [b \in Conn |-> conn[b]] /\ wire = [b \in Conn |-> wire[b]]
  BY DEF EventsInv, Streams
<1>1. PICK o : o = conn[c] OBVIOUS
<1>2. PICK v : v = wire[c] OBVIOUS
<1>3. ConnFits(o, v) /\ o.pc = "closing" BY <1>1, <1>2 DEF EventsInv, Streams, Close
<1>4. o \in ConnType /\ v \in Seq(Frame) /\ o.live \in BOOLEAN /\ o.gone \in BOOLEAN BY <1>3 DEF ConnFits, ConnType
<1>5. UNCHANGED <<row, ran, channel, page, wire, revoked, cut>> BY DEF Close, client
<1>6. PICK k : k = IF o.gone THEN FreeConn ELSE [o EXCEPT !.pc = "closed", !.live = FALSE] OBVIOUS
<1>7. conn' = [conn EXCEPT ![c] = k] /\ subs' = IF o.live THEN subs - 1 ELSE subs
  BY <1>1, <1>6 DEF Close
<1>8. conn' = [b \in Conn |-> conn'[b]] /\ conn'[c] = k /\ \A b \in Conn \ {c} : conn'[b] = conn[b]
  BY <1>0, <1>7
<1>9. wire' = [b \in Conn |-> wire'[b]] /\ wire'[c] = v /\ \A b \in Conn \ {c} : wire'[b] = wire[b]
  BY <1>0, <1>2, <1>5
<1>10. k.live = FALSE BY <1>4, <1>6 DEF FreeConn, ConnType
<1>11. Counted'
  <2>1. CASE o.live
    <3>1. conn[c].live /\ ~conn'[c].live /\ subs' = subs - 1 BY <1>1, <1>7, <1>8, <1>10, <2>1
    <3>2. MaxSubscribers \in Nat BY <1>0 DEF EventsAssumption
    <3> QED BY <1>0, <1>8, <3>1, <3>2, OneLessLive
  <2>2. CASE ~o.live
    <3>1. conn'[c].live = conn[c].live /\ subs' = subs BY <1>1, <1>4, <1>7, <1>8, <1>10, <2>2
    <3> QED BY <1>0, <1>8, <3>1, SameLive
  <2> QED BY <2>1, <2>2
<1>12. CASE o.gone
  <2>1. k = FreeConn /\ v = <<>> BY <1>3, <1>6, <1>12 DEF ConnFits
  <2>2. ConnFits(k, v)
    <3>1. <<>> \in Seq(Frame) /\ Len(<<>>) = 0 OBVIOUS
    <3>2. /\ FreeConn \in ConnType /\ FreeConn.pc = "free" /\ FreeConn.queue = <<>> /\ FreeConn.live = FALSE
          /\ FreeConn.gone = FALSE /\ FreeConn.late = 0
      BY DEF FreeConn, ConnType
    <3> QED BY <2>1, <3>1, <3>2 DEF ConnFits
  <2>3. ASSUME NEW s PROVE ~Watches(s, o, v) BY <1>12 DEF Watches, Feeds
  <2> QED BY <1>1, <1>2, <1>5, <1>8, <1>9, <1>11, <2>2, <2>3, ConnMoves
<1>13. CASE ~o.gone
  <2>1. k = [o EXCEPT !.pc = "closed", !.live = FALSE] BY <1>6, <1>13
  <2>2. k \in ConnType BY <1>4, <2>1 DEF ConnType
  <2>3. k.pc = "closed" /\ k.live = FALSE /\ k.queue = o.queue /\ k.gone = o.gone /\ k.late = o.late
    BY <1>4, <2>1 DEF ConnType
  <2>4. ConnFits(k, v) BY <1>3, <1>13, <2>2, <2>3 DEF ConnFits
  <2>5. ASSUME NEW s, Watches(s, o, v) PROVE Watches(s, k, v)
    <3>1. PICK f : f = v \o o.queue /\ f = v \o k.queue BY <2>3
    <3>2. Feeds(s, o, f) /\ (s # None => Ahead(s) \/ (~o.live /\ Quiet(f))) BY <2>5, <3>1 DEF Watches
    <3>3. Feeds(s, k, f) BY <1>13, <2>3, <3>2 DEF Feeds
    <3> QED BY <2>3, <3>1, <3>2, <3>3, Zenon DEF Watches
  <2> QED BY <1>1, <1>2, <1>5, <1>8, <1>9, <1>11, <2>4, <2>5, ConnMoves
<1> QED BY <1>12, <1>13

LEMMA StreamKeeps == ASSUME EventsInv, NEW c \in Conn, Stream(c) PROVE EventsInv'
BY SubscribeKeeps, CheckKeeps, SendKeeps, LoopKeeps, ReadKeeps, HeartbeatKeeps, CloseKeeps DEF Stream

-----------------------------------------------------------------------------
(***************************************************************************)
(* The pages.                                                              *)
(***************************************************************************)

\* One page takes a step; the others watch on.
LEMMA PageMoves ==
  ASSUME EventsInv, UNCHANGED <<row, ran, channel, revoked>>, cut' \in 0..Outages,
         NEW p \in Page, NEW g, page' = [page EXCEPT ![p] = g], PageFits(g),
         Streams', Counted',
         \A q \in Page \ {p} : page[q].pc = "observing" =>
            /\ conn'[page[q].conn] = conn[page[q].conn] /\ wire'[page[q].conn] = wire[page[q].conn]
            /\ g.pc = "observing" => page[q].conn # g.conn,
         g.pc = "observing" => /\ Watches(g.state, conn'[g.conn], wire'[g.conn])
                               /\ \A q \in Page \ {p} : page[q].conn # g.conn
  PROVE  EventsInv'
<1>1. Still BY DEF Still, channel
<1>2. Later /\ Channel' BY <1>1, StillIsLater
<1>3. Rows' BY DEF EventsInv, Rows, channel
<1>4. page = [q \in Page |-> page[q]] /\ EventsAssumption BY DEF EventsInv, Pages
<1>5. page' = [q \in Page |-> page'[q]] /\ page'[p] = g /\ \A q \in Page \ {p} : page'[q] = page[q] BY <1>4
<1>6. ASSUME NEW q \in Page PROVE PageFits(page'[q]) /\ PageFits(page[q])'
  <2>1. PICK h : h = page'[q] OBVIOUS
  <2>2. PageFits(h)
    <3>1. CASE q = p BY <3>1, <2>1, <1>5
    <3>2. CASE q # p
      <4>1. h = page[q] BY <3>2, <2>1, <1>5
      <4> QED BY <4>1 DEF EventsInv, Pages
    <3> QED BY <3>1, <3>2
  <2>3. PageFits(h)' BY <1>2, <2>2, PageStays
  <2> QED BY <2>1, <2>2, <2>3, Zenon
<1>7. ASSUME NEW q \in Page, page'[q].pc = "observing"
      PROVE  Watches(page[q].state, conn[page[q].conn], wire[page[q].conn])'
  <2>1. PICK s : s = page'[q].state OBVIOUS
  <2>2. PICK b : b = page'[q].conn OBVIOUS
  <2>3. PICK j : j = conn'[b] OBVIOUS
  <2>4. PICK v : v = wire'[b] OBVIOUS
  <2>5. Watches(s, j, v)
    <3>1. CASE q = p
      <4>1. page'[q] = g BY <3>1, <1>5
      <4>2. s = g.state /\ j = conn'[g.conn] /\ v = wire'[g.conn] /\ g.pc = "observing"
        BY <4>1, <1>7, <2>1, <2>2, <2>3, <2>4
      <4> QED BY <4>2
    <3>2. CASE q # p
      <4>1. page'[q] = page[q] BY <3>2, <1>5
      <4>2. page[q].pc = "observing" /\ s = page[q].state /\ b = page[q].conn BY <4>1, <1>7, <2>1, <2>2
      <4>3. j = conn[b] /\ v = wire[b] BY <3>2, <4>2, <2>3, <2>4
      <4> QED BY <4>2, <4>3 DEF EventsInv, Pages
    <3> QED BY <3>1, <3>2
  <2>6. s # None => s.seq \in 0..seq
    <3>1. PageFits(page'[q]) BY <1>6
    <3> QED BY <3>1, <2>1 DEF PageFits, Mirrors
  <2>7. Watches(s, j, v)' BY <1>2, <2>5, <2>6, WatchesStays
  <2> QED BY <2>1, <2>2, <2>3, <2>4, <2>7, Zenon
<1>8. ASSUME NEW a \in Page, NEW b \in Page, a # b, page'[a].pc = "observing" PROVE page'[b].conn # page'[a].conn
  <2>1. CASE a = p
    <3>1. page'[a] = g /\ page'[b] = page[b] /\ b \in Page \ {p} BY <2>1, <1>5, <1>8
    <3> QED BY <3>1, <1>8
  <2>2. CASE a # p /\ b = p
    <3>1. page'[b] = g /\ page'[a] = page[a] /\ a \in Page \ {p} BY <2>2, <1>5
    <3>2. CASE g.pc = "observing" BY <3>1, <3>2, <1>8
    <3>3. CASE g.pc # "observing"
      <4>1. g.conn = None BY <3>3 DEF PageFits
      <4>2. page[a].conn # None BY <3>1, <1>8 DEF EventsInv, Pages, PageFits
      <4> QED BY <3>1, <4>1, <4>2
    <3> QED BY <3>2, <3>3
  <2>3. CASE a # p /\ b # p
    <3>1. page'[b] = page[b] /\ page'[a] = page[a] BY <2>3, <1>5
    <3> QED BY <3>1, <1>8 DEF EventsInv, Pages
  <2> QED BY <2>1, <2>2, <2>3
<1>9. Pages'
  <2>1. (page = [q \in Page |-> page[q]])' BY <1>5
  <2>2. (\A a, b \in Page : a # b /\ page[a].pc = "observing" => page[b].conn # page[a].conn)' BY <1>8
  <2>3. (\A q \in Page : PageFits(page[q]))' BY <1>6
  <2>4. (\A q \in Page : page[q].pc = "observing" =>
            Watches(page[q].state, conn[page[q].conn], wire[page[q].conn]))' BY <1>7
  <2> QED BY <2>1, <2>2, <2>3, <2>4, Zenon DEF Pages
<1> QED BY <1>2, <1>3, <1>4, <1>9 DEF EventsInv

\* Streams and their subscriptions, when one connection or its wire changes.
LEMMA StreamsMove ==
  ASSUME EventsInv, UNCHANGED <<row, ran, channel, revoked, subs>>, NEW c \in Conn, NEW k, NEW w,
         conn' = [conn EXCEPT ![c] = k], wire' = [wire EXCEPT ![c] = w],
         ConnFits(k, w), k.live = conn[c].live
  PROVE  /\ Streams' /\ Counted' /\ conn'[c] = k /\ wire'[c] = w
         /\ \A b \in Conn \ {c} : conn'[b] = conn[b] /\ wire'[b] = wire[b]
<1>1. Later BY StillIsLater DEF Still, channel
<1>2. conn = [b \in Conn |-> conn[b]] /\ wire = [b \in Conn |-> wire[b]] /\ Counted BY DEF EventsInv, Streams
<1>3. conn' = [b \in Conn |-> conn'[b]] /\ conn'[c] = k /\ \A b \in Conn \ {c} : conn'[b] = conn[b] BY <1>2
<1>4. wire' = [b \in Conn |-> wire'[b]] /\ wire'[c] = w /\ \A b \in Conn \ {c} : wire'[b] = wire[b] BY <1>2
<1>5. ASSUME NEW b \in Conn PROVE ConnFits(conn[b], wire[b])'
  <2>1. PICK j : j = conn'[b] OBVIOUS
  <2>2. PICK v : v = wire'[b] OBVIOUS
  <2>3. ConnFits(j, v)
    <3>1. CASE b = c BY <3>1, <2>1, <2>2, <1>3, <1>4
    <3>2. CASE b # c
      <4>1. j = conn[b] /\ v = wire[b] BY <3>2, <2>1, <2>2, <1>3, <1>4
      <4> QED BY <4>1 DEF EventsInv, Streams
    <3> QED BY <3>1, <3>2
  <2>4. ConnFits(j, v)' BY <1>1, <2>3, ConnStays
  <2> QED BY <2>1, <2>2, <2>4, Zenon
<1>6. Streams' BY <1>3, <1>4, <1>5, Zenon DEF Streams
<1>7. Counted'
  <2>1. conn'[c].live = conn[c].live /\ subs' = subs BY <1>3
  <2> QED BY <1>2, <1>3, <2>1, SameLive
<1> QED BY <1>3, <1>4, <1>6, <1>7

\* The page lets go of its connection.
LEMMA DropKeeps ==
  ASSUME EventsInv, UNCHANGED <<row, ran, channel, revoked, subs>>, NEW c \in Conn,
         conn[c].pc # "free", ~conn[c].gone, Drop(c)
  PROVE  Streams' /\ Counted' /\ \A b \in Conn \ {c} : conn'[b] = conn[b] /\ wire'[b] = wire[b]
<1>1. PICK o : o = conn[c] OBVIOUS
<1>2. PICK v : v = wire[c] OBVIOUS
<1>3. ConnFits(o, v) BY <1>1, <1>2 DEF EventsInv, Streams
<1>4. o \in ConnType /\ v \in Seq(Frame) BY <1>3 DEF ConnFits
<1>5. PICK k : k = IF o.pc = "closed" THEN FreeConn ELSE [o EXCEPT !.gone = TRUE] OBVIOUS
<1>6. conn' = [conn EXCEPT ![c] = k] /\ wire' = [wire EXCEPT ![c] = <<>>] BY <1>1, <1>5 DEF Drop
<1>a. <<>> \in Seq(Frame) /\ Len(<<>>) = 0 OBVIOUS
<1>7. CASE o.pc = "closed"
  <2>1. k = FreeConn BY <1>5, <1>7
  <2>2. /\ FreeConn \in ConnType /\ FreeConn.pc = "free" /\ FreeConn.queue = <<>> /\ FreeConn.live = FALSE
        /\ FreeConn.gone = FALSE /\ FreeConn.late = 0
    BY <1>a DEF FreeConn, ConnType
  <2>3. ConnFits(k, <<>>) BY <2>1, <2>2, <1>a DEF ConnFits
  <2>4. k.live = conn[c].live
    <3>1. o.live \in BOOLEAN BY <1>4 DEF ConnType
    <3>2. ~o.live BY <1>3, <1>7 DEF ConnFits
    <3> QED BY <2>1, <2>2, <3>1, <3>2, <1>1
  <2> QED BY <1>6, <2>3, <2>4, StreamsMove
<1>8. CASE o.pc # "closed"
  <2>1. k = [o EXCEPT !.gone = TRUE] BY <1>5, <1>8
  <2>2. k \in ConnType BY <1>4, <2>1 DEF ConnType
  <2>3. /\ k.pc = o.pc /\ k.live = o.live /\ k.queue = o.queue /\ k.gone = TRUE /\ k.late = o.late /\ k.view = o.view
        /\ k.cursor = o.cursor
    BY <1>4, <2>1 DEF ConnType
  <2>4. o.pc # "free" BY <1>1
  <2>5. ConnFits(k, <<>>) BY <1>3, <1>8, <1>a, <2>2, <2>3, <2>4 DEF ConnFits
  <2>6. k.live = conn[c].live BY <1>1, <2>3
  <2> QED BY <1>6, <2>5, <2>6, StreamsMove
<1> QED BY <1>7, <1>8

\* A page that observes no longer lets go of its connection.
LEMMA PageDrops ==
  ASSUME EventsInv, UNCHANGED <<row, ran, channel, revoked, subs>>, cut' \in 0..Outages,
         NEW p \in Page, page[p].pc = "observing", Drop(page[p].conn),
         NEW g, page' = [page EXCEPT ![p] = g], PageFits(g), g.pc # "observing"
  PROVE  EventsInv'
<1>1. PICK c : c = page[p].conn OBVIOUS
<1>2. PageFits(page[p]) /\ Watches(page[p].state, conn[c], wire[c]) BY <1>1 DEF EventsInv, Pages
<1>3. c \in Conn BY <1>1, <1>2 DEF PageFits, PageType
<1>4. conn[c].pc # "free" /\ ~conn[c].gone BY <1>2 DEF Watches, Feeds
<1>5. Drop(c) BY <1>1
<1>6. Streams' /\ Counted' /\ \A b \in Conn \ {c} : conn'[b] = conn[b] /\ wire'[b] = wire[b]
  BY <1>3, <1>4, <1>5, DropKeeps
<1>7. ASSUME NEW q \in Page \ {p}, page[q].pc = "observing"
      PROVE  conn'[page[q].conn] = conn[page[q].conn] /\ wire'[page[q].conn] = wire[page[q].conn]
  <2>1. PageFits(page[q]) /\ page[q].conn # c BY <1>1, <1>7 DEF EventsInv, Pages
  <2>2. page[q].conn \in Conn BY <2>1, <1>7 DEF PageFits, PageType
  <2> QED BY <2>1, <2>2, <1>6
<1> QED BY <1>6, <1>7, PageMoves

\* A page that stops observing keeps what it shows.
LEMMA GoesFits ==
  ASSUME NEW o, PageFits(o), o.pc \in {"connecting", "observing"}, NEW pc \in {"connecting", "denied", "left"}
  PROVE  /\ PageFits([o EXCEPT !.pc = pc, !.conn = None])
         /\ [o EXCEPT !.pc = pc, !.conn = None].pc # "observing"
<1>1. PICK g : g = [o EXCEPT !.pc = pc, !.conn = None] OBVIOUS
<1>2. o \in PageType BY DEF PageFits
<1>3. g \in PageType /\ g.pc = pc /\ g.conn = None /\ g.state = o.state BY <1>1, <1>2 DEF PageType
<1>4. PageFits(g) BY <1>3 DEF PageFits
<1> QED BY <1>1, <1>3, <1>4

\* The observation ends or starts again.
LEMMA PageGoes ==
  ASSUME EventsInv, UNCHANGED <<row, ran, channel, revoked, subs>>, cut' \in 0..Outages,
         NEW p \in Page, page[p].pc = "observing", Drop(page[p].conn),
         NEW pc \in {"connecting", "denied", "left"}, GoPage(p, pc)
  PROVE  EventsInv'
<1>1. PICK o : o = page[p] OBVIOUS
<1>2. PageFits(o) BY <1>1 DEF EventsInv, Pages
<1>3. PICK g : g = [o EXCEPT !.pc = pc, !.conn = None] OBVIOUS
<1>4. PageFits(g) /\ g.pc # "observing" BY <1>1, <1>2, <1>3, GoesFits
<1>5. page' = [page EXCEPT ![p] = g] BY <1>1, <1>3 DEF GoPage
<1> QED BY <1>4, <1>5, PageDrops

\* A page without a connection ends.
LEMMA PageEnds ==
  ASSUME EventsInv, UNCHANGED <<row, ran, channel, revoked, subs, conn, wire, cut>>,
         NEW p \in Page, page[p].pc = "connecting", NEW pc \in {"denied", "left"}, GoPage(p, pc)
  PROVE  EventsInv'
<1>1. PICK o : o = page[p] OBVIOUS
<1>2. PageFits(o) BY <1>1 DEF EventsInv, Pages
<1>3. PICK g : g = [o EXCEPT !.pc = pc, !.conn = None] OBVIOUS
<1>4. PageFits(g) /\ g.pc # "observing" BY <1>1, <1>2, <1>3, GoesFits
<1>5. page' = [page EXCEPT ![p] = g] BY <1>1, <1>3 DEF GoPage
<1>6. Later BY StillIsLater DEF Still, channel
<1>7. ASSUME NEW c \in Conn PROVE ConnFits(conn[c], wire[c])'
  <2>1. PICK k : k = conn[c] OBVIOUS
  <2>2. PICK w : w = wire[c] OBVIOUS
  <2>3. ConnFits(k, w)' BY <1>6, <2>1, <2>2, ConnStays DEF EventsInv, Streams
  <2>4. conn'[c] = k /\ wire'[c] = w BY <2>1, <2>2
  <2> QED BY <2>3, <2>4, Zenon
<1>8. Streams'
  <2>1. (conn = [c \in Conn |-> conn[c]] /\ wire = [c \in Conn |-> wire[c]])' BY DEF EventsInv, Streams
  <2> QED BY <1>7, <2>1, Zenon DEF Streams
<1>9. Counted'
  <2>1. Live' = Live /\ subs' = subs BY DEF Live
  <2> QED BY <2>1 DEF EventsInv, Counted
<1>10. cut' \in 0..Outages BY DEF EventsInv, Rows
<1>11. conn' = conn /\ wire' = wire OBVIOUS
<1> QED BY <1>4, <1>5, <1>8, <1>9, <1>10, <1>11, PageMoves

LEMMA ConnectKeeps == ASSUME EventsInv, NEW p \in Page, NEW c \in Conn, Connect(p, c) PROVE EventsInv'
<1>1. page[p].pc = "connecting" /\ conn[c] = FreeConn /\ UNCHANGED <<row, ran, channel, subs, wire, revoked, cut>>
  BY DEF Connect
<1>2. CASE revoked
  <2>1. GoPage(p, "denied") /\ UNCHANGED conn BY <1>2 DEF Connect
  <2> QED BY <1>1, <2>1, PageEnds
<1>3. CASE ~revoked
  <2>1. PICK o : o = page[p] OBVIOUS
  <2>2. PageFits(o) /\ o \in PageType /\ o.pc = "connecting" BY <1>1, <2>1 DEF EventsInv, Pages, PageFits
  <2>3. PICK g : g = [o EXCEPT !.pc = "observing", !.conn = c] OBVIOUS
  <2>4. g \in PageType /\ g.pc = "observing" /\ g.conn = c /\ g.state = o.state BY <2>2, <2>3 DEF PageType
  <2>5. c # None BY DEF EventsInv, EventsAssumption
  <2>6. PageFits(g) BY <2>2, <2>4, <2>5 DEF PageFits
  <2>7. page' = [page EXCEPT ![p] = g] BY <1>3, <2>1, <2>3 DEF Connect
  <2>8. PICK k : k = [FreeConn EXCEPT !.pc = "view", !.view = row] OBVIOUS
  <2>9. conn' = [conn EXCEPT ![c] = k] BY <1>1, <1>3, <2>8 DEF Connect
  <2>10. row \in RowType BY DEF EventsInv, Rows
  <2>a. PICK free \in ConnType : free = FreeConn
    <3>1. <<>> \in Seq(Frame) OBVIOUS
    <3>2. FreeConn \in ConnType BY <3>1 DEF ConnType, FreeConn
    <3> QED BY <3>2
  <2>11. k \in ConnType
    <3>1. k = [free EXCEPT !.pc = "view", !.view = row] BY <2>8, <2>a
    <3> QED BY <3>1, <2>10 DEF ConnType
  <2>12. k.pc = "view" /\ k.live = FALSE /\ k.queue = <<>> /\ k.gone = FALSE /\ k.late = 0 /\ k.view = row
    BY <2>8 DEF FreeConn
  <2>13. ConnFits(conn[c], wire[c]) /\ wire = [b \in Conn |-> wire[b]] BY DEF EventsInv, Streams
  <2>14. wire[c] = <<>>
    <3>1. conn[c].pc = "free" BY <1>1 DEF FreeConn
    <3> QED BY <2>13, <3>1 DEF ConnFits
  <2>15. wire' = [wire EXCEPT ![c] = <<>>] BY <1>1, <2>13, <2>14
  <2>16. ConnFits(k, <<>>)
    <3>1. <<>> \in Seq(Frame) /\ Len(<<>>) = 0 OBVIOUS
    <3>2. WasRow(row) BY <2>10 DEF WasRow
    <3> QED BY <2>11, <2>12, <3>1, <3>2 DEF ConnFits
  <2>17. k.live = conn[c].live
    <3>1. FreeConn.live = FALSE BY DEF FreeConn
    <3> QED BY <1>1, <2>12, <3>1, Zenon
  <2>18. /\ Streams' /\ Counted' /\ conn'[c] = k /\ wire'[c] = <<>>
         /\ \A b \in Conn \ {c} : conn'[b] = conn[b] /\ wire'[b] = wire[b]
    BY <1>1, <2>9, <2>15, <2>16, <2>17, StreamsMove
  <2>19. ASSUME NEW q \in Page \ {p} PROVE page[q].conn # c
    <3>1. PageFits(page[q]) BY <2>19 DEF EventsInv, Pages
    <3>2. CASE page[q].pc = "observing"
      <4>1. Watches(page[q].state, conn[page[q].conn], wire[page[q].conn]) BY <3>2, <2>19 DEF EventsInv, Pages
      <4>2. conn[page[q].conn].pc # "free" BY <4>1 DEF Watches, Feeds
      <4>3. conn[c].pc = "free" BY <1>1 DEF FreeConn
      <4> QED BY <4>2, <4>3
    <3>3. CASE page[q].pc # "observing" BY <3>1, <3>3, <2>5 DEF PageFits
    <3> QED BY <3>2, <3>3
  <2>20. ASSUME NEW q \in Page \ {p}, page[q].pc = "observing"
         PROVE  conn'[page[q].conn] = conn[page[q].conn] /\ wire'[page[q].conn] = wire[page[q].conn]
    <3>1. PageFits(page[q]) BY <2>20 DEF EventsInv, Pages
    <3>2. page[q].conn \in Conn \ {c} BY <3>1, <2>19, <2>20 DEF PageFits, PageType
    <3> QED BY <3>2, <2>18
  <2>21. Watches(g.state, k, <<>>)
    <3>1. <<>> \o k.queue = <<>> BY <2>12
    <3>2. Feeds(g.state, k, <<>>) BY <2>12 DEF Feeds
    <3>3. Quiet(<<>>) BY DEF Quiet
    <3> QED BY <2>12, <3>1, <3>2, <3>3, Zenon DEF Watches
  <2>22. cut' \in 0..Outages BY <1>1 DEF EventsInv, Rows
  <2>23. Watches(g.state, conn'[g.conn], wire'[g.conn]) BY <2>4, <2>18, <2>21
  <2>24. \A q \in Page \ {p} : page[q].conn # g.conn BY <2>4, <2>19
  <2> QED BY <1>1, <2>6, <2>7, <2>18, <2>20, <2>22, <2>23, <2>24, PageMoves
<1> QED BY <1>2, <1>3

LEMMA EndOfStreamKeeps == ASSUME EventsInv, NEW p \in Page, EndOfStream(p) PROVE EventsInv'
<1>1. /\ page[p].pc = "observing" /\ Drop(page[p].conn) /\ GoPage(p, "connecting")
      /\ UNCHANGED <<row, ran, channel, subs, revoked, cut>>
  BY DEF EndOfStream
<1>2. cut' \in 0..Outages BY <1>1 DEF EventsInv, Rows
<1> QED BY <1>1, <1>2, PageGoes

LEMMA OutageKeeps == ASSUME EventsInv, NEW p \in Page, Outage(p) PROVE EventsInv'
<1>1. /\ page[p].pc = "observing" /\ Drop(page[p].conn) /\ GoPage(p, "connecting")
      /\ UNCHANGED <<row, ran, channel, subs, revoked>> /\ cut < Outages /\ cut' = cut + 1
  BY DEF Outage
<1>2. cut' \in 0..Outages BY <1>1 DEF EventsInv, Rows, EventsAssumption
<1> QED BY <1>1, <1>2, PageGoes

LEMMA LeaveKeeps == ASSUME EventsInv, NEW p \in Page, Leave(p) PROVE EventsInv'
<1>1. /\ page[p].pc \in {"connecting", "observing"} /\ GoPage(p, "left")
      /\ IF page[p].conn = None THEN UNCHANGED <<conn, wire>> ELSE Drop(page[p].conn)
      /\ UNCHANGED <<row, ran, channel, subs, revoked, cut>>
  BY DEF Leave
<1>2. PageFits(page[p]) BY DEF EventsInv, Pages
<1>3. CASE page[p].pc = "observing"
  <2>1. Drop(page[p].conn) BY <1>1, <1>2, <1>3 DEF PageFits
  <2>2. cut' \in 0..Outages BY <1>1 DEF EventsInv, Rows
  <2> QED BY <1>1, <1>3, <2>1, <2>2, PageGoes
<1>4. CASE page[p].pc = "connecting"
  <2>1. UNCHANGED <<conn, wire>> BY <1>1, <1>2, <1>4 DEF PageFits
  <2> QED BY <1>1, <1>4, <2>1, PageEnds
<1> QED BY <1>1, <1>3, <1>4

\* The process dies: every connection is free again, every page that observes
\* connects again, and the row is given up.
LEMMA RestartKeeps == ASSUME EventsInv, Restart PROVE EventsInv'
<1>1. /\ cut < Outages /\ cut' = cut + 1 /\ chan' = "dropped" /\ subs' = 0
      /\ row' = IF row.status \in Active THEN [row EXCEPT !.status = "unconfirmed"] ELSE row
      /\ conn' = [c \in Conn |-> FreeConn] /\ wire' = [c \in Conn |-> <<>>]
      /\ UNCHANGED <<ran, seq, state, ring, past, revoked>>
  BY DEF Restart
<1>2. Rows /\ EventsAssumption /\ Channel BY DEF EventsInv
<1>3. past \in Seq(StateType) /\ seq \in Nat /\ Len(past) = seq + 1 BY <1>2 DEF Channel, Grows
<1>4. row' \in RowType /\ row'.status # "accepted" /\ (row.status \notin Active => row' = row)
  <2>1. row \in RowType BY <1>2 DEF Rows
  <2>2. CASE row.status \in Active
    <3>1. row' = [row EXCEPT !.status = "unconfirmed"] BY <1>1, <2>2
    <3> QED BY <2>1, <2>2, <3>1 DEF RowType, Statuses, Terminal
  <2>3. CASE row.status \notin Active
    <3>1. row' = row BY <1>1, <2>3
    <3> QED BY <2>1, <2>3, <3>1 DEF Active
  <2> QED BY <2>2, <2>3
<1>5. row.status \in Confirmed => row' = row BY <1>4 DEF Active, Confirmed
<1>6. Rows'
  <2>1. cut' \in 0..Outages BY <1>1, <1>2 DEF Rows, EventsAssumption
  <2>2. \A i \in 1..Len(past') : past'[i].status = "running" => ran' BY <1>1, <1>2 DEF Rows
  <2>3. \A i \in 1..Len(past') : past'[i].status \in Confirmed => past'[i].status = row'.status
    <3>1. ASSUME NEW i \in 1..Len(past), past[i].status \in Confirmed PROVE past[i].status = row'.status
      <4>1. past[i].status = row.status BY <3>1, <1>2 DEF Rows
      <4> QED BY <3>1, <4>1, <1>5
    <3> QED BY <3>1, <1>1
  <2>4. ran' \in BOOLEAN /\ revoked' \in BOOLEAN BY <1>1, <1>2 DEF Rows
  <2> QED BY <1>1, <1>4, <2>1, <2>2, <2>3, <2>4 DEF Rows
<1>7. Later
  <2>1. <<>> \in Seq(StateType) /\ past \o <<>> = past BY <1>3, ConcatEmptySeq
  <2>2. \E t \in Seq(StateType) : past' = past \o t BY <1>1, <2>1
  <2>3. seq' \in Nat /\ seq <= seq' BY <1>1, <1>3
  <2>4. Unrun => Unrun' BY <1>1, <1>4 DEF Unrun
  <2>5. row.status \in Confirmed => row'.status = row.status BY <1>5
  <2>6. /\ chan = "dropped" => chan' = "dropped"
        /\ chan' = "none" => chan = "none" /\ (row.status = "accepted" \/ row'.status = row.status)
        /\ revoked => revoked'
    BY <1>1
  <2> QED BY <1>3, <2>2, <2>3, <2>4, <2>5, <2>6, Zenon DEF Later
<1>8. Channel' BY <1>1, <1>2 DEF Channel, Grows, Fits
<1>9. Streams'
  <2>1. conn' = [c \in Conn |-> conn'[c]] /\ wire' = [c \in Conn |-> wire'[c]] BY <1>1
  <2>2. ASSUME NEW c \in Conn PROVE ConnFits(conn[c], wire[c])'
    <3>1. PICK k : k = FreeConn OBVIOUS
    <3>2. PICK w : w = <<>> OBVIOUS
    <3>3. <<>> \in Seq(Frame) /\ Len(<<>>) = 0 OBVIOUS
    <3>4. FreeConn \in ConnType BY <3>3 DEF FreeConn, ConnType
    <3>5. /\ FreeConn.pc = "free" /\ FreeConn.queue = <<>> /\ FreeConn.live = FALSE
          /\ FreeConn.gone = FALSE /\ FreeConn.late = 0
      BY DEF FreeConn
    <3>6. ConnFits(k, w) BY <3>1, <3>2, <3>3, <3>4, <3>5 DEF ConnFits
    <3>7. ConnFits(k, w)' BY <1>7, <3>6, ConnStays
    <3>8. conn'[c] = k /\ wire'[c] = w BY <1>1, <3>1, <3>2
    <3> QED BY <3>7, <3>8, Zenon
  <2> QED BY <2>1, <2>2, Zenon DEF Streams
<1>10. Counted'
  <2>1. ASSUME NEW c \in Conn PROVE ~conn'[c].live
    <3>1. conn'[c] = FreeConn /\ FreeConn.live = FALSE BY <1>1 DEF FreeConn
    <3> QED BY <3>1
  <2>2. Live' = {} BY <2>1 DEF Live
  <2>3. IsFiniteSet({}) /\ Cardinality({}) = 0 BY FS_EmptySet
  <2> QED BY <1>1, <1>2, <2>2, <2>3 DEF Counted, EventsAssumption
<1>11. ASSUME NEW p \in Page PROVE page'[p].pc # "observing" /\ PageFits(page[p])'
  <2>1. PICK o : o = page[p] OBVIOUS
  <2>2. PageFits(o) BY <2>1 DEF EventsInv, Pages
  <2>3. PICK g : g = page'[p] OBVIOUS
  <2>4. g.pc # "observing" /\ PageFits(g)
    <3>1. CASE o.pc = "observing"
      <4>1. g = [o EXCEPT !.pc = "connecting", !.conn = None] BY <3>1, <2>1, <2>3 DEF Restart
      <4> QED BY <2>2, <3>1, <4>1, GoesFits
    <3>2. CASE o.pc # "observing"
      <4>1. g = o BY <3>2, <2>1, <2>3 DEF Restart
      <4> QED BY <2>2, <3>2, <4>1
    <3> QED BY <3>1, <3>2
  <2>5. PageFits(g)' BY <1>7, <2>4, PageStays
  <2> QED BY <2>3, <2>4, <2>5, Zenon
<1>12. Pages'
  <2>1. page' = [p \in Page |-> page'[p]] BY DEF Restart
  <2>2. (\A p, q \in Page : p # q /\ page[p].pc = "observing" => page[q].conn # page[p].conn)' BY <1>11
  <2>3. (\A p \in Page : page[p].pc = "observing" =>
            Watches(page[p].state, conn[page[p].conn], wire[page[p].conn]))' BY <1>11
  <2>4. (\A p \in Page : PageFits(page[p]))' BY <1>11
  <2> QED BY <2>1, <2>2, <2>3, <2>4, Zenon DEF Pages
<1> QED BY <1>2, <1>6, <1>8, <1>9, <1>10, <1>12 DEF EventsInv

-----------------------------------------------------------------------------
(***************************************************************************)
(* The reducer.                                                            *)
(***************************************************************************)

\* What a page shows is the channel's state at its sequence, but for the status.
LEMMA ShownFields ==
  ASSUME Channel, NEW s \in PageState, Mirrors(s)
  PROVE  /\ s.seq \in Nat /\ s.seq <= seq /\ s.seq + 1 \in 1..Len(past) /\ past[s.seq + 1] \in StateType
         /\ s.st \in StateType
         /\ s.st.stage = past[s.seq + 1].stage /\ s.st.done = past[s.seq + 1].done
         /\ s.st.total = past[s.seq + 1].total /\ s.st.gen = past[s.seq + 1].gen
         /\ s.st.draft = past[s.seq + 1].draft
<1>1. past \in Seq(StateType) /\ seq \in Nat /\ Len(past) = seq + 1 BY DEF Channel, Grows
<1>2. s.seq \in Nat /\ s.seq <= seq /\ s.seq + 1 \in 1..Len(past) BY <1>1 DEF Mirrors
<1>3. PICK t \in StateType : t = past[s.seq + 1] BY <1>1, <1>2, ElementOfSeq
<1>4. PICK u \in StateType : u = s.st BY DEF PageState
<1>5. u = [t EXCEPT !.status = u.status, !.reason = u.reason] BY <1>3, <1>4 DEF Mirrors
<1>6. u.stage = t.stage /\ u.done = t.done /\ u.total = t.total /\ u.gen = t.gen /\ u.draft = t.draft
  BY <1>5 DEF StateType
<1> QED BY <1>2, <1>3, <1>4, <1>6

\* The other way round.
LEMMA ShowsMirrors ==
  ASSUME Channel, NEW n \in 0..seq, NEW st \in StateType,
         st.stage = past[n + 1].stage, st.done = past[n + 1].done,
         st.total = past[n + 1].total, st.gen = past[n + 1].gen, st.draft = past[n + 1].draft,
         st.status \in Confirmed => st.status = row.status
  PROVE  /\ [seq |-> n, st |-> st] \in PageState
         /\ Mirrors([seq |-> n, st |-> st])
         /\ [seq |-> n, st |-> st].seq = n /\ [seq |-> n, st |-> st].st = st
<1>1. past \in Seq(StateType) /\ seq \in Nat /\ Len(past) = seq + 1 BY DEF Channel, Grows
<1>2. n \in Nat /\ n + 1 \in 1..Len(past) BY <1>1
<1>3. PICK t \in StateType : t = past[n + 1] BY <1>1, <1>2, ElementOfSeq
<1>4. PICK r : r = [seq |-> n, st |-> st] OBVIOUS
<1>5. r \in PageState /\ r.seq = n /\ r.st = st BY <1>2, <1>4 DEF PageState
<1>6. st = [t EXCEPT !.status = st.status, !.reason = st.reason]
  <2>1. PICK u \in StateType : u = [t EXCEPT !.status = st.status, !.reason = st.reason] BY DEF StateType
  <2>2. /\ u.status = st.status /\ u.reason = st.reason /\ u.stage = t.stage /\ u.done = t.done
        /\ u.total = t.total /\ u.gen = t.gen /\ u.draft = t.draft
    BY <2>1 DEF StateType
  <2>3. u = st BY <2>2, <1>3 DEF StateType
  <2> QED BY <2>1, <2>3
<1>7. Mirrors(r)
  <2>1. r.seq \in 0..seq /\ past[r.seq + 1] = t BY <1>3, <1>5
  <2>2. r.st = [past[r.seq + 1] EXCEPT !.status = r.st.status, !.reason = r.st.reason] BY <1>5, <1>6, <2>1
  <2>3. r.st.status \in Confirmed => r.st.status = row.status BY <1>5
  <2> QED BY <2>1, <2>2, <2>3 DEF Mirrors
<1> QED BY <1>4, <1>5, <1>7, Zenon

\* A page ahead of the channel is still not ahead of a later state.
LEMMA NotAhead ==
  ASSUME EventsAssumption, Channel, Rows, NEW s \in PageState, Mirrors(s), Ahead(s), s.st.status \notin Terminal,
         NEW n \in 0..seq, s.seq < n
  PROVE  /\ n + 1 \in 1..Len(past) /\ past[n + 1] \in StateType
         /\ Rank[past[n + 1].status] >= Rank[s.st.status]
         /\ past[n + 1].stage >= s.st.stage /\ past[n + 1].done >= s.st.done
         /\ s.st.total # 0 => past[n + 1].total = s.st.total
         /\ past[n + 1].gen >= s.st.gen
<1>1. past \in Seq(StateType) /\ seq \in Nat /\ Len(past) = seq + 1 BY DEF Channel, Grows
<1>2. PICK i \in 1..Len(past) : i = s.seq + 1 BY ShownFields
<1>3. PICK j \in 1..Len(past) : j = n + 1 BY <1>1
<1>4. i <= j /\ j \in 2..Len(past)
  <2>1. s.seq \in Nat /\ n \in Nat BY <1>1 DEF PageState
  <2> QED BY <2>1, <1>2, <1>3
<1>5. Upto(past[i], past[j]) BY <1>4 DEF Channel, Grows
<1>6. PICK a \in StateType : a = past[i] BY <1>1, <1>2, ElementOfSeq
<1>7. PICK b \in StateType : b = past[j] BY <1>1, <1>3, ElementOfSeq
<1>8. /\ s.st.stage = a.stage /\ s.st.done = a.done /\ s.st.total = a.total /\ s.st.gen = a.gen
      /\ s.st \in StateType
  BY <1>2, <1>6, ShownFields
<1>9. ~Regresses(a, b) /\ a.gen <= b.gen BY <1>5, <1>6, <1>7 DEF Upto
<1>10. /\ a.status \in Statuses /\ b.status \in Statuses /\ a.stage \in Nat /\ b.stage \in Nat
       /\ a.done \in Nat /\ b.done \in Nat /\ a.gen \in Nat /\ b.gen \in Nat
  BY StateFields DEF Statuses
<1>11. /\ Rank[b.status] >= Rank[a.status] /\ b.stage >= a.stage /\ b.done >= a.done
       /\ (a.total # 0 => b.total = a.total) /\ b.gen >= a.gen
  <2>1. Rank[b.status] \in Nat /\ Rank[a.status] \in Nat BY <1>10 DEF Rank, Statuses, Active, Terminal, Confirmed
  <2> QED BY <1>9, <1>10, <2>1 DEF Regresses
<1>12. Rank[b.status] >= Rank[s.st.status]
  <2>1. CASE s.st.status = a.status BY <2>1, <1>11
  <2>2. CASE s.st.status # a.status
    <3>1. s.st.status = "stopping" /\ Unrun BY <2>2, <1>2, <1>6 DEF Ahead
    <3>2. b.status # "running" BY <3>1, <1>3, <1>7 DEF Rows, Unrun
    <3>3. b.status # "accepted" BY <1>4, <1>7 DEF Channel, Grows
    <3> QED BY <1>10, <3>1, <3>2, <3>3 DEF Rank, Statuses, Active, Terminal, Confirmed
  <2> QED BY <2>1, <2>2
<1> QED BY <1>3, <1>7, <1>8, <1>11, <1>12

\* The reducer takes frame e: a page that showed s shows r.
Reduced(s, e, r) ==
  /\ Reduce(s, e).again = FALSE /\ Reduce(s, e).state = r
  /\ r \in PageState /\ Mirrors(r)

LEMMA NoneIsNoState == ASSUME EventsAssumption, NEW s \in PageState PROVE s # None
BY DEF EventsAssumption, PageState

\* The next event is taken.
LEMMA ReducesEvent ==
  ASSUME EventsAssumption, Channel, Rows, NEW s \in PageState, Mirrors(s), Ahead(s), s.st.status \notin Terminal,
         NEW e, EventOf(e, past), e.seq = s.seq + 1
  PROVE  \E r : Reduced(s, e, r) /\ Ahead(r) /\ r.seq = e.seq
<1>1. past \in Seq(StateType) /\ seq \in Nat /\ Len(past) = seq + 1 BY DEF Channel, Grows
<1>2. PICK n \in 0..seq : n = e.seq /\ n = s.seq + 1 /\ s.seq < n
  <2>1. e.seq \in 1..seq BY <1>1 DEF EventOf
  <2> QED BY <2>1, <1>1 DEF PageState
<1>3. PICK a \in StateType : a = past[s.seq + 1] /\ a = past[n] BY <1>2, ShownFields
<1>4. PICK b \in StateType : b = past[n + 1]
  <2>1. n + 1 \in 1..Len(past) BY <1>1
  <2> QED BY <1>1, <2>1, ElementOfSeq
<1>5. Leads(a, e, b) /\ (n = 1 => "status" \in DOMAIN e.body) BY <1>2, <1>3, <1>4 DEF EventOf
<1>6. PICK c \in StateType : c = s.st BY DEF PageState
<1>7. c.stage = a.stage /\ c.done = a.done /\ c.total = a.total /\ c.gen = a.gen /\ c.draft = a.draft
  BY <1>3, <1>6, ShownFields
<1>8. /\ b.status = Or(e.body, "status", a.status) /\ b.reason = Or(e.body, "reason", a.reason)
      /\ b.stage = Or(e.body, "stage", a.stage) /\ b.done = Or(e.body, "done", a.done)
      /\ b.total = Or(e.body, "total", a.total) /\ b.gen = e.gen /\ b.draft = DraftAfter(a.draft, e)
  BY <1>5 DEF Leads, After
<1>9. b.status = Or(e.body, "status", c.status)
  <2>1. CASE c.status = a.status BY <2>1, <1>8
  <2>2. CASE c.status # a.status
    <3>1. s.seq = 0 BY <2>2, <1>3, <1>6 DEF Ahead
    <3>2. "status" \in DOMAIN e.body BY <3>1, <1>2, <1>5
    <3> QED BY <3>2, <1>8 DEF Or
  <2> QED BY <2>1, <2>2
<1>10. PICK z : z = Or(e.body, "reason", c.reason) OBVIOUS
<1>11. z \in Reasons
  <2>1. CASE "reason" \in DOMAIN e.body
    <3>1. z = b.reason BY <2>1, <1>8, <1>10 DEF Or
    <3> QED BY <3>1, StateFields
  <2>2. CASE "reason" \notin DOMAIN e.body
    <3>1. z = c.reason BY <2>2, <1>10 DEF Or
    <3> QED BY <3>1, StateFields
  <2> QED BY <2>1, <2>2
<1>12. PICK new \in StateType : new = [b EXCEPT !.reason = z] BY <1>11 DEF StateType, Reasons
<1>13. /\ new.status = b.status /\ new.reason = z /\ new.stage = b.stage /\ new.done = b.done
       /\ new.total = b.total /\ new.gen = b.gen /\ new.draft = b.draft
  BY <1>12 DEF StateType
<1>14. new = [status |-> Or(e.body, "status", c.status), reason |-> Or(e.body, "reason", c.reason),
              stage |-> Or(e.body, "stage", c.stage), done |-> Or(e.body, "done", c.done),
              total |-> Or(e.body, "total", c.total), gen |-> e.gen, draft |-> DraftAfter(c.draft, e)]
  <2>1. new = [status |-> new.status, reason |-> new.reason, stage |-> new.stage, done |-> new.done,
               total |-> new.total, gen |-> new.gen, draft |-> new.draft] BY StateIs
  <2>2. /\ new.stage = Or(e.body, "stage", c.stage) /\ new.done = Or(e.body, "done", c.done)
        /\ new.total = Or(e.body, "total", c.total) /\ new.gen = e.gen /\ new.draft = DraftAfter(c.draft, e)
        /\ new.status = Or(e.body, "status", c.status) /\ new.reason = Or(e.body, "reason", c.reason)
    BY <1>7, <1>8, <1>9, <1>10, <1>13, Zenon
  <2> QED BY <2>1, <2>2, Zenon
<1>15. /\ Rank[b.status] >= Rank[c.status] /\ b.stage >= c.stage /\ b.done >= c.done
       /\ (c.total # 0 => b.total = c.total)
  BY <1>2, <1>4, <1>6, NotAhead
<1>16. ~Regresses(c, new)
  <2>1. /\ Rank[b.status] \in 0..3 /\ Rank[c.status] \in 0..3 /\ b.stage \in Nat /\ c.stage \in Nat
        /\ b.done \in Nat /\ c.done \in Nat
    BY StateFields
  <2> QED BY <2>1, <1>13, <1>15 DEF Regresses
<1>17. ~(new.total # 0 /\ new.done > new.total)
  <2>1. new.total \in {0, Total} /\ new.done \in 0..Total /\ Total \in Nat BY StateFields DEF EventsAssumption
  <2> QED BY <2>1
<1>18. e.gen = c.gen + (IF e.type = "draft_reset" THEN 1 ELSE 0) BY <1>5, <1>7 DEF Leads
<1>19. e.type = "text_delta" => Continues(c.draft, e.body) BY <1>5, <1>7 DEF Leads
<1>20. s # None /\ c.status \notin Terminal BY <1>6, NoneIsNoState
<1>21. ~(e.seq <= s.seq) /\ e.seq = s.seq + 1 BY <1>2 DEF PageState
<1>22. PICK r : r = [seq |-> e.seq, st |-> new] OBVIOUS
<1>23. ReduceIncrement(s, e) = Accept(r)
  <2>1. PICK d : d = CASE e.type \in {"draft_reset", "terminal"} -> NoDraft
                   [] e.type = "text_delta" -> [s.st.draft EXCEPT ![e.body.key] = @ \o e.body.text]
                   [] OTHER -> s.st.draft OBVIOUS
  <2>2. d = DraftAfter(c.draft, e) BY <2>1, <1>6 DEF DraftAfter
  <2>3. new = [status |-> Or(e.body, "status", s.st.status), reason |-> Or(e.body, "reason", s.st.reason),
                stage |-> Or(e.body, "stage", s.st.stage), done |-> Or(e.body, "done", s.st.done),
                total |-> Or(e.body, "total", s.st.total), gen |-> e.gen, draft |-> d]
    BY <1>6, <1>14, <2>2, Zenon
  <2>4. /\ s # None /\ ~(e.seq <= s.seq)
        /\ ~(\/ e.seq # s.seq + 1
             \/ s.st.status \in Terminal
             \/ e.gen # s.st.gen + (IF e.type = "draft_reset" THEN 1 ELSE 0)
             \/ Regresses(s.st, new)
             \/ new.total # 0 /\ new.done > new.total
             \/ e.type = "text_delta" /\ ~Continues(s.st.draft, e.body))
    BY <1>6, <1>16, <1>17, <1>18, <1>19, <1>20, <1>21
  <2> QED BY <2>1, <2>3, <2>4, <1>22, Zenon DEF ReduceIncrement
<1>24. Reduce(s, e) = Accept(r)
  <2>1. e.type # "snapshot" BY <1>5 DEF Leads, Increment
  <2> QED BY <2>1, <1>23 DEF Reduce
<1>25. Reduce(s, e).again = FALSE /\ Reduce(s, e).state = r BY <1>24 DEF Accept
<1>26. new.status \in Confirmed => new.status = row.status
  <2>1. n + 1 \in 1..Len(past) BY <1>1
  <2> QED BY <2>1, <1>4, <1>13 DEF Rows
<1>27. r \in PageState /\ Mirrors(r) /\ r.seq = n /\ r.st = new BY <1>2, <1>4, <1>13, <1>22, <1>26, ShowsMirrors
<1>28. Ahead(r) BY <1>4, <1>13, <1>27 DEF Ahead
<1> QED BY <1>2, <1>25, <1>27, <1>28 DEF Reduced

\* A snapshot of the channel as a page would show it.
LEMMA SnapshotShows ==
  ASSUME EventsAssumption, Channel, Rows, NEW e, SnapshotOf(e, past)
  PROVE  /\ e.body \in StateType /\ e.seq \in 0..seq
         /\ [seq |-> e.seq, st |-> e.body] \in PageState
         /\ Mirrors([seq |-> e.seq, st |-> e.body]) /\ Ahead([seq |-> e.seq, st |-> e.body])
         /\ [seq |-> e.seq, st |-> e.body].seq = e.seq
<1>1. past \in Seq(StateType) /\ seq \in Nat /\ Len(past) = seq + 1 BY DEF Channel, Grows
<1>2. PICK n \in 0..seq : n = e.seq /\ n + 1 \in 1..Len(past) BY <1>1 DEF SnapshotOf
<1>3. PICK b \in StateType : b = past[n + 1] BY <1>1, <1>2, ElementOfSeq
<1>4. e.body = b BY <1>2, <1>3 DEF SnapshotOf
<1>5. b.status \in Confirmed => b.status = row.status BY <1>2, <1>3 DEF Rows
<1>6. PICK r : r = [seq |-> n, st |-> b] OBVIOUS
<1>7. r \in PageState /\ Mirrors(r) /\ r.seq = n /\ r.st = b BY <1>2, <1>3, <1>5, <1>6, ShowsMirrors
<1>8. Ahead(r) BY <1>3, <1>7 DEF Ahead
<1> QED BY <1>2, <1>3, <1>4, <1>6, <1>7, <1>8, Zenon

\* A snapshot of the channel is taken by a page that shows nothing yet.
LEMMA ReducesFirstSnapshot ==
  ASSUME EventsAssumption, Channel, Rows, NEW e, SnapshotOf(e, past)
  PROVE  \E r : Reduced(None, e, r) /\ Ahead(r) /\ r.seq = e.seq
<1>1. PICK r : r = [seq |-> e.seq, st |-> e.body] OBVIOUS
<1>2. r \in PageState /\ Mirrors(r) /\ Ahead(r) /\ r.seq = e.seq BY <1>1, SnapshotShows, Zenon
<1>3. Reduce(None, e) = Accept(r) BY <1>1 DEF Reduce, ReduceSnapshot, SnapshotOf
<1>4. Reduce(None, e).again = FALSE /\ Reduce(None, e).state = r BY <1>3 DEF Accept
<1> QED BY <1>2, <1>4 DEF Reduced

\* A later snapshot of the channel is taken.
LEMMA ReducesSnapshot ==
  ASSUME EventsAssumption, Channel, Rows, NEW s \in PageState, Mirrors(s), Ahead(s), s.st.status \notin Terminal,
         NEW e, SnapshotOf(e, past), s.seq <= e.seq
  PROVE  \E r : Reduced(s, e, r) /\ Ahead(r) /\ r.seq = e.seq
<1>1. e.type = "snapshot" /\ e.gen = e.body.gen /\ e.body = past[e.seq + 1] BY DEF SnapshotOf
<1>2. s # None BY NoneIsNoState
<1>3. e.seq \in 0..seq /\ e.body \in StateType BY SnapshotShows
<1>4. past \in Seq(StateType) /\ seq \in Nat /\ Len(past) = seq + 1 BY DEF Channel, Grows
<1>5. s.seq \in Nat /\ e.seq \in Nat BY <1>3, <1>4 DEF PageState
<1>6. CASE e.seq = s.seq
  <2>1. e.gen = s.st.gen BY <1>1, <1>6, ShownFields
  <2>2. Reduce(s, e) = Keep(s) BY <1>1, <1>2, <1>6 DEF Reduce, ReduceSnapshot
  <2>3. Reduce(s, e).again = FALSE /\ Reduce(s, e).state = s BY <2>2 DEF Keep
  <2> QED BY <2>3, <1>6 DEF Reduced
<1>7. CASE s.seq < e.seq
  <2>1. PICK n \in 0..seq : n = e.seq BY <1>3
  <2>2. PICK b \in StateType : b = e.body /\ b = past[n + 1] BY <1>1, <1>3, <2>1
  <2>3. PICK c \in StateType : c = s.st BY DEF PageState
  <2>4. /\ Rank[b.status] >= Rank[c.status] /\ b.stage >= c.stage /\ b.done >= c.done
        /\ (c.total # 0 => b.total = c.total) /\ b.gen >= c.gen
    BY <1>7, <2>1, <2>2, <2>3, NotAhead
  <2>5. /\ Rank[b.status] \in 0..3 /\ Rank[c.status] \in 0..3 /\ b.stage \in Nat /\ c.stage \in Nat
        /\ b.done \in Nat /\ c.done \in Nat /\ b.gen \in Nat /\ c.gen \in Nat
    BY StateFields
  <2>6. ~Regresses(c, b) BY <2>4, <2>5 DEF Regresses
  <2>7. ~(e.gen < c.gen) /\ ~(e.seq = s.seq) /\ ~(e.seq < s.seq) BY <1>1, <1>5, <1>7, <2>2, <2>4, <2>5
  <2>8. c.status \notin Terminal BY <2>3
  <2>9. PICK r : r = [seq |-> e.seq, st |-> e.body] OBVIOUS
  <2>10. Reduce(s, e) = Accept(r)
    <3>1. /\ ~(e.gen < s.st.gen \/ e.seq = s.seq) /\ ~(e.seq < s.seq) /\ ~Regresses(s.st, e.body)
          /\ s.st.status \notin Terminal
      BY <2>2, <2>3, <2>6, <2>7, <2>8
    <3>2. ReduceSnapshot(s, e) = Accept(r) BY <1>2, <2>9, <3>1, Zenon DEF ReduceSnapshot
    <3> QED BY <1>1, <3>2 DEF Reduce
  <2>11. r \in PageState /\ Mirrors(r) /\ Ahead(r) /\ r.seq = e.seq BY <2>9, SnapshotShows, Zenon
  <2>12. Reduce(s, e).again = FALSE /\ Reduce(s, e).state = r BY <2>10 DEF Accept
  <2> QED BY <2>11, <2>12 DEF Reduced
<1> QED BY <1>5, <1>6, <1>7

\* The row's snapshot is taken by a page that shows nothing yet.
LEMMA ReducesFirstSaved ==
  ASSUME EventsAssumption, Channel, Rows, NEW e, SavedOf(e)
  PROVE  \E r : Reduced(None, e, r) /\ (Ahead(r) \/ Settled(r))
<1>1. PICK v \in RowType : Kept(v) /\ e = PersistedSnapshot(v) BY DEF SavedOf
<1>2. PICK b \in StateType : b = e.body /\ b = [InitialState EXCEPT !.status = v.status, !.reason = v.reason]
                             /\ b.status = v.status
  BY <1>1, SavedIs
<1>3. e.seq = 0 /\ e.gen = 0 /\ e.type = "snapshot" BY <1>1, SavedIs
<1>4. past[1] = InitialState /\ seq \in Nat BY DEF Channel, Grows
<1>5. PICK i \in StateType : i = InitialState /\ i = past[0 + 1] BY <1>4, InitialIsState
<1>6. b.stage = i.stage /\ b.done = i.done /\ b.total = i.total /\ b.gen = i.gen /\ b.draft = i.draft
  <2>1. b = [i EXCEPT !.status = v.status, !.reason = v.reason] BY <1>2, <1>5
  <2> QED BY <2>1 DEF StateType
<1>7. PICK r : r = [seq |-> 0, st |-> b] OBVIOUS
<1>8. r \in PageState /\ Mirrors(r) /\ r.seq = 0 /\ r.st = b
  <2>1. b.status \in Confirmed => b.status = row.status BY <1>1, <1>2 DEF Kept
  <2>2. 0 \in 0..seq BY <1>4
  <2> QED BY <1>5, <1>6, <1>7, <2>1, <2>2, ShowsMirrors
<1>9. Ahead(r) \/ Settled(r)
  <2>1. i.status = "accepted" BY <1>5 DEF InitialState
  <2>2. v.status \in Statuses BY DEF RowType
  <2>3. CASE v.status = "accepted"
    <3>1. r.st.status = past[r.seq + 1].status BY <2>1, <2>3, <1>2, <1>5, <1>8
    <3> QED BY <3>1 DEF Ahead
  <2>4. CASE v.status \in Terminal BY <2>4, <1>2, <1>8 DEF Ahead
  <2>5. CASE v.status \in {"running", "stopping"} BY <2>5, <1>1, <1>2, <1>8 DEF Kept, Ahead, Settled
  <2> QED BY <2>2, <2>3, <2>4, <2>5 DEF Statuses, Active
<1>10. Reduce(None, e) = Accept(r) BY <1>2, <1>3, <1>7 DEF Reduce, ReduceSnapshot
<1>11. Reduce(None, e).again = FALSE /\ Reduce(None, e).state = r BY <1>10 DEF Accept
<1> QED BY <1>8, <1>9, <1>11 DEF Reduced

\* A page that shows something takes the row's outcome, and ignores the rest.
LEMMA ReducesSaved ==
  ASSUME EventsAssumption, Channel, Rows, NEW s \in PageState, Mirrors(s), Ahead(s) \/ Settled(s),
         s.st.status \notin Terminal, NEW e, SavedOf(e)
  PROVE  \E r : Reduced(s, e, r) /\ (Ahead(r) \/ Settled(r)) /\ (s.seq = 0 => r = s)
<1>1. PICK v \in RowType : Kept(v) /\ e = PersistedSnapshot(v) BY DEF SavedOf
<1>2. PICK b \in StateType : b = e.body /\ b.status = v.status /\ b.reason = v.reason
  BY <1>1, SavedIs
<1>3. e.seq = 0 /\ e.gen = 0 /\ e.type = "snapshot" BY <1>1, SavedIs
<1>4. s # None /\ s.seq \in Nat BY NoneIsNoState DEF PageState
<1>5. PICK c \in StateType : c = s.st BY DEF PageState
<1>6. c.gen \in Nat /\ c.status \notin Terminal BY <1>5, StateFields
<1>7. CASE e.gen < c.gen \/ e.seq = s.seq
  <2>1. Reduce(s, e) = Keep(s) BY <1>3, <1>4, <1>5, <1>7 DEF Reduce, ReduceSnapshot
  <2>2. Reduce(s, e).again = FALSE /\ Reduce(s, e).state = s BY <2>1 DEF Keep
  <2> QED BY <2>2 DEF Reduced
<1>8. CASE ~(e.gen < c.gen \/ e.seq = s.seq)
  <2>1. e.seq < s.seq /\ s.seq # 0 BY <1>3, <1>4, <1>8
  <2>2. CASE b.status \in Terminal
    <3>1. PICK r : r = [s EXCEPT !.st.status = b.status, !.st.reason = b.reason] OBVIOUS
    <3>2. ReduceSnapshot(s, e) = Accept([s EXCEPT !.st.status = e.body.status, !.st.reason = e.body.reason])
      <4>1. /\ s # None /\ ~(e.gen < s.st.gen \/ e.seq = s.seq) /\ e.seq < s.seq
            /\ e.body.status \in Terminal /\ s.st.status \notin Terminal
        BY <1>2, <1>4, <1>5, <1>8, <2>1, <2>2
      <4> QED BY <4>1, Zenon DEF ReduceSnapshot
    <3>3. Reduce(s, e) = Accept(r) BY <1>2, <1>3, <3>1, <3>2 DEF Reduce
    <3>4. PICK d \in StateType : d = [c EXCEPT !.status = b.status, !.reason = b.reason] BY DEF StateType
    <3>5. /\ d.status = b.status /\ d.stage = c.stage /\ d.done = c.done /\ d.total = c.total /\ d.gen = c.gen
          /\ d.draft = c.draft
      BY <3>4 DEF StateType
    <3>6. r = [seq |-> s.seq, st |-> d] BY <1>5, <3>1, <3>4 DEF PageState
    <3>7. d.status \in Confirmed => d.status = row.status BY <1>1, <1>2, <3>5 DEF Kept
    <3>8. s.seq \in 0..seq BY DEF Mirrors
    <3>9. /\ d.stage = past[s.seq + 1].stage /\ d.done = past[s.seq + 1].done
          /\ d.total = past[s.seq + 1].total /\ d.gen = past[s.seq + 1].gen /\ d.draft = past[s.seq + 1].draft
      BY <1>5, <3>5, ShownFields
    <3>10. r \in PageState /\ Mirrors(r) /\ r.seq = s.seq /\ r.st = d
      <4>1. PICK n \in 0..seq : n = s.seq BY <3>8
      <4> QED BY <4>1, <3>6, <3>7, <3>9, ShowsMirrors
    <3>11. Ahead(r) BY <2>2, <3>5, <3>10 DEF Ahead
    <3>12. Reduce(s, e).again = FALSE /\ Reduce(s, e).state = r BY <3>3 DEF Accept
    <3> QED BY <2>1, <3>10, <3>11, <3>12 DEF Reduced
  <2>3. CASE b.status \notin Terminal
    <3>1. ReduceSnapshot(s, e) = Keep(s)
      <4>1. /\ s # None /\ ~(e.gen < s.st.gen \/ e.seq = s.seq) /\ e.seq < s.seq
            /\ e.body.status \notin Terminal /\ s.st.status \notin Terminal
        BY <1>2, <1>4, <1>5, <1>8, <2>1, <2>3
      <4> QED BY <4>1, Zenon DEF ReduceSnapshot
    <3>2. Reduce(s, e) = Keep(s) BY <1>3, <3>1 DEF Reduce
    <3>3. Reduce(s, e).again = FALSE /\ Reduce(s, e).state = s BY <3>2 DEF Keep
    <3> QED BY <3>3 DEF Reduced
  <2> QED BY <2>2, <2>3
<1> QED BY <1>7, <1>8

\* The frames after the first one.
LEMMA Rest ==
  ASSUME NEW w \in Seq(Frame), NEW q \in Seq(Frame), w # <<>>
  PROVE  /\ w \o q \in Seq(Frame) /\ Tail(w) \in Seq(Frame) /\ Tail(w) \o q \in Seq(Frame)
         /\ Head(w) = w[1] /\ 1 \in 1..Len(w) /\ 1 \in 1..Len(w \o q)
         /\ (w \o q)[1] = w[1]
         /\ Len(Tail(w) \o q) = Len(w \o q) - 1
         /\ \A i \in 1..Len(Tail(w)) : i + 1 \in 1..Len(w) /\ Tail(w)[i] = w[i + 1]
         /\ \A i \in 1..Len(Tail(w) \o q) : i + 1 \in 1..Len(w \o q) /\ (Tail(w) \o q)[i] = (w \o q)[i + 1]
<1>1. PICK m \in Nat : m = Len(w) /\ m >= 1 BY LenProperties
<1>2. PICK n \in Nat : n = Len(q) BY LenProperties
<1>3. Head(w) = w[1] /\ 1 \in 1..m /\ 1 \in 1..Len(w) BY <1>1
<1>4. PICK t \in Seq(Frame) : t = Tail(w) /\ Len(t) = m - 1 /\ \A i \in 1..(m - 1) : t[i] = w[i + 1]
  <2>1. Tail(w) \in Seq(Frame) /\ Len(Tail(w)) = Len(w) - 1 /\ \A i \in 1..Len(Tail(w)) : Tail(w)[i] = w[i + 1]
    BY HeadTailProperties
  <2>2. PICK t \in Seq(Frame) : t = Tail(w) BY <2>1
  <2>3. Len(t) = m - 1 /\ \A i \in 1..(m - 1) : t[i] = w[i + 1] BY <1>1, <2>1, <2>2
  <2> QED BY <2>2, <2>3
<1>5. PICK f \in Seq(Frame) : f = w \o q /\ Joined(w, q, f) BY Join
<1>6. PICK g \in Seq(Frame) : g = t \o q /\ Joined(t, q, g) BY Join
<1>7. Len(f) = m + n /\ \A i \in 1 .. m + n : f[i] = IF i <= m THEN w[i] ELSE q[i - m]
  BY <1>1, <1>2, <1>5 DEF Joined
<1>8. Len(g) = m + n - 1 /\ \A i \in 1 .. (m + n - 1) : g[i] = IF i <= m - 1 THEN t[i] ELSE q[i - (m - 1)]
  <2>1. Len(g) = Len(t) + Len(q) /\ \A i \in 1 .. Len(t) + Len(q) : g[i] = IF i <= Len(t) THEN t[i] ELSE q[i - Len(t)]
    BY <1>6 DEF Joined
  <2>2. Len(t) + Len(q) = m + n - 1 BY <1>1, <1>2, <1>4
  <2> QED BY <2>1, <2>2, <1>4
<1>9. f[1] = w[1] /\ 1 \in 1..Len(f)
  <2>1. 1 \in 1 .. m + n /\ 1 <= m BY <1>1, <1>2
  <2> QED BY <2>1, <1>7
<1>10. ASSUME NEW i \in 1 .. (m + n - 1) PROVE i + 1 \in 1 .. m + n /\ g[i] = f[i + 1]
  <2>1. PICK j \in 1 .. m + n : j = i + 1
    <3>1. i + 1 \in 1 .. m + n BY <1>1, <1>2
    <3> QED BY <3>1
  <2>2. CASE i <= m - 1
    <3>1. j <= m /\ i \in 1..(m - 1) BY <2>1, <2>2, <1>1
    <3>2. f[j] = w[j] BY <3>1, <1>7
    <3>3. g[i] = t[i] BY <2>2, <1>8
    <3>4. t[i] = w[i + 1] BY <3>1, <1>4
    <3> QED BY <2>1, <3>2, <3>3, <3>4
  <2>3. CASE ~(i <= m - 1)
    <3>1. ~(j <= m) /\ j - m = i - (m - 1) BY <2>1, <2>3, <1>1
    <3>2. f[j] = q[j - m] BY <3>1, <1>7
    <3>3. g[i] = q[i - (m - 1)] BY <2>3, <1>8
    <3> QED BY <2>1, <3>1, <3>2, <3>3
  <2> QED BY <2>2, <2>3
<1>11. ASSUME NEW i \in 1..(m - 1) PROVE i + 1 \in 1..m /\ t[i] = w[i + 1] BY <1>1, <1>4
<1>12. Len(g) = Len(f) - 1 BY <1>7, <1>8, <1>1, <1>2
<1> QED BY <1>1, <1>3, <1>4, <1>5, <1>6, <1>7, <1>8, <1>9, <1>10, <1>11, <1>12

\* What the first frame of a wire does to the page: it shows the frame's state, or a
\* persisted outcome the connection ends with.
Takes(s, k, w, r) ==
  /\ Reduced(s, w[1], r) /\ (Ahead(r) \/ Settled(r))
  /\ \/ Ahead(r) /\ r.seq = w[1].seq
     \/ ~k.live /\ Len(w \o k.queue) = 1
     \/ ~k.live /\ Quiet(w \o k.queue) /\ r.seq = w[1].seq

LEMMA TakesFirst ==
  ASSUME EventsAssumption, Channel, Rows, NEW s \in {None} \cup PageState, Shown(s),
         s # None => s.st.status \notin Terminal,
         NEW k, NEW w \in Seq(Frame), k.queue \in Seq(Frame), w # <<>>, Watches(s, k, w), w[1].type # "auth_lost"
  PROVE  \E r : Takes(s, k, w, r)
<1>1. PICK q \in Seq(Frame) : q = k.queue OBVIOUS
<1>2. PICK f \in Seq(Frame) : f = w \o q /\ f[1] = w[1] /\ 1 \in 1..Len(f) BY Rest
<1>3. PICK e : e = w[1] OBVIOUS
<1>4. Feeds(s, k, f) /\ (s # None => Ahead(s) \/ (~k.live /\ Quiet(f))) BY <1>1, <1>2 DEF Watches
<1>5. e.type # "auth_lost" /\ e # AuthLost BY <1>3, AuthLostIs
<1>6. \/ Next1(s, f, 1)
      \/ Len(f) = 1 /\ SavedOf(e) /\ ~k.live
  BY <1>2, <1>3, <1>4, <1>5 DEF Feeds
<1>7. \/ SnapshotOf(e, past) /\ (s = None \/ s.seq <= e.seq)
      \/ EventOf(e, past) /\ s # None /\ e.seq = s.seq + 1
      \/ Len(f) = 1 /\ SavedOf(e) /\ ~k.live
  BY <1>2, <1>3, <1>6 DEF Next1
<1>8. CASE s = None /\ SnapshotOf(e, past)
  <2>1. PICK r : Reduced(None, e, r) /\ Ahead(r) /\ r.seq = e.seq BY <1>8, ReducesFirstSnapshot
  <2> QED BY <2>1, <1>3, <1>8, Zenon DEF Takes
<1>9. CASE s # None /\ Ahead(s) /\ SnapshotOf(e, past) /\ s.seq <= e.seq
  <2>1. s \in PageState /\ Mirrors(s) /\ s.st.status \notin Terminal BY <1>9 DEF Shown
  <2>2. PICK r : Reduced(s, e, r) /\ Ahead(r) /\ r.seq = e.seq BY <1>9, <2>1, ReducesSnapshot
  <2> QED BY <2>2, <1>3, Zenon DEF Takes
<1>10. CASE s # None /\ Ahead(s) /\ EventOf(e, past) /\ e.seq = s.seq + 1
  <2>1. s \in PageState /\ Mirrors(s) /\ s.st.status \notin Terminal BY <1>10 DEF Shown
  <2>2. PICK r : Reduced(s, e, r) /\ Ahead(r) /\ r.seq = e.seq BY <1>10, <2>1, ReducesEvent
  <2> QED BY <2>2, <1>3, Zenon DEF Takes
<1>11. CASE Len(f) = 1 /\ SavedOf(e) /\ ~k.live
  <2>1. PICK r : Reduced(s, e, r) /\ (Ahead(r) \/ Settled(r))
    <3>1. CASE s = None BY <3>1, <1>11, ReducesFirstSaved
    <3>2. CASE s # None
      <4>1. s \in PageState /\ Mirrors(s) /\ (Ahead(s) \/ Settled(s)) /\ s.st.status \notin Terminal BY <3>2 DEF Shown
      <4> QED BY <4>1, <1>11, ReducesSaved
    <3> QED BY <3>1, <3>2
  <2>2. ~k.live /\ Len(w \o k.queue) = 1 BY <1>1, <1>2, <1>11
  <2> QED BY <2>1, <2>2, <1>3, Zenon DEF Takes
<1>12. CASE s # None /\ ~k.live /\ Quiet(f) /\ ((SnapshotOf(e, past) /\ s.seq <= e.seq) \/ EventOf(e, past))
  <2>1. SavedOf(e) BY <1>2, <1>3, <1>5, <1>12 DEF Quiet
  <2>2. e.seq = 0 /\ e.type = "snapshot" BY <2>1, SavedIs DEF SavedOf
  <2>3. SnapshotOf(e, past) /\ s.seq <= e.seq BY <1>12, <2>2 DEF EventOf, Leads, Increment
  <2>4. s \in PageState /\ Mirrors(s) /\ (Ahead(s) \/ Settled(s)) /\ s.st.status \notin Terminal BY <1>12 DEF Shown
  <2>5. s.seq = 0 BY <2>2, <2>3, <2>4 DEF PageState
  <2>6. PICK r : Reduced(s, e, r) /\ (Ahead(r) \/ Settled(r)) /\ r = s BY <2>1, <2>4, <2>5, ReducesSaved
  <2>7. ~k.live /\ Quiet(w \o k.queue) /\ r.seq = w[1].seq BY <1>1, <1>2, <1>3, <1>12, <2>2, <2>5, <2>6
  <2> QED BY <2>6, <2>7, <1>3, Zenon DEF Takes
<1> QED BY <1>4, <1>7, <1>8, <1>9, <1>10, <1>11, <1>12

\* The page watches on.
LEMMA TakesOn ==
  ASSUME EventsAssumption, Channel, NEW s, NEW k, NEW w \in Seq(Frame), k.queue \in Seq(Frame), w # <<>>,
         Watches(s, k, w), NEW r, Takes(s, k, w, r)
  PROVE  Watches(r, k, Tail(w))
<1>1. PICK q \in Seq(Frame) : q = k.queue OBVIOUS
<1>2. PICK f \in Seq(Frame) : f = w \o q /\ f[1] = w[1] /\ 1 \in 1..Len(f) BY Rest
<1>3. PICK g \in Seq(Frame) : /\ g = Tail(w) \o q /\ Len(g) = Len(f) - 1
                              /\ \A i \in 1..Len(g) : i + 1 \in 1..Len(f) /\ g[i] = f[i + 1]
  <2>1. /\ Tail(w) \o q \in Seq(Frame) /\ Len(Tail(w) \o q) = Len(w \o q) - 1
        /\ \A i \in 1..Len(Tail(w) \o q) : i + 1 \in 1..Len(w \o q) /\ (Tail(w) \o q)[i] = (w \o q)[i + 1]
    BY Rest
  <2> QED BY <2>1, <1>2
<1>4. PICK l \in Nat : l = Len(g) BY LenProperties
<1>5. Len(f) = l + 1
  <2>1. Len(f) \in Nat BY LenProperties
  <2> QED BY <2>1, <1>3, <1>4
<1>a. ASSUME NEW i \in 1..l PROVE i + 1 \in 1..(l + 1) /\ g[i] = f[i + 1]
  <2>1. i \in 1..Len(g) BY <1>4
  <2>2. g[i] = f[i + 1] BY <2>1, <1>3
  <2> QED BY <2>2
<1>6. Feeds(s, k, f) /\ r # None
  <2>1. r \in PageState BY DEF Takes, Reduced
  <2> QED BY <1>1, <1>2, <2>1, NoneIsNoState DEF Watches
<1>7. Quiet(f) => Quiet(g)
  <2>1. ASSUME Quiet(f), NEW i \in 1..Len(g) PROVE SavedOf(g[i]) \/ g[i] = AuthLost
    <3>1. g[i] = f[i + 1] /\ i + 1 \in 1..Len(f) BY <1>3
    <3> QED BY <3>1, <2>1 DEF Quiet
  <2> QED BY <2>1 DEF Quiet
<1>8. Ahead(r) \/ (~k.live /\ Quiet(g))
  <2>1. CASE ~k.live /\ Len(f) = 1
    <3>1. l + 1 = 1 BY <2>1, <1>5
    <3>2. l = 0 BY <3>1
    <3>3. Len(g) = 0 BY <3>2, <1>4
    <3>4. \A i \in 1..Len(g) : FALSE BY <3>3
    <3>5. Quiet(g) BY <3>4 DEF Quiet
    <3> QED BY <2>1, <3>5
  <2> QED BY <2>1, <1>1, <1>2, <1>7 DEF Takes
<1>9. r.seq = f[1].seq \/ (~k.live /\ l = 0) BY <1>1, <1>2, <1>4, <1>5 DEF Takes
<1>10. Feeds(r, k, g)
  <2>1. ASSUME NEW i \in 1..Len(g)
        PROVE Next1(r, g, i) \/ (i = Len(g) /\ g[i] = AuthLost /\ k.pc \in {"closing", "closed"})
    <3>a. i \in 1..l BY <1>4
    <3>1. PICK j \in 1..Len(f) : j = i + 1
      <4>1. i + 1 \in 1..(l + 1) BY <3>a, <1>a
      <4> QED BY <4>1, <1>5
    <3>b. g[i] = f[i + 1] BY <3>a, <1>a
    <3>2. g[i] = f[j] /\ l # 0 /\ j # 1 BY <3>1, <3>a, <3>b
    <3>3. Len(f) # 1 BY <3>2, <1>5
    <3>4. Next1(s, f, j) \/ (j = Len(f) /\ f[j] = AuthLost /\ k.pc \in {"closing", "closed"}) BY <1>6, <3>3 DEF Feeds
    <3>5. j = Len(f) => i = Len(g) BY <3>1, <1>4, <1>5
    <3>6. ASSUME Next1(s, f, j) PROVE Next1(r, g, i)
      <4>1. j - 1 = i BY <3>1
      <4>2. \/ SnapshotOf(f[j], past) /\ f[i].seq <= f[j].seq
            \/ EventOf(f[j], past) /\ f[j].seq = f[i].seq + 1
        BY <3>2, <3>6, <4>1 DEF Next1
      <4>3. CASE i = 1
        <5>1. r.seq = f[i].seq BY <4>3, <3>2, <1>9
        <5> QED BY <4>2, <4>3, <5>1, <3>2, <1>6 DEF Next1
      <4>4. CASE i # 1
        <5>1. PICK h \in 1..Len(g) : h = i - 1 BY <4>4, <1>4
        <5>2. g[h] = f[i]
          <6>1. h \in 1..l BY <1>4
          <6>2. g[h] = f[h + 1] BY <6>1, <1>a
          <6>3. h + 1 = i BY <5>1, <3>a
          <6> QED BY <6>2, <6>3
        <5>3. g[i - 1] = f[i] BY <5>1, <5>2
        <5> QED BY <4>2, <4>4, <5>3, <3>2 DEF Next1
      <4> QED BY <4>3, <4>4
    <3> QED BY <3>2, <3>4, <3>5, <3>6
  <2>2. ASSUME k.live, k.pc # "closing" PROVE At(r, g) = k.cursor
    <3>1. At(s, f) = k.cursor /\ f # <<>> BY <1>2, <1>6, <2>2 DEF Feeds
    <3>2. f[Len(f)].seq = k.cursor BY <3>1 DEF At
    <3>3. CASE g = <<>>
      <4>1. l = 0 /\ Len(f) = 1 BY <3>3, <1>4, <1>5
      <4>2. r.seq = f[1].seq BY <2>2, <1>9
      <4> QED BY <3>2, <3>3, <4>1, <4>2 DEF At
    <3>4. CASE g # <<>>
      <4>1. l \in 1..Len(g) BY <3>4, <1>4
      <4>2. g[l] = f[l + 1] BY <4>1, <1>3
      <4> QED BY <3>2, <3>4, <4>2, <1>4, <1>5 DEF At
    <3> QED BY <3>3, <3>4
  <2>3. k.pc # "free" /\ ~k.gone BY <1>6 DEF Feeds
  <2> QED BY <1>6, <2>1, <2>2, <2>3 DEF Feeds
<1> QED BY <1>1, <1>3, <1>8, <1>10, Zenon DEF Watches

\* What the page that observes shows, and what comes next.
LEMMA Observes ==
  ASSUME EventsInv, NEW p \in Page, page[p].pc = "observing", wire[page[p].conn] # <<>>,
         NEW s, s = page[p].state, NEW c, c = page[p].conn, NEW k, k = conn[c], NEW w, w = wire[c]
  PROVE  /\ c \in Conn /\ s \in {None} \cup PageState /\ Shown(s) /\ (s # None => s.st.status \notin Terminal)
         /\ w \in Seq(Frame) /\ k.queue \in Seq(Frame) /\ w # <<>> /\ Watches(s, k, w) /\ ConnFits(k, w)
<1>1. PICK o : o = page[p] OBVIOUS
<1>2. PageFits(o) /\ o.state = s /\ o.conn = c /\ o.pc = "observing" BY <1>1 DEF EventsInv, Pages
<1>3. c \in Conn /\ s \in {None} \cup PageState BY <1>2 DEF PageFits, PageType
<1>4. ConnFits(k, w) BY <1>3 DEF EventsInv, Streams
<1>5. Watches(s, k, w) BY DEF EventsInv, Pages
<1>6. Shown(s) /\ (s # None => s.st.status \notin Terminal) BY <1>2 DEF PageFits, Shown
<1>7. w \in Seq(Frame) /\ k.queue \in Seq(Frame) BY <1>4 DEF ConnFits, ConnType
<1> QED BY <1>3, <1>4, <1>5, <1>6, <1>7

LEMMA ReceiveKeeps == ASSUME EventsInv, NEW p \in Page, Receive(p) PROVE EventsInv'
<1>1. PICK o : o = page[p] OBVIOUS
<1>2. PICK s : s = page[p].state OBVIOUS
<1>3. PICK c : c = page[p].conn OBVIOUS
<1>4. PICK k : k = conn[c] OBVIOUS
<1>5. PICK w : w = wire[c] OBVIOUS
<1>6. /\ page[p].pc = "observing" /\ w # <<>> /\ UNCHANGED <<row, ran, channel, subs, revoked, cut>>
  BY <1>3, <1>5 DEF Receive
<1>7. /\ c \in Conn /\ s \in {None} \cup PageState /\ Shown(s) /\ (s # None => s.st.status \notin Terminal)
      /\ w \in Seq(Frame) /\ k.queue \in Seq(Frame) /\ Watches(s, k, w) /\ ConnFits(k, w)
  BY <1>2, <1>3, <1>4, <1>5, <1>6, Observes
<1>8. EventsAssumption /\ Channel /\ Rows BY DEF EventsInv
<1>9. cut' \in 0..Outages BY <1>6, <1>8 DEF Rows
<1>10. PICK e : e = Head(w) /\ e = w[1] BY <1>6, <1>7, Rest
<1>11. CASE e.type = "auth_lost"
  <2>1. Drop(c) /\ GoPage(p, "denied") BY <1>3, <1>5, <1>10, <1>11 DEF Receive
  <2> QED BY <1>3, <1>6, <1>9, <2>1, PageGoes
<1>12. CASE e.type # "auth_lost"
  <2>1. PICK r : Takes(s, k, w, r) BY <1>6, <1>7, <1>8, <1>10, <1>12, TakesFirst
  <2>2. Reduced(s, e, r) /\ (Ahead(r) \/ Settled(r)) BY <2>1, <1>10 DEF Takes
  <2>3. Reduce(s, e).again = FALSE /\ Reduce(s, e).state = r /\ r \in PageState /\ Mirrors(r) BY <2>2 DEF Reduced
  <2>4. r # None BY <2>3, <1>8, NoneIsNoState
  <2>5. PageFits(o) /\ o \in PageType /\ o.pc = "observing" /\ o.conn = c
    BY <1>1, <1>3, <1>6 DEF EventsInv, Pages, PageFits
  <2>6. CASE r.st.status \in Terminal
    <3>1. PICK g : g = [pc |-> "done", conn |-> None, state |-> r] OBVIOUS
    <3>2. Drop(c) /\ page' = [page EXCEPT ![p] = g]
      BY <1>2, <1>3, <1>5, <1>10, <1>12, <2>3, <2>4, <2>6, <3>1 DEF Receive
    <3>3. g \in PageType /\ g.pc = "done" /\ g.conn = None /\ g.state = r BY <2>3, <3>1 DEF PageType
    <3>4. PageFits(g) BY <2>2, <2>3, <3>3 DEF PageFits
    <3> QED BY <1>3, <1>6, <1>9, <3>2, <3>3, <3>4, PageDrops
  <2>7. CASE r.st.status \notin Terminal
    <3>1. PICK g : g = [o EXCEPT !.state = r] OBVIOUS
    <3>2. page' = [page EXCEPT ![p] = g] /\ wire' = [wire EXCEPT ![c] = Tail(w)] /\ conn' = conn
      BY <1>1, <1>2, <1>3, <1>5, <1>10, <1>12, <2>3, <2>4, <2>7, <3>1 DEF Receive
    <3>3. g \in PageType /\ g.pc = "observing" /\ g.conn = c /\ g.state = r BY <2>3, <2>5, <3>1 DEF PageType
    <3>4. c # None BY <1>7, <1>8 DEF EventsAssumption
    <3>5. PageFits(g) BY <2>2, <2>3, <2>7, <3>3, <3>4 DEF PageFits
    <3>6. PICK t \in Seq(Frame) : t = Tail(w) /\ \A i \in 1..Len(t) : i + 1 \in 1..Len(w) /\ t[i] = w[i + 1]
      <4>1. Tail(w) \in Seq(Frame) /\ \A i \in 1..Len(Tail(w)) : i + 1 \in 1..Len(w) /\ Tail(w)[i] = w[i + 1]
        BY <1>6, <1>7, Rest
      <4> QED BY <4>1
    <3>7. ConnFits(k, t)
      <4>1. \A i \in 1..Len(t) : Sound(t[i])
        <5>1. \A i \in 1..Len(w) : Sound(w[i]) BY <1>7 DEF ConnFits
        <5> QED BY <5>1, <3>6
      <4>2. ~k.gone /\ k.pc # "free" /\ k.pc # "view" BY <1>6, <1>7 DEF ConnFits
      <4>3. ~(k.pc \in {"check", "send"} /\ ~k.live) BY <1>6, <1>7 DEF ConnFits
      <4> QED BY <1>7, <4>1, <4>2, <4>3 DEF ConnFits
    <3>8. conn' = [conn EXCEPT ![c] = k] /\ wire' = [wire EXCEPT ![c] = t]
      <4>1. conn = [b \in Conn |-> conn[b]] BY DEF EventsInv, Streams
      <4> QED BY <4>1, <1>4, <3>2, <3>6
    <3>9. /\ Streams' /\ Counted' /\ conn'[c] = k /\ wire'[c] = t
          /\ \A b \in Conn \ {c} : conn'[b] = conn[b] /\ wire'[b] = wire[b]
      BY <1>4, <1>6, <1>7, <3>7, <3>8, StreamsMove
    <3>10. Watches(r, k, t) BY <1>6, <1>7, <1>8, <2>1, <3>6, TakesOn
    <3>11. ASSUME NEW q \in Page \ {p} PROVE page[q].conn # c
      BY <1>3, <1>6, <3>11 DEF EventsInv, Pages
    <3>12. ASSUME NEW q \in Page \ {p}, page[q].pc = "observing"
           PROVE  conn'[page[q].conn] = conn[page[q].conn] /\ wire'[page[q].conn] = wire[page[q].conn]
      <4>1. PageFits(page[q]) BY <3>12 DEF EventsInv, Pages
      <4>2. page[q].conn \in Conn \ {c} BY <4>1, <3>11, <3>12 DEF PageFits, PageType
      <4> QED BY <4>2, <3>9
    <3>13. Watches(g.state, conn'[g.conn], wire'[g.conn]) BY <3>3, <3>9, <3>10
    <3>14. \A q \in Page \ {p} : page[q].conn # g.conn BY <3>3, <3>11
    <3> QED BY <1>6, <1>9, <3>2, <3>5, <3>9, <3>12, <3>13, <3>14, PageMoves
  <2> QED BY <2>6, <2>7
<1> QED BY <1>11, <1>12

-----------------------------------------------------------------------------
(***************************************************************************)
(* The theorems.                                                           *)
(***************************************************************************)

LEMMA EventsInit == EventsAssumption /\ Init => EventsInv
<1> SUFFICES ASSUME EventsAssumption, Init PROVE EventsInv OBVIOUS
<1>1. /\ row = [status |-> "accepted", reason |-> None] /\ ran = FALSE /\ chan = "none" /\ seq = 0
      /\ state = InitialState /\ ring = <<>> /\ subs = 0 /\ past = <<InitialState>>
      /\ conn = [c \in Conn |-> FreeConn] /\ wire = [c \in Conn |-> <<>>]
      /\ page = [p \in Page |-> [pc |-> "connecting", conn |-> None, state |-> None]]
      /\ revoked = FALSE /\ cut = 0
  BY DEF Init
<1>2. PICK i \in StateType : i = InitialState BY InitialIsState
<1>3. i.status = "accepted" BY <1>2 DEF InitialState
<1>4. past \in Seq(StateType) /\ Len(past) = 1 /\ past[1] = i BY <1>1, <1>2
<1>5. Channel
  <2>1. Upto(i, i) BY UptoItself
  <2>2. Grows(past)
    <3>1. \A a \in 1..Len(past), b \in 1..Len(past) : a <= b => Upto(past[a], past[b]) BY <1>4, <2>1
    <3>2. \A a \in 1..(Len(past) - 1) : past[a].status \notin Terminal BY <1>4
    <3>3. \A a \in 2..Len(past) : past[a].status # "accepted" BY <1>4
    <3> QED BY <1>2, <1>4, <3>1, <3>2, <3>3 DEF Grows
  <2>3. Fits(<<>>)
    <3>1. Bytes(<<>>) = 0 BY NoBytes
    <3>2. MaxEvents \in Nat /\ MaxBytes \in Nat BY DEF EventsAssumption
    <3>3. Len(<<>>) = 0 OBVIOUS
    <3> QED BY <3>1, <3>2, <3>3 DEF Fits
  <2>4. ring \in Seq(Frame) /\ Len(ring) = 0 BY <1>1
  <2>5. past[seq + 1] = state BY <1>1, <1>2, <1>4
  <2> QED BY <1>1, <1>4, <2>2, <2>3, <2>4, <2>5 DEF Channel
<1>6. Rows
  <2>1. row \in RowType BY <1>1 DEF RowType, Statuses, Active, Reasons
  <2>2. \A a \in 1..Len(past) : past[a].status = "accepted" BY <1>3, <1>4
  <2>3. cut \in 0..Outages BY <1>1 DEF EventsAssumption
  <2> QED BY <1>1, <2>1, <2>2, <2>3 DEF Rows, Confirmed
<1>7. Streams
  <2>1. <<>> \in Seq(Frame) /\ Len(<<>>) = 0 OBVIOUS
  <2>2. FreeConn \in ConnType BY <2>1 DEF FreeConn, ConnType
  <2>3. /\ FreeConn.pc = "free" /\ FreeConn.queue = <<>> /\ FreeConn.live = FALSE
        /\ FreeConn.gone = FALSE /\ FreeConn.late = 0
    BY DEF FreeConn
  <2>4. ConnFits(FreeConn, <<>>) BY <2>1, <2>2, <2>3 DEF ConnFits
  <2> QED BY <1>1, <2>4 DEF Streams
<1>8. Counted
  <2>1. \A c \in Conn : ~conn[c].live BY <1>1 DEF FreeConn
  <2>2. Live = {} BY <2>1 DEF Live
  <2>3. IsFiniteSet({}) /\ Cardinality({}) = 0 BY FS_EmptySet
  <2> QED BY <1>1, <2>2, <2>3 DEF Counted, EventsAssumption
<1>9. Pages
  <2>1. PICK g : g = [pc |-> "connecting", conn |-> None, state |-> None] OBVIOUS
  <2>2. g \in PageType /\ g.pc = "connecting" /\ g.conn = None /\ g.state = None BY <2>1 DEF PageType
  <2>3. PageFits(g) BY <2>2 DEF PageFits
  <2>4. \A p \in Page : page[p] = g BY <1>1, <2>1
  <2>5. page = [p \in Page |-> page[p]] BY <1>1
  <2> QED BY <2>2, <2>3, <2>4, <2>5 DEF Pages
<1> QED BY <1>5, <1>6, <1>7, <1>8, <1>9 DEF EventsInv

LEMMA EventsStay == ASSUME EventsInv, UNCHANGED vars PROVE EventsInv'
<1>1. Still BY DEF Still, vars
<1>2. Later /\ Channel' BY <1>1, StillIsLater
<1>3. Rows' BY DEF EventsInv, Rows, vars
<1>4. UNCHANGED <<conn, wire, page, subs>> BY DEF vars
<1>5. Streams' /\ Counted' /\ Pages' BY <1>2, <1>4, WatchersStay DEF EventsInv
<1> QED BY <1>2, <1>3, <1>5 DEF EventsInv

LEMMA EventsNext == EventsInv /\ [Next]_vars => EventsInv'
<1> SUFFICES ASSUME EventsInv, [Next]_vars PROVE EventsInv' OBVIOUS
<1>1. CASE Worker BY <1>1, WorkerKeeps
<1>2. CASE Reconcile BY <1>2, ReconcileKeeps
<1>3. CASE Revoke BY <1>3, RevokeKeeps
<1>4. CASE Restart BY <1>4, RestartKeeps
<1>5. ASSUME NEW c \in Conn, Stream(c) PROVE EventsInv' BY <1>5, StreamKeeps
<1>6. ASSUME NEW p \in Page, Observe(p) PROVE EventsInv' BY <1>6, ConnectKeeps, ReceiveKeeps, EndOfStreamKeeps DEF Observe
<1>7. ASSUME NEW p \in Page, Outage(p) PROVE EventsInv' BY <1>7, OutageKeeps
<1>8. ASSUME NEW p \in Page, Leave(p) PROVE EventsInv' BY <1>8, LeaveKeeps
<1>9. CASE AtRest BY <1>9, EventsStay DEF AtRest
<1>10. CASE UNCHANGED vars BY <1>10, EventsStay
<1> QED BY <1>1, <1>2, <1>3, <1>4, <1>5, <1>6, <1>7, <1>8, <1>9, <1>10 DEF Next

LEMMA EventsImply ==
  ASSUME EventsInv
  PROVE  TypeOK /\ PageMirrorsChannel /\ ShownOutcomeIsPersisted /\ ReducerNeverRefuses
         /\ SubscribersCounted /\ AtMostOneFrameLate
<1>1. EventsAssumption /\ Channel /\ Rows /\ Streams /\ Counted /\ Pages BY DEF EventsInv
<1>2. past \in Seq(StateType) /\ seq \in Nat /\ Len(past) = seq + 1 /\ past[seq + 1] = state
  BY <1>1 DEF Channel, Grows
<1>3. ASSUME NEW p \in Page, page[p].state # None
      PROVE  /\ page[p].state \in PageState /\ Mirrors(page[p].state)
             /\ Ahead(page[p].state) \/ Settled(page[p].state)
  <2>1. PageFits(page[p]) BY <1>1 DEF Pages
  <2> QED BY <2>1, <1>3 DEF PageFits, PageType
<1>4. TypeOK
  <2>1. \A i \in 1..Len(past) : past[i] \in StateType BY <1>2, ElementOfSeq
  <2>2. state \in StateType BY <1>2, ElementOfSeq
  <2>3. Last(past) = state BY <1>2 DEF Last
  <2>4. Fits(ring) /\ \A i \in 1..Len(ring) : ring[i].seq = seq - Len(ring) + i BY <1>1 DEF Channel
  <2>5. subs \in 0..MaxSubscribers BY <1>1 DEF Counted, EventsAssumption
  <2>6. \A c \in Conn : conn[c].pc \in {"free", "view", "check", "send", "loop", "read", "closing", "closed"}
    <3>1. TAKE c \in Conn
    <3>2. conn[c] \in ConnType BY <1>1 DEF Streams, ConnFits
    <3> QED BY <3>2 DEF ConnType
  <2>7. \A p \in Page : page[p].pc \in {"connecting", "observing", "done", "denied", "left"}
    <3>1. TAKE p \in Page
    <3>2. page[p] \in PageType BY <1>1 DEF Pages, PageFits
    <3> QED BY <3>2 DEF PageType
  <2>8. /\ row.status \in Active \cup Terminal /\ ran \in BOOLEAN /\ revoked \in BOOLEAN
        /\ chan \in {"none", "open", "dropped"} /\ cut \in 0..Outages
    BY <1>1 DEF Rows, RowType, Statuses
  <2> QED BY <1>2, <2>1, <2>2, <2>3, <2>4, <2>5, <2>6, <2>7, <2>8 DEF TypeOK
<1>5. PageMirrorsChannel
  <2>1. ASSUME NEW p \in Page, NEW s, s = page[p].state, s # None
        PROVE  /\ s.seq \in 0..seq
               /\ s.st = [past[s.seq + 1] EXCEPT !.status = s.st.status, !.reason = s.st.reason]
               /\ s.st.status # past[s.seq + 1].status => (s.seq = 0 \/ s.st.status \in Terminal)
    BY <2>1, <1>3 DEF Mirrors, Ahead, Settled
  <2> QED BY <2>1 DEF PageMirrorsChannel
<1>6. ShownOutcomeIsPersisted BY <1>3 DEF ShownOutcomeIsPersisted, Mirrors
<1>7. ReducerNeverRefuses
  <2>1. SUFFICES ASSUME NEW p \in Page, page[p].pc = "observing", wire[page[p].conn] # <<>>,
                        Head(wire[page[p].conn]).type # "auth_lost"
                 PROVE  ~Reduce(page[p].state, Head(wire[page[p].conn])).again
    BY DEF ReducerNeverRefuses
  <2>2. PICK s : s = page[p].state OBVIOUS
  <2>3. PICK c : c = page[p].conn OBVIOUS
  <2>4. PICK k : k = conn[c] OBVIOUS
  <2>5. PICK w : w = wire[c] OBVIOUS
  <2>6. /\ s \in {None} \cup PageState /\ Shown(s) /\ (s # None => s.st.status \notin Terminal)
        /\ w \in Seq(Frame) /\ k.queue \in Seq(Frame) /\ w # <<>> /\ Watches(s, k, w)
    BY <2>1, <2>2, <2>3, <2>4, <2>5, Observes
  <2>7. PICK e : e = Head(w) /\ e = w[1] BY <2>6, Rest
  <2>8. e.type # "auth_lost" BY <2>1, <2>3, <2>5, <2>7
  <2>9. PICK r : Takes(s, k, w, r) BY <1>1, <2>6, <2>7, <2>8, TakesFirst
  <2>10. Reduce(s, e).again = FALSE BY <2>7, <2>9 DEF Takes, Reduced
  <2> QED BY <2>2, <2>3, <2>5, <2>7, <2>10
<1>8. SubscribersCounted BY <1>1 DEF Counted, Live, SubscribersCounted
<1>9. AtMostOneFrameLate
  <2>1. ASSUME NEW c \in Conn PROVE conn[c].late <= 1
    <3>1. conn[c] \in ConnType BY <1>1 DEF Streams, ConnFits
    <3> QED BY <3>1 DEF ConnType
  <2> QED BY <2>1 DEF AtMostOneFrameLate
<1> QED BY <1>4, <1>5, <1>6, <1>7, <1>8, <1>9

LEMMA EventsAlways == EventsAssumption /\ Spec => []EventsInv
<1>1. EventsAssumption /\ Init => EventsInv BY EventsInit
<1>2. EventsInv /\ [Next]_vars => EventsInv' BY EventsNext
<1> QED BY <1>1, <1>2, PTL DEF Spec

\* Every variable has its type, and the ring stays within its two limits and ends with
\* the newest event.
THEOREM EventTypes == EventsAssumption /\ Spec => []TypeOK
<1>1. EventsInv => TypeOK BY EventsImply
<1> QED BY <1>1, EventsAlways, PTL

\* What a page shows at a sequence number is what the channel held after that event, but
\* for a persisted status ahead of it: across evictions from the ring, snapshots, cut
\* connections, restarts of the process and the retries of the report.
THEOREM PagesMirror == EventsAssumption /\ Spec => []PageMirrorsChannel
<1>1. EventsInv => PageMirrorsChannel BY EventsImply
<1> QED BY <1>1, EventsAlways, PTL

\* A page that shows a definite outcome shows the persisted one.
THEOREM OutcomesPersisted == EventsAssumption /\ Spec => []ShownOutcomeIsPersisted
<1>1. EventsInv => ShownOutcomeIsPersisted BY EventsImply
<1> QED BY <1>1, EventsAlways, PTL

\* No frame that the server sends makes the reducer ask for a snapshot: none is out of
\* order, leaves a gap or goes back.
THEOREM ReducerTakesAll == EventsAssumption /\ Spec => []ReducerNeverRefuses
<1>1. EventsInv => ReducerNeverRefuses BY EventsImply
<1> QED BY <1>1, EventsAlways, PTL

\* _subscribers counts the streams that hold a subscription, so no close finds it at zero
\* and the limit of subscribers holds.
THEOREM SubscribersAlwaysCounted == EventsAssumption /\ Spec => []SubscribersCounted
<1>1. EventsInv => SubscribersCounted BY EventsImply
<1> QED BY <1>1, EventsAlways, PTL

\* After the account lost its rights a stream sends at most one more frame: stream()
\* authorizes before every frame.
THEOREM OneFrameLate == EventsAssumption /\ Spec => []AtMostOneFrameLate
<1>1. EventsInv => AtMostOneFrameLate BY EventsImply
<1> QED BY <1>1, EventsAlways, PTL
=============================================================================
