--------------------------- MODULE QueryApi_proofs ---------------------------
(***************************************************************************)
(* Proofs about the HTTP entry for every number of requests, accounts and  *)
(* conversations, every limit and every clock.                             *)
(*                                                                         *)
(* Most steps of a request only move it along: they keep its account, its  *)
(* conversation, its lease and its place (Moves).  For those the invariant *)
(* is preserved at once; the steps that write a conversation or a counter  *)
(* are treated one by one.                                                 *)
(***************************************************************************)
EXTENDS QueryApi, FiniteSetTheorems, TLAPS

-----------------------------------------------------------------------------
(***************************************************************************)
(* The inductive invariant.                                                *)
(***************************************************************************)
Pcs == {"idle", "ready", "reserve", "over"} \cup Placed
TurnRec == [pc : Pcs, kind : Kinds \cup {None}, owner : Owner \cup {None}, conv : Conv \cup {None},
            base : Base \cup {None}, deadline : Nat,
            answer : {None, "refused", "success", "lost"}]

Types ==
  /\ now \in 0..MaxTime /\ accepting \in BOOLEAN
  /\ active \in [Owner -> 0..MaxPerUser] /\ running \subseteq Owner
  /\ entries \in [Conv -> Entry \cup {None}]
  /\ \A c \in Conv : entries[c] # None => entries[c].at <= now
  /\ told \in [Conv -> Seq(Turn)]
  /\ turn \in [Turn -> TurnRec]

\* What the stage of a request says of it.
Shape(r) ==
  /\ r.pc \notin {"idle", "over"} => r.owner \in Owner
  /\ r.pc = "acquire" => r.conv \in Conv
  /\ r.pc \in {"revise", "commit", "abort"} => r.base # None
  /\ r.base # None => r.conv \in Conv /\ r.pc \in Held \cup {"release"}
  /\ r.pc = "abort" => r.answer = "refused"
Shapes == \A t \in Turn : Shape(turn[t])

\* The last verdict, and the one under way, are no older than what they saw.
Evidence ==
  /\ up \in [is : BOOLEAN, last : Nat] /\ (up.is => up.last = now)
  /\ monitor \in [found : {None, "ready", "not_ready"}, since : Nat, probes : Nat]
  /\ monitor.found = "ready" => monitor.since <= up.last
  /\ monitor.found # None => now <= monitor.since + ProbeTime
  /\ checks.verdict \in {"unknown", "ready", "not_ready"}
  /\ checks.verdict = "ready" => checks.at \in Nat /\ checks.at <= up.last + ProbeTime

\* A conversation is what its owner was told.
Chain == \A c \in Conv : entries[c] # None => entries[c].state = told[c] /\ told[c] # << >>

\* A token belongs to a turn that holds it, and the conversation is as that turn found it.
HolderOf(c, e, t, r) ==
  (e # None /\ e.token = t) =>
    /\ r.conv = c /\ r.pc \in Held /\ r.owner = e.owner
    /\ r.base = [at |-> e.at, state |-> e.state]
Tokens == \A c \in Conv, t \in Turn : HolderOf(c, entries[c], t, turn[t])

\* A turn that holds no token any more took one of a conversation that has expired since.
LeasedOf(t) ==
  turn[t].base # None =>
    LET c == turn[t].conv IN
    /\ told[c] # << >>
    /\ turn[t].pc \in Held => \/ entries[c] # None /\ entries[c].token = t
                              \/ now >= turn[t].base.at + TTL
    /\ turn[t].pc = "release" /\ turn[t].answer = "lost" => now >= turn[t].base.at + TTL
Leased == \A t \in Turn : LeasedOf(t)
LostHasBase == \A t \in Turn : turn[t].pc = "release" /\ turn[t].answer = "lost" => turn[t].base # None

\* The places of an account are those of its requests.
Places == \A o \in Owner : active[o] = Cardinality(PlacedOf(o))

IInv == /\ QueryApiAssumption /\ Types /\ Shapes /\ Evidence /\ Chain /\ Tokens
        /\ Leased /\ LostHasBase /\ Places

(* The invariant holds of a process that has just started. *)
LEMMA InitInv == QueryApiAssumption /\ Init => IInv
<1> SUFFICES ASSUME QueryApiAssumption, Init PROVE IInv
  OBVIOUS
<1> USE DEF Init, Waiting
<1>1. Types
  <2>1. Waiting \in TurnRec
    BY DEF TurnRec, Pcs
  <2>2. turn \in [Turn -> TurnRec]
    BY <2>1
  <2>3. told \in [Conv -> Seq(Turn)] /\ entries \in [Conv -> Entry \cup {None}]
    OBVIOUS
  <2> QED BY <2>2, <2>3 DEF Types, QueryApiAssumption
<1>2. Shapes
  BY DEF Shapes, Shape
<1>3. Evidence
  BY DEF Evidence, QueryApiAssumption
<1>4. Chain /\ Tokens
  BY DEF Chain, Tokens, HolderOf
<1>5. Leased /\ LostHasBase
  <2>1. \A t \in Turn : turn[t].base = None /\ turn[t].pc = "idle"
    OBVIOUS
  <2> QED BY <2>1 DEF Leased, LeasedOf, LostHasBase
<1>6. Places
  <2> SUFFICES ASSUME NEW o \in Owner PROVE active[o] = Cardinality(PlacedOf(o))
    BY DEF Places
  <2>1. PlacedOf(o) = {}
    BY DEF PlacedOf, Placed, Held
  <2> QED BY <2>1, FS_EmptySet
<1> QED BY <1>1, <1>2, <1>3, <1>4, <1>5, <1>6 DEF IInv

-----------------------------------------------------------------------------
(***************************************************************************)
(* Steps that only move a request along.                                   *)
(***************************************************************************)
Store == <<accepting, active, entries, told>>

\* The request t is now r, and its lease and its place are the ones it had.
Keeps(t, r) ==
  /\ r \in TurnRec /\ Shape(r)
  /\ r.base = turn[t].base
  /\ turn[t].base # None => /\ r.conv = turn[t].conv /\ r.owner = turn[t].owner
                            /\ turn[t].pc \in Held <=> r.pc \in Held
  /\ turn[t].pc \in Placed <=> r.pc \in Placed
  /\ turn[t].pc \in Placed => r.owner = turn[t].owner
  /\ r.answer = "lost" => r.pc # "release"
Moves(t) == \E r : Keeps(t, r) /\ turn' = [turn EXCEPT ![t] = r]

(* A request that moves is where it moved to, and the others are where they were. *)
LEMMA Moved ==
  ASSUME Types, NEW t \in Turn, Moves(t)
  PROVE  /\ Keeps(t, turn'[t])
         /\ \A u \in Turn \ {t} : turn'[u] = turn[u]
         /\ turn' \in [Turn -> TurnRec]
<1>1. PICK r : Keeps(t, r) /\ turn' = [turn EXCEPT ![t] = r]
  BY DEF Moves
<1>2. turn'[t] = r /\ (\A u \in Turn \ {t} : turn'[u] = turn[u]) /\ turn' \in [Turn -> TurnRec]
  BY <1>1 DEF Types, Keeps
<1> QED BY <1>1, <1>2

(* The places of every account are the ones they were, when every request keeps its own. *)
LEMMA PlacesKept ==
  ASSUME Places, UNCHANGED active,
         \A u \in Turn : /\ turn[u].pc \in Placed <=> turn'[u].pc \in Placed
                         /\ turn[u].pc \in Placed => turn'[u].owner = turn[u].owner
  PROVE  Places'
<1> SUFFICES ASSUME NEW o \in Owner PROVE active'[o] = Cardinality(PlacedOf(o)')
  BY DEF Places
<1>1. PlacedOf(o)' = PlacedOf(o)
  BY DEF PlacedOf
<1> QED BY <1>1 DEF Places

(* A step that moves a request and leaves the conversations, the places and the clock alone
   preserves the invariant. *)
LEMMA MovesKeeps ==
  ASSUME IInv, NEW t \in Turn, Moves(t), UNCHANGED Store, UNCHANGED world, running' \subseteq Owner
  PROVE  IInv'
<1> USE DEF IInv, Store, world
<1>0. /\ Keeps(t, turn'[t])
      /\ \A u \in Turn \ {t} : turn'[u] = turn[u]
      /\ turn' \in [Turn -> TurnRec]
  BY Moved
<1>1. Types'
  BY <1>0 DEF Types
<1>2. Shapes'
  BY <1>0 DEF Shapes, Keeps
<1>3. Evidence'
  BY DEF Evidence
<1>4. Chain'
  BY DEF Chain
<1>5. Tokens'
  <2> SUFFICES ASSUME NEW c \in Conv, NEW u \in Turn PROVE HolderOf(c, entries[c], u, turn'[u])
    BY DEF Tokens
  <2>1. HolderOf(c, entries[c], u, turn[u])
    BY DEF Tokens
  <2>2. CASE u # t
    BY <2>1, <2>2, <1>0
  <2>3. CASE u = t /\ entries[c] # None /\ entries[c].token = t
    <3>1. entries[c] \in Entry
      BY <2>3 DEF Types
    <3>2. turn[t].base = [at |-> entries[c].at, state |-> entries[c].state] /\ turn[t].base # None
      BY <3>1, <2>1, <2>3 DEF HolderOf, QueryApiAssumption, Base, Entry
    <3> QED BY <2>1, <2>3, <3>2, <1>0 DEF HolderOf, Keeps
  <2>4. CASE ~(entries[c] # None /\ entries[c].token = u)
    BY <2>4 DEF HolderOf
  <2> QED BY <2>2, <2>3, <2>4
<1>6. Leased'
  BY <1>0 DEF Leased, LeasedOf, Keeps
<1>7. LostHasBase'
  BY <1>0 DEF LostHasBase, Keeps
<1>8. Places'
  BY <1>0, PlacesKept DEF Keeps
<1>9. QueryApiAssumption'
  BY DEF QueryApiAssumption, Turn, Entry, Base
<1> QED BY <1>1, <1>2, <1>3, <1>4, <1>5, <1>6, <1>7, <1>8, <1>9

(* What a step may change of a request: its stage and its answer. *)
LEMMA GoKeeps ==
  ASSUME IInv, NEW t \in Turn, NEW pc, Go(t, pc), pc \in Pcs, Shape([turn[t] EXCEPT !.pc = pc]),
         turn[t].base # None => (turn[t].pc \in Held <=> pc \in Held),
         turn[t].pc \in Placed <=> pc \in Placed,
         pc # "release"
  PROVE  Moves(t)
<1> DEFINE r == [turn[t] EXCEPT !.pc = pc]
<1>1. turn[t] \in TurnRec
  BY DEF IInv, Types
<1>2. r \in TurnRec
  BY <1>1 DEF TurnRec
<1>3. Keeps(t, r)
  BY <1>1, <1>2 DEF Keeps, TurnRec
<1>4. turn' = [turn EXCEPT ![t] = r]
  BY DEF Go
<1> QED BY <1>3, <1>4 DEF Moves

\* The answer of a turn that touches no table.
LEMMA ReplyKeeps ==
  ASSUME IInv, NEW t \in Turn, NEW pc, NEW answer, Reply(t, pc, answer), pc \in Pcs,
         answer \in {"refused", "success"}, Shape([turn[t] EXCEPT !.pc = pc, !.answer = answer]),
         turn[t].base # None => (turn[t].pc \in Held <=> pc \in Held),
         turn[t].pc \in Placed <=> pc \in Placed
  PROVE  Moves(t)
<1> DEFINE r == [turn[t] EXCEPT !.pc = pc, !.answer = answer]
<1>1. turn[t] \in TurnRec
  BY DEF IInv, Types
<1>2. r \in TurnRec
  BY <1>1 DEF TurnRec
<1>3. Keeps(t, r)
  BY <1>1, <1>2 DEF Keeps, TurnRec
<1>4. turn' = [turn EXCEPT ![t] = r]
  BY DEF Reply
<1> QED BY <1>3, <1>4 DEF Moves

(* A request without a place or a lease may simply end. *)
LEMMA OverKeeps ==
  ASSUME IInv, NEW t \in Turn, Over(t), turn[t].pc \in {"idle", "ready", "reserve"}
  PROVE  Moves(t)
<1> DEFINE r == [Waiting EXCEPT !.pc = "over"]
<1>1. turn[t] \in TurnRec /\ Shape(turn[t])
  BY DEF IInv, Types, Shapes
<1>2. turn[t].base = None
  BY <1>1 DEF Shape, Held
<1>3. r \in TurnRec /\ r.base = None /\ r.pc = "over"
  BY DEF TurnRec, Pcs, Waiting, IInv, QueryApiAssumption
<1>4. Shape(r)
  BY <1>3 DEF Shape, Waiting
<1>5. turn' = [turn EXCEPT ![t] = r]
  BY DEF Over
<1>6. r.answer = None
  BY DEF Waiting
<1>7. Keeps(t, r)
  BY <1>2, <1>3, <1>4, <1>6 DEF Keeps, Placed, Held
<1> QED BY <1>5, <1>7 DEF Moves

(* The steps of a request that only move it: its authorization, the readiness check, the
   revision, the start and the end of its work, the guard of the analyses. *)
LEMMA RequestMoves ==
  ASSUME IInv, NEW t \in Turn,
         \/ Begin(t) \/ CheckReady(t) \/ Revise(t) \/ Execute(t) \/ Executed(t)
         \/ Guard(t) \/ Analysed(t)
  PROVE  IInv'
<1>0. turn[t] \in TurnRec /\ Shape(turn[t])
  BY DEF IInv, Types, Shapes
<1> USE DEF Pcs, Placed, Held
<1>1. CASE Begin(t)
  <2>1. turn[t].base = None /\ turn[t].pc = "idle"
    BY <1>1, <1>0 DEF Begin, Shape
  <2>2. PICK o \in Owner, k \in Kinds, c \in Conv \cup {None},
             decision \in {"allow", "deny", "unavailable"}, audited \in BOOLEAN :
          IF decision = "allow" /\ audited
          THEN turn' = [turn EXCEPT ![t] = [@ EXCEPT !.pc = "ready", !.owner = o, !.kind = k, !.conv = c]]
          ELSE Over(t)
    BY <1>1 DEF Begin
  <2> DEFINE r == [turn[t] EXCEPT !.pc = "ready", !.owner = o, !.kind = k, !.conv = c]
  <2>3. CASE turn' = [turn EXCEPT ![t] = r]
    <3>1. r \in TurnRec
      BY <1>0 DEF TurnRec
    <3>2. Shape(r)
      BY <1>0, <2>1 DEF Shape, TurnRec
    <3>3. Keeps(t, r)
      BY <1>0, <2>1, <3>1, <3>2 DEF Keeps, TurnRec
    <3>4. Moves(t)
      BY <2>3, <3>3 DEF Moves
    <3>5. UNCHANGED Store /\ UNCHANGED world /\ running' \subseteq Owner
      BY <1>1 DEF Begin, Store, IInv, Types
    <3> QED BY <3>4, <3>5, MovesKeeps
  <2>4. CASE Over(t)
    <3>1. Moves(t)
      BY <2>1, <2>4, OverKeeps
    <3>2. UNCHANGED Store /\ UNCHANGED world /\ running' \subseteq Owner
      BY <1>1 DEF Begin, Store, IInv, Types
    <3> QED BY <3>1, <3>2, MovesKeeps
  <2> QED BY <2>2, <2>3, <2>4
<1>2. CASE CheckReady(t)
  <2>1. turn[t].pc = "ready" /\ (Go(t, "reserve") \/ Over(t))
    BY <1>2 DEF CheckReady
  <2>2. Moves(t)
    <3>1. Shape([turn[t] EXCEPT !.pc = "reserve"])
      BY <1>0, <2>1 DEF Shape, TurnRec
    <3>2. CASE Go(t, "reserve")
      BY <2>1, <3>1, <3>2, GoKeeps
    <3>3. CASE Over(t)
      BY <2>1, <3>3, OverKeeps
    <3> QED BY <2>1, <3>2, <3>3
  <2>3. UNCHANGED Store /\ UNCHANGED world /\ running' \subseteq Owner
    BY <1>2 DEF CheckReady, Store, IInv, Types
  <2> QED BY <2>2, <2>3, MovesKeeps
<1>3. ASSUME turn[t].pc \in {"revise", "execute", "running"}, Reply(t, Refused(t), "refused") PROVE Moves(t)
  <2> DEFINE r == [turn[t] EXCEPT !.pc = Refused(t), !.answer = "refused"]
  <2>1. CASE turn[t].base = None
    <3>1. Refused(t) = "release"
      BY <2>1 DEF Refused
    <3>2. Shape(r)
      BY <1>0, <1>3, <2>1, <3>1 DEF Shape, TurnRec
    <3> QED BY <1>3, <2>1, <3>1, <3>2, ReplyKeeps
  <2>2. CASE turn[t].base # None
    <3>1. Refused(t) = "abort"
      BY <2>2 DEF Refused
    <3>2. Shape(r)
      BY <1>0, <1>3, <2>2, <3>1 DEF Shape, TurnRec
    <3> QED BY <1>3, <2>2, <3>1, <3>2, ReplyKeeps
  <2> QED BY <2>1, <2>2
<1>4. CASE Revise(t)
  <2>1. turn[t].pc = "revise" /\ (Go(t, "execute") \/ Reply(t, Refused(t), "refused"))
    BY <1>4 DEF Revise
  <2>2. Moves(t)
    <3>1. Shape([turn[t] EXCEPT !.pc = "execute"])
      BY <1>0, <2>1 DEF Shape, TurnRec
    <3>2. CASE Go(t, "execute")
      BY <2>1, <3>1, <3>2, GoKeeps
    <3> QED BY <2>1, <3>2, <1>3
  <2>3. UNCHANGED Store /\ UNCHANGED world /\ running' \subseteq Owner
    BY <1>4 DEF Revise, Store, IInv, Types
  <2> QED BY <2>2, <2>3, MovesKeeps
<1>5. CASE Execute(t)
  <2>1. turn[t].pc = "execute" /\ (Go(t, "running") \/ Reply(t, Refused(t), "refused"))
    BY <1>5 DEF Execute
  <2>2. Moves(t)
    <3>1. Shape([turn[t] EXCEPT !.pc = "running"])
      BY <1>0, <2>1 DEF Shape, TurnRec
    <3>2. CASE Go(t, "running")
      BY <2>1, <3>1, <3>2, GoKeeps
    <3> QED BY <2>1, <3>2, <1>3
  <2>3. UNCHANGED Store /\ UNCHANGED world /\ running' \subseteq Owner
    BY <1>5 DEF Execute, Store, IInv, Types
  <2> QED BY <2>2, <2>3, MovesKeeps
<1>6. CASE Executed(t)
  <2>1. /\ turn[t].pc = "running"
        /\ \/ turn[t].base = None /\ Go(t, "create")
           \/ turn[t].base # None /\ Go(t, "commit")
           \/ Reply(t, Refused(t), "refused")
    BY <1>6 DEF Executed
  <2>2. Moves(t)
    <3>1. CASE turn[t].base = None /\ Go(t, "create")
      <4>1. Shape([turn[t] EXCEPT !.pc = "create"])
        BY <1>0, <2>1, <3>1 DEF Shape, TurnRec
      <4> QED BY <2>1, <3>1, <4>1, GoKeeps
    <3>2. CASE turn[t].base # None /\ Go(t, "commit")
      <4>1. Shape([turn[t] EXCEPT !.pc = "commit"])
        BY <1>0, <2>1, <3>2 DEF Shape, TurnRec
      <4> QED BY <2>1, <3>2, <4>1, GoKeeps
    <3> QED BY <2>1, <3>1, <3>2, <1>3
  <2>3. UNCHANGED Store /\ UNCHANGED world /\ running' \subseteq Owner
    BY <1>6 DEF Executed, Store, IInv, Types
  <2> QED BY <2>2, <2>3, MovesKeeps
<1>7. CASE Guard(t)
  <2>1. turn[t].pc = "guard" /\ turn[t].base = None /\ turn[t].owner \in Owner
    BY <1>0, <1>7 DEF Guard, Shape
  <2>2. Reply(t, "release", "refused") \/ Go(t, "analysing")
    BY <1>7 DEF Guard
  <2>3. Moves(t)
    <3>1. Shape([turn[t] EXCEPT !.pc = "analysing"]) /\ Shape([turn[t] EXCEPT !.pc = "release", !.answer = "refused"])
      BY <1>0, <2>1 DEF Shape, TurnRec
    <3>2. CASE Reply(t, "release", "refused")
      BY <2>1, <3>1, <3>2, ReplyKeeps
    <3>3. CASE Go(t, "analysing")
      BY <2>1, <3>1, <3>3, GoKeeps
    <3> QED BY <2>2, <3>2, <3>3
  <2>4. UNCHANGED Store /\ UNCHANGED world /\ running' \subseteq Owner
    BY <1>7, <2>1 DEF Guard, Store, IInv, Types
  <2> QED BY <2>3, <2>4, MovesKeeps
<1>8. CASE Analysed(t)
  <2>1. turn[t].pc = "analysing" /\ turn[t].base = None
    BY <1>0, <1>8 DEF Analysed, Shape
  <2>2. PICK answer \in {"success", "refused"} : Reply(t, "release", answer)
    BY <1>8 DEF Analysed
  <2>3. Moves(t)
    <3>1. Shape([turn[t] EXCEPT !.pc = "release", !.answer = answer])
      BY <1>0, <2>1 DEF Shape, TurnRec
    <3> QED BY <2>1, <2>2, <3>1, ReplyKeeps
  <2>4. UNCHANGED Store /\ UNCHANGED world /\ running' \subseteq Owner
    BY <1>8 DEF Analysed, Store, IInv, Types
  <2> QED BY <2>3, <2>4, MovesKeeps
<1> QED BY <1>1, <1>2, <1>4, <1>5, <1>6, <1>7, <1>8

-----------------------------------------------------------------------------
(***************************************************************************)
(* Steps that take or give back a place.                                   *)
(***************************************************************************)
(* The request t takes a place of the account o. *)
LEMMA PlaceTaken ==
  ASSUME IInv, NEW t \in Turn, NEW o \in Owner,
         turn[t].pc \notin Placed, turn'[t].pc \in Placed, turn'[t].owner = o,
         \A u \in Turn \ {t} : turn'[u] = turn[u],
         active'[o] = active[o] + 1, \A p \in Owner \ {o} : active'[p] = active[p]
  PROVE  Places'
<1> SUFFICES ASSUME NEW p \in Owner PROVE active'[p] = Cardinality(PlacedOf(p)')
  BY DEF Places
<1>1. active[p] = Cardinality(PlacedOf(p))
  BY DEF IInv, Places
<1>2. CASE p # o
  <2>1. PlacedOf(p)' = PlacedOf(p)
    BY <1>2 DEF PlacedOf
  <2> QED BY <2>1, <1>1, <1>2
<1>3. CASE p = o
  <2>1. PlacedOf(p)' = PlacedOf(p) \cup {t} /\ t \notin PlacedOf(p)
    BY <1>3 DEF PlacedOf
  <2>2. IsFiniteSet(Turn)
    BY FS_Interval DEF Turn, IInv, QueryApiAssumption
  <2>3. PlacedOf(p) \in SUBSET Turn
    BY DEF PlacedOf
  <2>4. Cardinality(PlacedOf(p) \cup {t}) = Cardinality(PlacedOf(p)) + 1
    BY <2>1, <2>2, <2>3, FS_Subset, FS_AddElement
  <2> QED BY <2>1, <2>4, <1>1, <1>3
<1> QED BY <1>2, <1>3

(* The request t gives back its place of the account o. *)
LEMMA PlaceGiven ==
  ASSUME IInv, NEW t \in Turn, NEW o \in Owner,
         turn[t].pc \in Placed, turn[t].owner = o, turn'[t].pc \notin Placed,
         \A u \in Turn \ {t} : turn'[u] = turn[u],
         active'[o] = active[o] - 1, \A p \in Owner \ {o} : active'[p] = active[p]
  PROVE  Places' /\ active[o] # 0
<1>0. \A p \in Owner : active[p] = Cardinality(PlacedOf(p))
  BY DEF IInv, Places
<1>1. PlacedOf(o)' = PlacedOf(o) \ {t} /\ t \in PlacedOf(o)
  BY DEF PlacedOf
<1>2. IsFiniteSet(PlacedOf(o))
  <2>1. IsFiniteSet(Turn)
    BY FS_Interval DEF Turn, IInv, QueryApiAssumption
  <2>2. PlacedOf(o) \in SUBSET Turn
    BY DEF PlacedOf
  <2> QED BY <2>1, <2>2, FS_Subset
<1>3. Cardinality(PlacedOf(o) \ {t}) = Cardinality(PlacedOf(o)) - 1
  BY <1>1, <1>2, FS_RemoveElement
<1>4. active[o] # 0
  BY <1>0, <1>1, <1>2, FS_EmptySet
<1>5. \A p \in Owner \ {o} : PlacedOf(p)' = PlacedOf(p)
  BY DEF PlacedOf
<1>6. active'[o] = Cardinality(PlacedOf(o)')
  BY <1>0, <1>1, <1>3
<1>7. \A p \in Owner \ {o} : active'[p] = Cardinality(PlacedOf(p)')
  BY <1>0, <1>5
<1> QED BY <1>4, <1>6, <1>7 DEF Places

(* What a step leaves to a request it is not a step of. *)
Untouched(u) ==
  \A c \in Conv : \/ entries'[c] = entries[c]
                  \/ Expired(c) /\ entries'[c] = None
                  \/ /\ entries[c] = None \/ entries[c].token # u
                     /\ entries'[c] = None \/ entries'[c].token # u

(* A request that is left alone keeps its conversation, or loses it to its expiry. *)
LEMMA Bystander ==
  ASSUME IInv, NEW u \in Turn, turn'[u] = turn[u], UNCHANGED now, Untouched(u),
         \A c \in Conv : told[c] # << >> => told'[c] # << >>
  PROVE  /\ \A c \in Conv : HolderOf(c, entries'[c], u, turn'[u])
         /\ LeasedOf(u)'
<1>1. ASSUME NEW c \in Conv PROVE HolderOf(c, entries'[c], u, turn'[u])
  <2>1. HolderOf(c, entries[c], u, turn[u])
    BY DEF IInv, Tokens
  <2> QED BY <2>1 DEF HolderOf, Untouched
<1>2. LeasedOf(u)'
  <2>1. CASE turn[u].base = None
    BY <2>1 DEF LeasedOf
  <2>2. CASE turn[u].base # None
    <3> DEFINE c == turn[u].conv
    <3>1. c \in Conv /\ LeasedOf(u)
      BY <2>2 DEF IInv, Shapes, Shape, Leased
    <3>2. ASSUME entries[c] # None, entries[c].token = u, ~(entries'[c] # None /\ entries'[c].token = u)
          PROVE  now >= turn[u].base.at + TTL
      <4>1. Expired(c)
        BY <3>1, <3>2 DEF Untouched
      <4>2. HolderOf(c, entries[c], u, turn[u]) /\ entries[c] \in Entry
        BY <3>1, <3>2 DEF IInv, Tokens, Types
      <4>3. turn[u].base.at = entries[c].at
        BY <3>2, <4>2 DEF HolderOf
      <4> QED BY <4>1, <4>3 DEF Expired
    <3> HIDE DEF c
    <3> QED BY <2>2, <3>1, <3>2 DEF LeasedOf, c
  <2> QED BY <2>1, <2>2
<1> QED BY <1>1, <1>2

(* A step of the request t that leaves the clock alone preserves the invariant, when it does
   for t and for the conversations. *)
LEMMA StepKeeps ==
  ASSUME IInv, NEW t \in Turn, UNCHANGED world, accepting' \in BOOLEAN, UNCHANGED running,
         \A u \in Turn \ {t} : turn'[u] = turn[u] /\ Untouched(u),
         turn' \in [Turn -> TurnRec], Shape(turn'[t]),
         active' \in [Owner -> 0..MaxPerUser], Places',
         entries' \in [Conv -> Entry \cup {None}], told' \in [Conv -> Seq(Turn)],
         \A c \in Conv : entries'[c] # None => entries'[c].at <= now,
         Chain', \A c \in Conv : told[c] # << >> => told'[c] # << >>,
         \A c \in Conv : HolderOf(c, entries'[c], t, turn'[t]), LeasedOf(t)',
         turn'[t].pc = "release" /\ turn'[t].answer = "lost" => turn'[t].base # None
  PROVE  IInv'
<1>1. Types'
  BY DEF IInv, Types, world
<1>2. Shapes'
  BY DEF IInv, Shapes
<1>3. Evidence'
  BY DEF IInv, Evidence, world
<1>4. \A u \in Turn \ {t} : (\A c \in Conv : HolderOf(c, entries'[c], u, turn'[u])) /\ LeasedOf(u)'
  BY Bystander DEF world
<1>5. Tokens'
  BY <1>4 DEF Tokens
<1>6. Leased'
  BY <1>4 DEF Leased
<1>7. LostHasBase'
  BY DEF IInv, LostHasBase
<1>8. QueryApiAssumption'
  BY DEF IInv, QueryApiAssumption, Turn, Entry, Base
<1> QED BY <1>1, <1>2, <1>3, <1>5, <1>6, <1>7, <1>8 DEF IInv

(* Where an action puts a request, as facts about the function that keeps them. *)
LEMMA Put ==
  ASSUME Types, NEW t \in Turn, NEW r \in TurnRec, turn' = [turn EXCEPT ![t] = r]
  PROVE  /\ turn'[t] = r /\ \A u \in Turn \ {t} : turn'[u] = turn[u]
         /\ turn' \in [Turn -> TurnRec]
  BY DEF Types

\* The place of the owner is taken, or refused.
LEMMA ReserveKeeps == ASSUME IInv, NEW t \in Turn, ReserveOwner(t) PROVE IInv'
<1> DEFINE o == turn[t].owner
           r == [turn[t] EXCEPT !.pc = AfterReserve(t), !.deadline = now + Limit]
<1>0. turn[t] \in TurnRec /\ Shape(turn[t]) /\ turn[t].pc = "reserve" /\ turn[t].base = None /\ o \in Owner
  BY DEF IInv, Types, Shapes, Shape, ReserveOwner, Held
<1>1. CASE /\ active[o] < MaxPerUser
           /\ active' = [active EXCEPT ![o] = @ + 1] /\ turn' = [turn EXCEPT ![t] = r]
  <2>0. UNCHANGED world /\ UNCHANGED <<accepting, running, entries, told>>
    BY DEF ReserveOwner
  <2>1. AfterReserve(t) \in {"guard", "execute", "acquire"}
        /\ (AfterReserve(t) = "acquire" => turn[t].conv \in Conv)
    BY <1>0 DEF AfterReserve, TurnRec
  <2>2. r \in TurnRec
    <3>1. now + Limit \in Nat
      BY DEF IInv, Types, QueryApiAssumption
    <3> QED BY <3>1, <2>1, <1>0 DEF TurnRec, Pcs, Placed, Held
  <2>3. /\ turn'[t] = r /\ \A u \in Turn \ {t} : turn'[u] = turn[u]
        /\ turn' \in [Turn -> TurnRec]
    BY <1>1, <2>2, Put DEF IInv
  <2>4. r.pc = AfterReserve(t) /\ r.owner = o /\ r.base = None /\ r.conv = turn[t].conv
    BY <1>0 DEF TurnRec
  <2> HIDE DEF r
  <2>5. Shape(turn'[t])
    BY <1>0, <2>1, <2>3, <2>4 DEF Shape
  <2>6. /\ active'[o] = active[o] + 1 /\ \A p \in Owner \ {o} : active'[p] = active[p]
        /\ active' \in [Owner -> 0..MaxPerUser]
    BY <1>0, <1>1 DEF IInv, Types, QueryApiAssumption
  <2>7. Places'
    BY <1>0, <2>1, <2>3, <2>4, <2>6, PlaceTaken DEF Placed, Held
  <2>8. \A u \in Turn \ {t} : Untouched(u)
    BY <2>0 DEF Untouched
  <2>9. \A c \in Conv : HolderOf(c, entries'[c], t, turn'[t])
    <3> SUFFICES ASSUME NEW c \in Conv, entries[c] # None, entries[c].token = t PROVE FALSE
      BY <2>0 DEF HolderOf
    <3> QED BY <1>0 DEF IInv, Tokens, HolderOf, Held
  <2>10. LeasedOf(t)' /\ (turn'[t].pc = "release" => FALSE)
    BY <2>1, <2>3, <2>4 DEF LeasedOf
  <2>11. /\ entries' \in [Conv -> Entry \cup {None}] /\ told' \in [Conv -> Seq(Turn)] /\ accepting' \in BOOLEAN
         /\ \A c \in Conv : entries'[c] # None => entries'[c].at <= now
         /\ Chain'
    BY <2>0 DEF IInv, Types, Chain
  <2> QED BY <2>0, <2>3, <2>5, <2>6, <2>7, <2>8, <2>9, <2>10, <2>11, StepKeeps
<1>2. CASE Over(t) /\ UNCHANGED active
  <2>1. Moves(t)
    BY <1>0, <1>2, OverKeeps
  <2>2. UNCHANGED Store /\ UNCHANGED world /\ running' \subseteq Owner
    BY <1>2 DEF ReserveOwner, Store, IInv, Types
  <2> QED BY <2>1, <2>2, MovesKeeps
<1> QED BY <1>1, <1>2 DEF ReserveOwner

\* The place of the owner is given back.
LEMMA ReleaseKeeps == ASSUME IInv, NEW t \in Turn, Release(t) PROVE IInv'
<1> DEFINE o == turn[t].owner
           r == [Waiting EXCEPT !.pc = "over"]
<1>0. turn[t] \in TurnRec /\ Shape(turn[t]) /\ turn[t].pc = "release" /\ o \in Owner
  BY DEF IInv, Types, Shapes, Shape, Release
<1>1. /\ UNCHANGED world /\ UNCHANGED <<accepting, running, entries, told>>
      /\ active' = [active EXCEPT ![o] = @ - 1] /\ turn' = [turn EXCEPT ![t] = r]
  BY DEF Release, Over
<1>2. r \in TurnRec /\ r.pc = "over" /\ r.base = None
  BY DEF TurnRec, Pcs, Waiting, IInv, QueryApiAssumption
<1>3. /\ turn'[t] = r /\ \A u \in Turn \ {t} : turn'[u] = turn[u]
      /\ turn' \in [Turn -> TurnRec]
  BY <1>1, <1>2, Put DEF IInv
<1> HIDE DEF r
<1>4. Shape(turn'[t])
  BY <1>2, <1>3 DEF Shape
<1>5. active'[o] = active[o] - 1 /\ \A p \in Owner \ {o} : active'[p] = active[p]
  BY <1>0, <1>1 DEF IInv, Types
<1>6. Places' /\ active[o] # 0
  BY <1>0, <1>2, <1>3, <1>5, PlaceGiven DEF Placed, Held
<1>7. active' \in [Owner -> 0..MaxPerUser]
  BY <1>0, <1>1, <1>6 DEF IInv, Types, QueryApiAssumption
<1>8. \A u \in Turn \ {t} : Untouched(u)
  BY <1>1 DEF Untouched
<1>9. \A c \in Conv : HolderOf(c, entries'[c], t, turn'[t])
  <2> SUFFICES ASSUME NEW c \in Conv, entries[c] # None, entries[c].token = t PROVE FALSE
    BY <1>1 DEF HolderOf
  <2> QED BY <1>0 DEF IInv, Tokens, HolderOf, Held
<1>10. LeasedOf(t)' /\ turn'[t].pc # "release"
  BY <1>2, <1>3 DEF LeasedOf
<1>11. /\ entries' \in [Conv -> Entry \cup {None}] /\ told' \in [Conv -> Seq(Turn)] /\ accepting' \in BOOLEAN
       /\ \A c \in Conv : entries'[c] # None => entries'[c].at <= now
       /\ Chain'
  BY <1>1 DEF IInv, Types, Chain
<1> QED BY <1>1, <1>3, <1>4, <1>6, <1>7, <1>8, <1>9, <1>10, <1>11, StepKeeps

-----------------------------------------------------------------------------
(***************************************************************************)
(* Steps that write a conversation.                                        *)
(***************************************************************************)
(* A step of the request t that writes conversations and keeps its place. *)
LEMMA WriteKeeps ==
  ASSUME IInv, NEW t \in Turn, NEW r \in TurnRec, turn' = [turn EXCEPT ![t] = r],
         UNCHANGED <<active, accepting, running>>, UNCHANGED world,
         turn[t].pc \in Placed, r.pc \in Placed, r.owner = turn[t].owner, Shape(r),
         \A u \in Turn \ {t} : Untouched(u),
         entries' \in [Conv -> Entry \cup {None}], told' \in [Conv -> Seq(Turn)],
         \A c \in Conv : entries'[c] # None => entries'[c].at <= now,
         Chain', \A c \in Conv : told[c] # << >> => told'[c] # << >>,
         \A c \in Conv : HolderOf(c, entries'[c], t, r),
         r.base # None => /\ told'[r.conv] # << >>
                          /\ r.pc \in Held => entries'[r.conv] # None /\ entries'[r.conv].token = t
                          /\ r.pc = "release" /\ r.answer = "lost" => now >= r.base.at + TTL,
         r.pc = "release" /\ r.answer = "lost" => r.base # None
  PROVE  IInv'
<1>1. /\ turn'[t] = r /\ \A u \in Turn \ {t} : turn'[u] = turn[u]
      /\ turn' \in [Turn -> TurnRec]
  BY Put DEF IInv
<1>2. \A u \in Turn : /\ turn[u].pc \in Placed <=> turn'[u].pc \in Placed
                      /\ turn[u].pc \in Placed => turn'[u].owner = turn[u].owner
  BY <1>1
<1>3. Places'
  BY <1>2, PlacesKept DEF IInv
<1>4. active' \in [Owner -> 0..MaxPerUser] /\ accepting' \in BOOLEAN
  BY DEF IInv, Types
<1>5. LeasedOf(t)'
  BY <1>1 DEF LeasedOf, world
<1>6. \A c \in Conv : HolderOf(c, entries'[c], t, turn'[t])
  BY <1>1
<1>7. Shape(turn'[t])
  BY <1>1
<1>8. turn'[t].pc = "release" /\ turn'[t].answer = "lost" => turn'[t].base # None
  BY <1>1
<1> QED BY <1>1, <1>3, <1>4, <1>5, <1>6, <1>7, <1>8, StepKeeps

(* What a request in a stage is. *)
LEMMA TurnIs ==
  ASSUME IInv, NEW t \in Turn, turn[t].pc \in Placed
  PROVE  /\ turn[t] \in TurnRec /\ Shape(turn[t]) /\ turn[t].owner \in Owner
         /\ t # None
         /\ \A c \in Conv : HolderOf(c, entries[c], t, turn[t])
         /\ LeasedOf(t)
<1>1. turn[t] \in TurnRec /\ Shape(turn[t]) /\ t # None
  BY DEF IInv, Types, Shapes, QueryApiAssumption
<1>2. turn[t].owner \in Owner
  BY <1>1 DEF Shape, Placed, Held
<1> QED BY <1>1, <1>2 DEF IInv, Tokens, Leased

\* The entry of the conversation is leased to the turn, or refused.
LEMMA AcquireKeeps == ASSUME IInv, NEW t \in Turn, Acquire(t) PROVE IInv'
<1> DEFINE c == turn[t].conv
           gone == [turn[t] EXCEPT !.pc = "release", !.answer = "refused"]
           held == [turn[t] EXCEPT !.pc = "revise", !.base = [at |-> entries[c].at, state |-> entries[c].state]]
<1>0. /\ turn[t] \in TurnRec /\ Shape(turn[t]) /\ turn[t].pc = "acquire" /\ turn[t].base = None
      /\ c \in Conv /\ t # None
  <2>1. turn[t].pc = "acquire"
    BY DEF Acquire
  <2> QED BY <2>1, TurnIs DEF Shape, Placed, Held
<1>1. /\ UNCHANGED world /\ UNCHANGED <<accepting, active, running, told>>
  BY DEF Acquire
<1>2. \A d \in Conv : entries[d] = None \/ entries[d].token # t
  BY <1>0 DEF IInv, Tokens, HolderOf, Held
<1>3. /\ entries \in [Conv -> Entry \cup {None}] /\ told \in [Conv -> Seq(Turn)]
      /\ \A d \in Conv : entries[d] # None => entries[d].at <= now
      /\ Chain
  BY DEF IInv, Types
<1>4. gone \in TurnRec /\ Shape(gone)
  BY <1>0 DEF TurnRec, Pcs, Placed, Held, Shape
<1>5. gone.pc = "release" /\ gone.answer = "refused" /\ gone.base = None /\ gone.owner = turn[t].owner
  BY <1>0 DEF TurnRec
<1>6. CASE Reply(t, "release", "refused") /\ UNCHANGED entries
  <2>1. Moves(t)
    BY <1>0, <1>4, <1>6, ReplyKeeps DEF Pcs, Placed, Held
  <2>2. UNCHANGED Store /\ running' \subseteq Owner
    BY <1>1, <1>6 DEF Store, IInv, Types
  <2> QED BY <1>1, <2>1, <2>2, MovesKeeps
<1>7. CASE Reply(t, "release", "refused") /\ entries' = [entries EXCEPT ![c] = None] /\ Expired(c)
  <2>1. turn' = [turn EXCEPT ![t] = gone]
    BY <1>7 DEF Reply
  <2>2. /\ entries' \in [Conv -> Entry \cup {None}] /\ entries'[c] = None
        /\ \A d \in Conv \ {c} : entries'[d] = entries[d]
    BY <1>0, <1>3, <1>7
  <2>3. \A u \in Turn \ {t} : Untouched(u)
    BY <1>7, <2>2 DEF Untouched
  <2>4. Chain' /\ \A d \in Conv : entries'[d] # None => entries'[d].at <= now
    BY <1>1, <1>3, <2>2 DEF Chain
  <2>5. \A d \in Conv : HolderOf(d, entries'[d], t, gone)
    BY <1>2, <2>2 DEF HolderOf
  <2> HIDE DEF gone
  <2>6. gone.pc \in Placed /\ turn[t].pc \in Placed
    BY <1>0, <1>5 DEF Placed, Held
  <2> QED BY <1>1, <1>3, <1>4, <1>5, <2>1, <2>2, <2>3, <2>4, <2>5, <2>6, WriteKeeps
<1>8. CASE /\ ~Unavailable(t, c) /\ ~Conflict(c)
           /\ entries' = [entries EXCEPT ![c].token = t] /\ turn' = [turn EXCEPT ![t] = held]
  <2>1. entries[c] \in Entry /\ entries[c].owner = turn[t].owner /\ entries[c].token = None /\ entries[c] # None
    BY <1>0, <1>3, <1>8 DEF Unavailable, Conflict
  <2> DEFINE e == [entries[c] EXCEPT !.token = t]
  <2>2. e \in Entry /\ e # None
    BY <2>1 DEF Entry, IInv, QueryApiAssumption
  <2>3. e.token = t /\ e.at = entries[c].at /\ e.state = entries[c].state /\ e.owner = entries[c].owner
    BY <2>1 DEF Entry
  <2>4. entries'[c] = e /\ \A d \in Conv \ {c} : entries'[d] = entries[d]
    BY <1>0, <1>3, <1>8
  <2>5. entries' \in [Conv -> Entry \cup {None}]
    BY <1>0, <1>3, <1>8, <2>2
  <2> HIDE DEF e
  <2>6. held.base \in Base /\ held.base # None
    BY <1>0, <2>1 DEF Entry, Base, TurnRec, IInv, QueryApiAssumption
  <2>7. held.pc = "revise" /\ held.conv = c /\ held.owner = turn[t].owner /\ held.answer = turn[t].answer
        /\ held.base = [at |-> entries[c].at, state |-> entries[c].state]
    BY <1>0 DEF TurnRec
  <2>8. held \in TurnRec
    BY <1>0, <2>6 DEF TurnRec, Pcs, Placed, Held
  <2> HIDE DEF held
  <2>9. Shape(held)
    BY <1>0, <2>6, <2>7, TurnIs DEF Shape, Held, Placed
  <2>10. \A u \in Turn \ {t} : Untouched(u)
    <3> SUFFICES ASSUME NEW u \in Turn \ {t}, NEW d \in Conv, d = c
                 PROVE  entries[d].token # u /\ entries'[d].token # u
      BY <2>4 DEF Untouched
    <3> QED BY <2>1, <2>3, <2>4 DEF IInv, QueryApiAssumption
  <2>11. Chain' /\ \A d \in Conv : entries'[d] # None => entries'[d].at <= now
    BY <1>0, <1>1, <1>3, <2>1, <2>3, <2>4 DEF Chain
  <2>12. \A d \in Conv : HolderOf(d, entries'[d], t, held)
    <3>1. HolderOf(c, entries'[c], t, held)
      BY <2>1, <2>3, <2>4, <2>7 DEF HolderOf, Held
    <3>2. \A d \in Conv \ {c} : HolderOf(d, entries'[d], t, held)
      BY <1>2, <2>4 DEF HolderOf
    <3> QED BY <3>1, <3>2
  <2>13. told'[c] # << >> /\ entries'[c] # None /\ entries'[c].token = t
    BY <1>0, <1>1, <1>3, <2>1, <2>2, <2>3, <2>4 DEF Chain
  <2>14. turn[t].pc \in Placed /\ held.pc \in Placed /\ held.pc # "release"
    BY <1>0, <2>7 DEF Placed, Held
  <2> QED BY <1>1, <1>3, <1>8, <2>4, <2>5, <2>7, <2>8, <2>9, <2>10, <2>11, <2>12, <2>13, <2>14, WriteKeeps
<1> QED BY <1>6, <1>7, <1>8 DEF Acquire

(* A conversation that is given up by its holder: its token is cleared, nothing else. *)
LEMMA AbortedStore ==
  ASSUME IInv, NEW t \in Turn, turn[t].conv \in Conv, UNCHANGED told
  PROVE  LET E == Aborted(t) IN
         /\ E \in [Conv -> Entry \cup {None}]
         /\ \A d \in Conv : E[d] # None => entries[d] # None /\ E[d].at <= now /\ E[d].state = told[d]
         /\ \A d \in Conv : E[d] = None \/ E[d].token # t
         /\ \A d \in Conv : \/ E[d] = entries[d]
                            \/ E[d] # None /\ E[d].token = None /\ entries[d] # None /\ entries[d].token = t
<1> DEFINE c == turn[t].conv
           E == Aborted(t)
           e == [entries[c] EXCEPT !.token = None]
<1>0. /\ entries \in [Conv -> Entry \cup {None}] /\ c \in Conv /\ t # None
      /\ \A d \in Conv : entries[d] # None => entries[d].at <= now /\ entries[d].state = told[d]
      /\ \A d \in Conv : (entries[d] # None /\ entries[d].token = t) => turn[t].conv = d
  BY DEF IInv, Types, Chain, Tokens, HolderOf, QueryApiAssumption
<1>1. CASE entries[c] # None /\ entries[c].token = t
  <2>1. entries[c] \in Entry
    BY <1>0, <1>1
  <2>2. e \in Entry /\ e.token = None /\ e.at = entries[c].at /\ e.state = entries[c].state
    BY <2>1 DEF Entry
  <2>3. e # None
    BY <2>2 DEF IInv, QueryApiAssumption
  <2>4. E = [entries EXCEPT ![c].token = None]
    BY <1>1 DEF Aborted
  <2>5. E[c] = e /\ (\A d \in Conv \ {c} : E[d] = entries[d]) /\ E \in [Conv -> Entry \cup {None}]
    BY <1>0, <2>2, <2>4
  <2> HIDE DEF e, E
  <2> QED BY <1>0, <1>1, <2>1, <2>2, <2>3, <2>5 DEF E
<1>2. CASE ~(entries[c] # None /\ entries[c].token = t)
  <2>1. E = entries
    BY <1>2 DEF Aborted
  <2> HIDE DEF E
  <2> QED BY <1>0, <1>2, <2>1 DEF E
<1> QED BY <1>1, <1>2

(* A turn that gives its conversation up, whatever it answers. *)
LEMMA GivesUp ==
  ASSUME IInv, NEW t \in Turn, turn[t].pc \in {"commit", "abort"}, entries' = Aborted(t),
         UNCHANGED <<active, accepting, running, told>>, UNCHANGED world,
         NEW r \in TurnRec, turn' = [turn EXCEPT ![t] = r],
         r.pc = "release", r.conv = turn[t].conv, r.owner = turn[t].owner, r.base = turn[t].base,
         r.answer = "lost" => now >= turn[t].base.at + TTL
  PROVE  IInv'
<1> DEFINE c == turn[t].conv
<1>0. /\ Shape(turn[t]) /\ turn[t].base # None /\ c \in Conv /\ turn[t].owner \in Owner /\ LeasedOf(t)
  BY TurnIs DEF Shape, Placed, Held
<1>1. Chain /\ told \in [Conv -> Seq(Turn)] /\ None \notin Turn
  BY DEF IInv, Types, QueryApiAssumption
<1>2. /\ entries' \in [Conv -> Entry \cup {None}]
      /\ \A d \in Conv : entries'[d] # None => entries[d] # None /\ entries'[d].at <= now /\ entries'[d].state = told[d]
      /\ \A d \in Conv : entries'[d] = None \/ entries'[d].token # t
      /\ \A d \in Conv : \/ entries'[d] = entries[d]
                         \/ entries'[d] # None /\ entries'[d].token = None /\ entries[d] # None /\ entries[d].token = t
  BY <1>0, AbortedStore
<1>3. \A u \in Turn \ {t} : Untouched(u)
  BY <1>1, <1>2 DEF Untouched
<1>4. Chain'
  BY <1>1, <1>2 DEF Chain
<1>5. \A d \in Conv : HolderOf(d, entries'[d], t, r)
  BY <1>2 DEF HolderOf
<1>6. Shape(r) /\ r.pc \in Placed /\ turn[t].pc \in Placed /\ r.pc \notin Held
  BY <1>0 DEF Shape, Placed, Held
<1>7. told[c] # << >>
  BY <1>0 DEF LeasedOf
<1> QED BY <1>0, <1>1, <1>2, <1>3, <1>4, <1>5, <1>6, <1>7, WriteKeeps

\* A turn that failed gives its lease up.
LEMMA AbortKeeps == ASSUME IInv, NEW t \in Turn, Abort(t) PROVE IInv'
<1> DEFINE r == [turn[t] EXCEPT !.pc = "release"]
<1>1. /\ turn[t].pc = "abort" /\ entries' = Aborted(t)
      /\ UNCHANGED <<active, accepting, running, told>> /\ UNCHANGED world
      /\ turn' = [turn EXCEPT ![t] = r]
  BY DEF Abort, Go
<1>2. turn[t] \in TurnRec /\ turn[t].answer = "refused"
  BY <1>1, TurnIs DEF Shape, Placed, Held
<1>3. r \in TurnRec
  BY <1>2 DEF TurnRec, Pcs, Placed
<1>4. /\ r.pc = "release" /\ r.conv = turn[t].conv /\ r.owner = turn[t].owner /\ r.base = turn[t].base
      /\ r.answer = "refused"
  BY <1>2 DEF TurnRec
<1> HIDE DEF r
<1> QED BY <1>1, <1>3, <1>4, GivesUp

\* A turn commits on the entry it leased, or finds that it lost it.
LEMMA CommitKeeps == ASSUME IInv, NEW t \in Turn, Commit(t) PROVE IInv'
<1> DEFINE c == turn[t].conv
           told1 == [turn[t] EXCEPT !.pc = "release", !.answer = "success"]
           lost == [turn[t] EXCEPT !.pc = "release", !.answer = "lost"]
<1>0. turn[t].pc = "commit" /\ UNCHANGED <<accepting, active, running>> /\ UNCHANGED world
  BY DEF Commit
<1>1. /\ turn[t] \in TurnRec /\ Shape(turn[t]) /\ turn[t].owner \in Owner /\ t # None
      /\ turn[t].base # None /\ c \in Conv /\ LeasedOf(t)
      /\ \A d \in Conv : HolderOf(d, entries[d], t, turn[t])
  BY <1>0, TurnIs DEF Shape, Placed, Held
<1>2. CASE LeaseHeld(t)
  <2> DEFINE e == [entries[c] EXCEPT !.at = now, !.token = None, !.state = Append(turn[t].base.state, t)]
  <2>1. /\ entries' = [entries EXCEPT ![c].at = now, ![c].token = None,
                                      ![c].state = Append(turn[t].base.state, t)]
        /\ told' = [told EXCEPT ![c] = Append(@, t)]
        /\ turn' = [turn EXCEPT ![t] = told1]
    BY <1>2 DEF Commit, Reply
  <2>2. entries[c] # None /\ entries[c].token = t
    BY <1>2 DEF LeaseHeld
  <2>3. /\ entries \in [Conv -> Entry \cup {None}] /\ told \in [Conv -> Seq(Turn)] /\ now \in Nat
        /\ \A d \in Conv : entries[d] # None => entries[d].at <= now
        /\ Chain /\ None \notin Turn /\ None \notin Entry
    BY DEF IInv, Types, QueryApiAssumption
  <2>4. entries[c] \in Entry /\ entries[c].state = told[c] /\ turn[t].base.state = told[c]
    <3>1. turn[t].base = [at |-> entries[c].at, state |-> entries[c].state]
      BY <1>1, <2>2 DEF HolderOf
    <3> QED BY <1>1, <2>2, <2>3, <3>1 DEF Chain
  <2>5. Append(told[c], t) \in Seq(Turn) /\ Append(told[c], t) # << >>
    <3>1. told[c] \in Seq(Turn) /\ t \in Turn
      BY <1>1, <2>3
    <3>2. Append(told[c], t) \in Seq(Turn) /\ Len(Append(told[c], t)) = Len(told[c]) + 1 /\ Len(told[c]) \in Nat
      BY <3>1
    <3>3. Len(Append(told[c], t)) # 0
      BY <3>2
    <3> QED BY <3>2, <3>3
  <2>6. e \in Entry /\ e.at = now /\ e.token = None /\ e.state = Append(told[c], t) /\ e # None
    BY <2>3, <2>4, <2>5 DEF Entry
  <2>7. entries'[c] = e /\ (\A d \in Conv \ {c} : entries'[d] = entries[d]) /\ entries' \in [Conv -> Entry \cup {None}]
    BY <1>1, <2>1, <2>3, <2>6
  <2>8. /\ told'[c] = Append(told[c], t) /\ (\A d \in Conv \ {c} : told'[d] = told[d])
        /\ told' \in [Conv -> Seq(Turn)]
    BY <1>1, <2>1, <2>3, <2>5
  <2> HIDE DEF e
  <2>9. told1 \in TurnRec
    BY <1>1 DEF TurnRec, Pcs, Placed
  <2>10. /\ told1.pc = "release" /\ told1.answer = "success" /\ told1.conv = c /\ told1.owner = turn[t].owner
         /\ told1.base = turn[t].base
    BY <1>1 DEF TurnRec
  <2> HIDE DEF told1
  <2>11. Shape(told1) /\ told1.pc \in Placed /\ turn[t].pc \in Placed /\ told1.pc \notin Held
    BY <1>0, <1>1, <2>10 DEF Shape, Placed, Held
  <2>12. \A u \in Turn \ {t} : Untouched(u)
    <3> SUFFICES ASSUME NEW u \in Turn \ {t}, NEW d \in Conv, d = c
                 PROVE  entries[d].token # u /\ entries'[d].token # u
      BY <2>7 DEF Untouched
    <3> QED BY <2>2, <2>3, <2>6, <2>7
  <2>13. Chain' /\ (\A d \in Conv : told[d] # << >> => told'[d] # << >>)
    BY <2>3, <2>5, <2>6, <2>7, <2>8 DEF Chain
  <2>14. \A d \in Conv : HolderOf(d, entries'[d], t, told1)
    <3>1. HolderOf(c, entries'[c], t, told1)
      BY <1>1, <2>6, <2>7 DEF HolderOf
    <3>2. \A d \in Conv \ {c} : entries[d] = None \/ entries[d].token # t
      BY <1>1 DEF HolderOf
    <3>3. \A d \in Conv \ {c} : HolderOf(d, entries'[d], t, told1)
      BY <3>2, <2>7 DEF HolderOf
    <3> QED BY <3>1, <3>3
  <2>15. \A d \in Conv : entries'[d] # None => entries'[d].at <= now
    BY <2>3, <2>6, <2>7
  <2>16. told'[c] # << >>
    BY <2>5, <2>8
  <2> QED BY <1>0, <1>1, <2>1, <2>7, <2>8, <2>9, <2>10, <2>11, <2>12, <2>13, <2>14, <2>15, <2>16, WriteKeeps
<1>3. CASE ~LeaseHeld(t)
  <2>1. entries' = Aborted(t) /\ UNCHANGED told /\ turn' = [turn EXCEPT ![t] = lost]
    BY <1>3 DEF Commit, Reply
  <2>2. lost \in TurnRec
    BY <1>1 DEF TurnRec, Pcs, Placed
  <2>3. lost.pc = "release" /\ lost.conv = c /\ lost.owner = turn[t].owner /\ lost.base = turn[t].base
    BY <1>1 DEF TurnRec
  <2>4. now >= turn[t].base.at + TTL
    <3>1. ~(entries[c] # None /\ entries[c].token = t)
      BY <1>1, <1>3 DEF LeaseHeld, HolderOf
    <3> QED BY <3>1, <1>0, <1>1 DEF LeasedOf, Held
  <2> HIDE DEF lost
  <2> QED BY <1>0, <2>1, <2>2, <2>3, <2>4, GivesUp
<1> QED BY <1>2, <1>3

\* A first turn opens a conversation.
LEMMA CreateKeeps == ASSUME IInv, NEW t \in Turn, Create(t) PROVE IInv'
<1> DEFINE r == [turn[t] EXCEPT !.pc = "release", !.answer = "success"]
           e == [owner |-> turn[t].owner, at |-> now, state |-> <<t>>, token |-> None]
<1>0. turn[t].pc = "create" /\ UNCHANGED <<accepting, active, running>> /\ UNCHANGED world
  BY DEF Create
<1>1. /\ turn[t] \in TurnRec /\ Shape(turn[t]) /\ turn[t].owner \in Owner /\ t # None
      /\ turn[t].base = None
      /\ \A d \in Conv : entries[d] = None \/ entries[d].token # t
  <2>1. turn[t].pc \in Placed /\ turn[t].pc \notin Held \cup {"release"}
    BY <1>0 DEF Placed, Held
  <2> QED BY <2>1, TurnIs DEF Shape, HolderOf
<1>2. PICK c \in Conv : /\ told[c] = << >>
                        /\ entries' = [Purged EXCEPT ![c] = e]
                        /\ told' = [told EXCEPT ![c] = <<t>>]
  BY DEF Create
<1>3. turn' = [turn EXCEPT ![t] = r]
  BY DEF Create, Reply
<1>4. /\ entries \in [Conv -> Entry \cup {None}] /\ told \in [Conv -> Seq(Turn)] /\ now \in Nat
      /\ \A d \in Conv : entries[d] # None => entries[d].at <= now
      /\ Chain /\ None \notin Turn /\ None \notin Entry
  BY DEF IInv, Types, QueryApiAssumption
<1>5. <<t>> \in Seq(Turn) /\ <<t>> # << >>
  OBVIOUS
<1>6. e \in Entry /\ e.at = now /\ e.state = <<t>> /\ e.token = None
  BY <1>1, <1>4, <1>5 DEF Entry
<1>7. e # None
  BY <1>4, <1>6
<1> HIDE DEF e
<1>8. /\ Purged \in [Conv -> Entry \cup {None}]
      /\ \A d \in Conv : Purged[d] = entries[d] \/ (Expired(d) /\ Purged[d] = None)
  BY <1>4 DEF Purged
<1>9. /\ entries'[c] = e /\ (\A d \in Conv \ {c} : entries'[d] = Purged[d])
      /\ entries' \in [Conv -> Entry \cup {None}]
  BY <1>2, <1>6, <1>8
<1>10. /\ told'[c] = <<t>> /\ (\A d \in Conv \ {c} : told'[d] = told[d]) /\ told' \in [Conv -> Seq(Turn)]
  BY <1>2, <1>4, <1>5
<1>11. r \in TurnRec
  BY <1>1 DEF TurnRec, Pcs, Placed
<1>12. r.pc = "release" /\ r.answer = "success" /\ r.owner = turn[t].owner /\ r.base = None
  BY <1>1 DEF TurnRec
<1> HIDE DEF r
<1>13. Shape(r) /\ r.pc \in Placed /\ turn[t].pc \in Placed
  BY <1>0, <1>1, <1>12 DEF Shape, Placed
<1>14. entries[c] = None
  BY <1>2, <1>4 DEF Chain
<1>15. \A u \in Turn \ {t} : Untouched(u)
  BY <1>4, <1>6, <1>8, <1>9, <1>14 DEF Untouched
<1>16. Chain' /\ (\A d \in Conv : told[d] # << >> => told'[d] # << >>)
  BY <1>2, <1>4, <1>5, <1>6, <1>8, <1>9, <1>10 DEF Chain
<1>17. \A d \in Conv : entries'[d] # None => entries'[d].at <= now
  BY <1>4, <1>6, <1>8, <1>9
<1>18. \A d \in Conv : HolderOf(d, entries'[d], t, r)
  <2>1. \A d \in Conv : entries'[d] = None \/ entries'[d].token # t
    BY <1>1, <1>6, <1>8, <1>9
  <2> QED BY <2>1 DEF HolderOf
<1> QED BY <1>0, <1>3, <1>9, <1>10, <1>11, <1>12, <1>13, <1>15, <1>16, <1>17, <1>18, WriteKeeps

-----------------------------------------------------------------------------
(***************************************************************************)
(* The clock, the dependencies and the monitor.                            *)
(***************************************************************************)
(* A step that leaves the requests and the conversations alone and lets no time run back
   preserves the invariant, when it does for the evidence. *)
LEMMA WorldKeeps ==
  ASSUME IInv, UNCHANGED <<active, running, entries, told, turn>>, accepting' \in BOOLEAN,
         now' \in 0..MaxTime, now <= now', Evidence'
  PROVE  IInv'
<1>0. now \in Nat /\ now' \in Nat /\ TTL \in Nat
  BY DEF IInv, Types, QueryApiAssumption
<1>1. Types'
  <2>1. \A c \in Conv : entries[c] # None => entries[c].at \in Nat /\ entries[c].at <= now
    BY DEF IInv, Types, Entry
  <2>2. \A c \in Conv : entries[c] # None => entries[c].at <= now'
    BY <1>0, <2>1
  <2> QED BY <2>2 DEF IInv, Types
<1>2. Shapes' /\ Chain' /\ Tokens' /\ LostHasBase'
  BY DEF IInv, Shapes, Chain, Tokens, LostHasBase
<1>3. Leased'
  <2> SUFFICES ASSUME NEW t \in Turn PROVE LeasedOf(t)'
    BY DEF Leased
  <2>1. LeasedOf(t) /\ turn[t] \in TurnRec
    BY DEF IInv, Leased, Types
  <2>2. turn[t].base # None => turn[t].base.at \in Nat
    BY <2>1 DEF TurnRec, Base
  <2>3. turn[t].base # None /\ now >= turn[t].base.at + TTL => now' >= turn[t].base.at + TTL
    BY <1>0, <2>2
  <2> QED BY <2>1, <2>3 DEF LeasedOf
<1>4. Places'
  BY PlacesKept DEF IInv
<1>5. QueryApiAssumption'
  BY DEF IInv, QueryApiAssumption, Turn, Entry, Base
<1> QED BY <1>1, <1>2, <1>3, <1>4, <1>5 DEF IInv

\* The health probe, the clock, the outage and the close.
LEMMA EnvironmentKeeps ==
  ASSUME IInv, ProbeLooks \/ RecordChecks \/ Tick \/ Outage \/ Close
  PROVE  IInv'
<1>0. /\ now \in 0..MaxTime /\ now <= now /\ accepting \in BOOLEAN /\ Evidence
      /\ ProbeTime \in Nat /\ MaxTime \in Nat
  BY DEF IInv, Types, QueryApiAssumption
<1>1. CASE ProbeLooks
  <2>1. Evidence'
    BY <1>0, <1>1 DEF Evidence, ProbeLooks
  <2> QED BY <1>0, <1>1, <2>1, WorldKeeps DEF ProbeLooks
<1>2. CASE RecordChecks
  <2>1. PICK verdict \in {"unknown", monitor.found} : checks' = [verdict |-> verdict, at |-> now]
    BY <1>2 DEF RecordChecks
  <2>2. /\ monitor.found # None /\ monitor' = [monitor EXCEPT !.found = None, !.since = 0]
        /\ UNCHANGED <<now, up>>
    BY <1>2 DEF RecordChecks
  <2>3. /\ up \in [is : BOOLEAN, last : Nat] /\ (up.is => up.last = now) /\ now \in Nat
        /\ monitor \in [found : {None, "ready", "not_ready"}, since : Nat, probes : Nat]
        /\ monitor.found = "ready" => monitor.since <= up.last
        /\ now <= monitor.since + ProbeTime
    BY <1>0, <2>2 DEF Evidence
  <2>4. monitor' \in [found : {None, "ready", "not_ready"}, since : Nat, probes : Nat] /\ monitor'.since = 0
        /\ monitor'.found = None
    BY <2>2, <2>3
  <2>5. monitor.found = "ready" => now <= up.last + ProbeTime
    BY <1>0, <2>3
  <2>6. checks'.verdict \in {"unknown", "ready", "not_ready"} /\ checks'.at = now
        /\ (checks'.verdict = "ready" => monitor.found = "ready")
    BY <2>1, <2>2, <2>3
  <2>7. Evidence'
    BY <2>2, <2>3, <2>4, <2>5, <2>6 DEF Evidence
  <2> QED BY <1>0, <1>2, <2>7, WorldKeeps DEF RecordChecks
<1>3. CASE Tick
  <2>1. Evidence'
    BY <1>0, <1>3 DEF Evidence, Tick
  <2>2. now' \in 0..MaxTime /\ now <= now' /\ accepting' \in BOOLEAN
    BY <1>0, <1>3 DEF Tick
  <2> QED BY <1>3, <2>1, <2>2, WorldKeeps DEF Tick
<1>4. CASE Outage
  <2>1. Evidence'
    BY <1>0, <1>4 DEF Evidence, Outage
  <2> QED BY <1>0, <1>4, <2>1, WorldKeeps DEF Outage
<1>5. CASE Close
  <2>1. Evidence' /\ UNCHANGED now
    BY <1>0, <1>5 DEF Evidence, Close, world
  <2> QED BY <1>0, <1>5, <2>1, WorldKeeps DEF Close
<1> QED BY <1>1, <1>2, <1>3, <1>4, <1>5

-----------------------------------------------------------------------------
(* No step breaks the invariant. *)
LEMMA NextKeeps == IInv /\ [Next]_vars => IInv'
<1> SUFFICES ASSUME IInv, [Next]_vars PROVE IInv'
  OBVIOUS
<1>1. CASE UNCHANGED vars
  <2>1. Evidence' /\ UNCHANGED <<active, running, entries, told, turn, accepting, now>>
    BY <1>1 DEF vars, Evidence, IInv
  <2>2. now \in 0..MaxTime /\ now <= now /\ accepting \in BOOLEAN
    BY DEF IInv, Types, QueryApiAssumption
  <2> QED BY <2>1, <2>2, WorldKeeps
<1>2. CASE ProbeLooks \/ RecordChecks \/ Tick \/ Outage \/ Close
  BY <1>2, EnvironmentKeeps
<1>3. ASSUME NEW t \in Turn,
             \/ Begin(t) \/ CheckReady(t) \/ ReserveOwner(t)
             \/ Acquire(t) \/ Revise(t) \/ Execute(t) \/ Executed(t)
             \/ Create(t) \/ Commit(t) \/ Abort(t)
             \/ Guard(t) \/ Analysed(t) \/ Release(t)
      PROVE  IInv'
  BY <1>3, RequestMoves, ReserveKeeps, AcquireKeeps, CreateKeeps, CommitKeeps, AbortKeeps, ReleaseKeeps
<1> QED BY <1>1, <1>2, <1>3 DEF Next

(* A conversation whose time is bounded is of the bounded type. *)
LEMMA Narrowed ==
  ASSUME NEW O, NEW N, NEW B, NEW S, NEW K, NEW x \in [owner : O, at : N, state : S, token : K], x.at \in B
  PROVE  x \in [owner : O, at : B, state : S, token : K]
  OBVIOUS

(* The invariant gives the three things a run checks in every state. *)
LEMMA InvariantSays == IInv => TypeOK /\ TurnsChain /\ NothingOrphaned
<1> SUFFICES ASSUME IInv PROVE TypeOK /\ TurnsChain /\ NothingOrphaned
  OBVIOUS
<1>1. TypeOK
  <2>1. \A c \in Conv : entries[c] = None
           \/ entries[c] \in [owner : Owner, at : 0..MaxTime, state : Seq(Turn), token : Turn \cup {None}]
    <3> SUFFICES ASSUME NEW c \in Conv, entries[c] # None
                 PROVE  entries[c] \in [owner : Owner, at : 0..MaxTime, state : Seq(Turn), token : Turn \cup {None}]
      OBVIOUS
    <3>1. entries[c] \in Entry /\ entries[c].at <= now /\ now \in 0..MaxTime /\ MaxTime \in Nat
      BY DEF IInv, Types, QueryApiAssumption
    <3>2. entries[c].at \in Nat
      BY <3>1 DEF Entry
    <3>3. entries[c].at \in 0..MaxTime
      BY <3>1, <3>2
    <3> QED BY <3>1, <3>3, Narrowed DEF Entry
  <2>2. \A t \in Turn : turn[t].pc \in Pcs
    BY DEF IInv, Types, TurnRec
  <2> QED BY <2>1, <2>2 DEF TypeOK, IInv, Types, Evidence, Pcs
<1>2. TurnsChain
  BY DEF TurnsChain, IInv, Chain, LostHasBase, Leased, LeasedOf
<1>3. NothingOrphaned
  <2>1. ASSUME NEW c \in Conv, entries[c] # None, entries[c].token # None
        PROVE  turn[entries[c].token].conv = c /\ turn[entries[c].token].pc \in Held
    <3>1. entries[c].token \in Turn
      BY <2>1 DEF IInv, Types, Entry
    <3> QED BY <2>1, <3>1 DEF IInv, Tokens, HolderOf
  <2>2. \A o \in Owner : active[o] = Cardinality(PlacedOf(o))
    BY DEF IInv, Places
  <2> QED BY <2>1, <2>2 DEF NothingOrphaned
<1> QED BY <1>1, <1>2, <1>3

(* A step from the invariant admits a request on recent evidence only. *)
LEMMA StepAdmits == IInv /\ [Next]_vars => EvidenceRecent
<1> SUFFICES ASSUME IInv, [Next]_vars, NEW t \in Turn, turn[t].pc = "ready", turn'[t].pc = "reserve"
             PROVE  now < up.last + Stale + ProbeTime
  BY DEF EvidenceRecent
<1>1. turn \in [Turn -> TurnRec] /\ Evidence /\ Stale \in Nat /\ ProbeTime \in Nat /\ now \in Nat
  BY DEF IInv, Types, QueryApiAssumption
<1>2. CASE Ready
  <2>1. checks.at \in Nat /\ checks.at <= up.last + ProbeTime /\ now < checks.at + Stale /\ up.last \in Nat
    BY <1>1, <1>2 DEF Ready, Evidence
  <2> QED BY <1>1, <2>1
<1>3. ASSUME NEW u \in Turn,
             \/ Begin(u) \/ ReserveOwner(u) \/ Acquire(u) \/ Revise(u) \/ Execute(u) \/ Executed(u)
             \/ Create(u) \/ Commit(u) \/ Abort(u) \/ Guard(u) \/ Analysed(u) \/ Release(u)
      PROVE  turn[u].pc # "ready" /\ (u # t => turn'[t] = turn[t])
  <2>1. turn[u].pc # "ready"
    BY <1>3 DEF Begin, ReserveOwner, Acquire, Revise, Execute, Executed, Create, Commit, Abort, Guard,
                Analysed, Release
  <2>2. ASSUME NEW r, turn' = [turn EXCEPT ![u] = r], u # t PROVE turn'[t] = turn[t]
    BY <1>1, <2>2
  <2>3. \E r : turn' = [turn EXCEPT ![u] = r]
    BY <1>3 DEF Begin, ReserveOwner, Acquire, Revise, Execute, Executed, Create, Commit, Abort, Guard,
                Analysed, Release, Go, Reply, Over
  <2> QED BY <2>1, <2>2, <2>3
<1>4. ASSUME NEW u \in Turn, CheckReady(u), u # t PROVE turn'[t] = turn[t]
  BY <1>1, <1>4 DEF CheckReady, Go, Over
<1>5. CheckReady(t) => Ready
  <2> SUFFICES ASSUME CheckReady(t), ~Ready PROVE FALSE
    OBVIOUS
  <2>1. turn'[t] = [Waiting EXCEPT !.pc = "over"]
    BY <1>1 DEF CheckReady, Over
  <2> QED BY <2>1 DEF Waiting
<1>6. CASE UNCHANGED turn
  BY <1>6
<1> QED BY <1>2, <1>3, <1>4, <1>5, <1>6 DEF Next, vars, ProbeLooks, RecordChecks, Tick, Outage, Close

(* The state of the HTTP entry has its type, whatever the requests, the limits and the clock. *)
THEOREM EntryTypeCorrect == QueryApiAssumption /\ Spec => []TypeOK
  BY InitInv, NextKeeps, InvariantSays, PTL DEF Spec

(* A conversation is the chain of the turns its owner was told succeeded, each built on all
   the ones before it, and a turn whose query succeeded is lost at the commit only when its
   conversation had been idle for the whole TTL (conversation.py). *)
THEOREM ConversationsChain == QueryApiAssumption /\ Spec => []TurnsChain
  BY InitInv, NextKeeps, InvariantSays, PTL DEF Spec

(* Nothing blocks a conversation or a place for good: a token belongs to a turn that still
   has to commit or abort, and the places of an account are exactly those of its requests
   that still have to release them (app.py _run_authorized_query, admission.py). *)
THEOREM PlacesAreReturned == QueryApiAssumption /\ Spec => []NothingOrphaned
  BY InitInv, NextKeeps, InvariantSays, PTL DEF Spec

(* A request passes the readiness check only on evidence younger than the staleness limit
   plus the time of a probe, however the monitor is delayed (operations.py snapshot,
   bootstrap/operations.py _run). *)
THEOREM AdmissionsAreRecent == QueryApiAssumption /\ Spec => AdmittedOnEvidence
  BY InitInv, NextKeeps, StepAdmits, PTL DEF Spec, AdmittedOnEvidence
=============================================================================
