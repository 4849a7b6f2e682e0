------------------------- MODULE MCExecutionEvents -------------------------
(***************************************************************************)
(* Two instances of ExecutionEvents; `part' says which one a behaviour is  *)
(* about.                                                                  *)
(***************************************************************************)
EXTENDS Naturals, TLC

CONSTANTS None, p1, p2, c1, c2, reader, line

VARIABLES part, row, ran, chan, seq, state, ring, subs, past, conn, wire, page, revoked, cut

all == <<part, row, ran, chan, seq, state, ring, subs, past, conn, wire, page, revoked, cut>>

(***************************************************************************)
(* One page: stages, tasks, drafts and a model retry on a ring of two      *)
(* events; a stop, a cut connection or a restart.                          *)
(***************************************************************************)
P == INSTANCE ExecutionEvents WITH
       Page <- {reader}, Conn <- {line}, TextField <- {}, ListField <- {"key_findings"}, MaxItems <- 2,
       MaxStage <- 1, Total <- 1, MaxEvents <- 2, MaxBytes <- 3, Overhead <- 1, MaxDelta <- 1,
       MaxDraft <- 4, MaxSubscribers <- 2, MaxText <- 2, MaxSequence <- 3, MaxReset <- 1, Outages <- 1,
       Happens <- {"stop", "outage", "restart"}, Outcome <- {"succeeded", "cancelled"}

(***************************************************************************)
(* Two pages on a channel for one subscriber; pages leave, the account     *)
(* loses its rights.                                                       *)
(***************************************************************************)
S == INSTANCE ExecutionEvents WITH
       Page <- {p1, p2}, Conn <- {c1, c2}, TextField <- {}, ListField <- {}, MaxItems <- 1,
       MaxStage <- 1, Total <- 0, MaxEvents <- 2, MaxBytes <- 4, Overhead <- 1, MaxDelta <- 2,
       MaxDraft <- 4, MaxSubscribers <- 1, MaxText <- 1, MaxSequence <- 1, MaxReset <- 0, Outages <- 1,
       Happens <- {"revoke", "leave"}, Outcome <- {"succeeded"}

ASSUME EventsRunAssumption == P!EventsAssumption /\ S!EventsAssumption

Init ==
  \/ part = "page" /\ P!Init
  \/ part = "subscribers" /\ S!Init

Next ==
  \/ part = "page" /\ P!Next /\ UNCHANGED part
  \/ part = "subscribers" /\ S!Next /\ UNCHANGED part

Spec == Init /\ [][Next]_all

(* The pages and connections of the second instance are alike. *)
PagesAndConnections == Permutations({p1, p2}) \cup Permutations({c1, c2})

-----------------------------------------------------------------------------
(* What a page shows is what the channel held at that sequence: ExecutionEvents. *)
PageMirrorsChannel == part = "page" => P!TypeOK /\ P!PageMirrorsChannel

(* The reducer's defences never have to act: ExecutionEvents. *)
ReducerNeverRefuses == part = "page" => P!ReducerNeverRefuses

(* A definite outcome on a page is the persisted one: ExecutionEvents. *)
ShownOutcomeIsPersisted == part = "page" => P!ShownOutcomeIsPersisted

(* The subscriber count is exact and within its limit, and a stream whose account lost its
   rights sends at most the frame it was authorized for: ExecutionEvents. *)
StreamsAccounted == part = "subscribers" => S!SubscribersCounted /\ S!AtMostOneFrameLate
=============================================================================
