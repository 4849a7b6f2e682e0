---------------------------- MODULE ReportStream ----------------------------
(***************************************************************************)
(* The report of an analysis while the model writes it (reporting.py,      *)
(* report_stream.py): chunks of JSON text are decoded as they come, the    *)
(* text of the shown fields is published as a draft, a call that           *)
(* breaks off is made once more, and the whole text is parsed and checked  *)
(* in the end.                                                             *)
(*                                                                         *)
(* A token stands for a character.  "T" and "L" written as a key name a    *)
(* shown text and a shown list (three and three in the code), "E" and "I"  *)
(* the lists of evidence and of incomplete tasks.  "D8" and "DC"           *)
(* are the four digits of a high and a low surrogate, "41" those of a      *)
(* letter, "1" a number, "?" a primitive that is none.                     *)
(***************************************************************************)
EXTENDS Naturals, Sequences, FiniteSets, SequencesExt

CONSTANTS
    Documents,  \* bound: the texts the model may write, a sequence of documents
    ChunkSize,  \* bound: tokens of a chunk
    MaxBytes,   \* MAX_REPORT_JSON_BYTES and MAX_DRAFT_BYTES, in tokens
    Results     \* the results of the tasks: a sequence of [id, status, empty, truncated]

\* What the constants must satisfy.
StreamAssumption == ChunkSize \in Nat \ {0} /\ MaxBytes \in Nat

VARIABLES
    pc,         \* "calling", "reading", "failed", "stopped", "done"
    attempt,    \* 0 or 1
    text,       \* the tokens the model is writing
    doc,        \* the document they render
    pos,        \* tokens received
    dec,        \* the decoder
    draft,      \* what the observer shows, by field and index
    problem     \* the reason of the failure
vars == <<pc, attempt, text, doc, pos, dec, draft, problem>>

----------------------------------------------------------------------------
(* Documents, and their text as a correct writer renders it. *)
Escape(c) ==
    CASE c = "newline" -> <<"\\", "n">>
      [] c = "emoji" -> <<"\\", "u", "D8", "\\", "u", "DC">>
      [] c = "letter" -> <<"\\", "u", "41">>
      [] c = "\"" -> <<"\\", c>>
      [] OTHER -> <<c>>
Quoted(s) == <<"\"">> \o FlattenSeq([i \in DOMAIN s |-> Escape(s[i])]) \o <<"\"">>
Joined(parts) ==
    FlattenSeq([i \in DOMAIN parts |-> IF i = 1 THEN parts[i] ELSE <<",">> \o parts[i]])
Item(v) == IF v.is = "text" THEN Quoted(v.of) ELSE v.of
Rendered(v) ==
    CASE v.is = "text" -> Quoted(v.of)
      [] v.is = "list" -> <<"[">> \o Joined([i \in DOMAIN v.of |-> Item(v.of[i])]) \o <<"]">>
      [] v.is = "raw" -> v.of
Render(d) ==
    <<"{">> \o Joined([i \in DOMAIN d |-> Quoted(<<d[i].key>>) \o <<":">> \o Rendered(d[i].value)])
            \o <<"}">>

\* The texts of the shown fields of a document, by field and index.
Shown(d) ==
    LET texts == {i \in DOMAIN d : d[i].key = "T" /\ d[i].value.is = "text"}
        lists == {i \in DOMAIN d : d[i].key = "L" /\ d[i].value.is = "list"}
        items(l) == {k \in DOMAIN l : l[k].is = "text"}
        at == {<<"T", 0, d[i].value.of>> : i \in texts}
                \cup UNION {{<<"L", k, d[i].value.of[k].of>> : k \in items(d[i].value.of)} : i \in lists}
    IN {e \in at : e[3] # << >>}
WellFormed(d) ==
    /\ \A i, j \in DOMAIN d : d[i].key = d[j].key => i = j
    /\ \A i \in DOMAIN d : d[i].value.is = "raw" => d[i].value.of # <<"?">>

----------------------------------------------------------------------------
(* The decoder *)
Frame(kind, state, root, field) ==
    [kind |-> kind, state |-> state, root |-> root, keys |-> {}, key |-> "none",
     field |-> field, count |-> 0]
NoString == [role |-> "none", field |-> "none", index |-> 0, key |-> << >>, mode |-> "plain"]
Fresh == [stack |-> << >>, started |-> FALSE, complete |-> FALSE, string |-> NoString,
          primitive |-> << >>, lengths |-> {}, bytes |-> 0, out |-> << >>, bad |-> FALSE]

Bad(d) == [d EXCEPT !.bad = TRUE]
Top(d) == Last(d.stack)
SetTop(d, f) == [d EXCEPT !.stack = Front(d.stack) \o <<f>>]
Push(d, f) == [d EXCEPT !.stack = Append(d.stack, f)]

CompleteValue(d) ==
    LET f == Top(d)
    IN SetTop(d, [f EXCEPT !.state = "comma_or_end", !.key = "none",
                           !.count = IF f.kind = "array" THEN @ + 1 ELSE @])

CloseContainer(d) ==
    LET e == [d EXCEPT !.stack = Front(d.stack)]
    IN IF e.stack = << >> THEN [e EXCEPT !.complete = TRUE] ELSE CompleteValue(e)

StartString(d, role, field, index) ==
    [d EXCEPT !.string = [NoString EXCEPT !.role = role, !.field = field, !.index = index]]

\* The parent is an object after its colon or an array that may have a value here.
StartValue(d, c) ==
    LET f == Top(d)
        key == IF f.kind = "object" /\ f.root THEN f.key ELSE "none"
    IN CASE c = "\"" /\ f.kind = "object" ->
              StartString(d, "value", IF key = "T" THEN "T" ELSE "none", 0)
         [] c = "\"" /\ f.kind = "array" ->
              StartString(d, "value", f.field, IF f.field # "none" THEN f.count + 1 ELSE 0)
         [] c = "{" -> Push(d, Frame("object", "key_or_end", FALSE, "none"))
         [] c = "[" -> Push(d, Frame("array", "value_or_end", FALSE,
                                     IF key = "L" THEN "L" ELSE "none"))
         [] c \in {"1", "?"} -> [d EXCEPT !.primitive = <<c>>]
         [] OTHER -> Bad(d)

ObjectChar(d, c) ==
    LET f == Top(d)
        to(state) == SetTop(d, [f EXCEPT !.state = state])
    IN CASE f.state \in {"key_or_end", "key_required"} ->
              IF c = "}" /\ f.state = "key_or_end" THEN CloseContainer(d)
              ELSE IF c = "\"" THEN StartString(d, "key", "none", 0) ELSE Bad(d)
         [] f.state = "colon" -> IF c = ":" THEN to("value") ELSE Bad(d)
         [] f.state = "value" -> StartValue(d, c)
         [] f.state = "comma_or_end" ->
              IF c = "," THEN to("key_required")
              ELSE IF c = "}" THEN CloseContainer(d) ELSE Bad(d)

ArrayChar(d, c) ==
    LET f == Top(d)
    IN IF f.state = "comma_or_end"
       THEN IF c = "," THEN SetTop(d, [f EXCEPT !.state = "value_required"])
            ELSE IF c = "]" THEN CloseContainer(d) ELSE Bad(d)
       ELSE IF c = "]" /\ f.state = "value_or_end" THEN CloseContainer(d) ELSE StartValue(d, c)

JsonChar(d, c) ==
    IF d.stack # << >>
    THEN IF Top(d).kind = "object" THEN ObjectChar(d, c) ELSE ArrayChar(d, c)
    ELSE IF d.complete \/ d.started \/ c # "{" THEN Bad(d)
    ELSE Push([d EXCEPT !.started = TRUE], Frame("object", "key_or_end", TRUE, "none"))

\* A character of a shown text goes to the delta of this chunk it continues, or opens one.
LengthOf(d, field, index) ==
    Cardinality({e \in d.lengths : e[1] = field /\ e[2] = index})
Extends(out, field, index, offset) ==
    /\ out # << >> /\ Last(out).field = field /\ Last(out).index = index
    /\ Last(out).offset + Len(Last(out).text) = offset
Emit(d, c) ==
    LET s == d.string
        offset == LengthOf(d, s.field, s.index)
        delta == [field |-> s.field, index |-> s.index, offset |-> offset, text |-> <<c>>]
    IN IF s.role = "key" THEN [d EXCEPT !.string.key = Append(s.key, c)]
       ELSE IF s.field = "none" THEN d
       ELSE IF d.bytes + 1 > MaxBytes THEN Bad(d)
       ELSE [d EXCEPT !.bytes = @ + 1, !.lengths = @ \cup {<<s.field, s.index, offset>>},
                      !.out = IF Extends(@, s.field, s.index, offset)
                              THEN Front(@) \o <<[Last(@) EXCEPT !.text = Append(@, c)]>>
                              ELSE Append(@, delta)]

CloseString(d) ==
    LET f == Top(d)
        e == [d EXCEPT !.string = NoString]
        key == IF Len(d.string.key) = 1 THEN d.string.key[1] ELSE "other"
    IN IF d.string.role # "key" THEN CompleteValue(e)
       ELSE IF key \in f.keys THEN Bad(d)
       ELSE SetTop(e, [f EXCEPT !.keys = @ \cup {key}, !.key = key, !.state = "colon"])

Mode(d, m) == [d EXCEPT !.string.mode = m]
\* plain, after a backslash, at the digits after \u, and the three steps to a low surrogate.
StringChar(d, c) ==
    LET m == d.string.mode
    IN CASE m = "low_slash" -> IF c = "\\" THEN Mode(d, "low_u") ELSE Bad(d)
         [] m = "low_u" -> IF c = "u" THEN Mode(d, "low") ELSE Bad(d)
         [] m = "low" -> IF c = "DC" THEN Emit(Mode(d, "plain"), "emoji") ELSE Bad(d)
         [] m = "digits" ->
              IF c = "D8" THEN Mode(d, "low_slash")
              ELSE IF c = "41" THEN Emit(Mode(d, "plain"), "letter") ELSE Bad(d)
         [] m = "escaped" ->
              IF c = "u" THEN Mode(d, "digits")
              ELSE IF c = "n" THEN Emit(Mode(d, "plain"), "newline")
              ELSE IF c \in {"\"", "\\"} THEN Emit(Mode(d, "plain"), c) ELSE Bad(d)
         [] m = "plain" ->
              IF c = "\"" THEN CloseString(d)
              ELSE IF c = "\\" THEN Mode(d, "escaped") ELSE Emit(d, c)

FinishPrimitive(d) ==
    IF d.primitive # <<"1">> THEN Bad(d) ELSE CompleteValue([d EXCEPT !.primitive = << >>])

Consume(d, c) ==
    IF d.bad THEN d
    ELSE IF d.string.role # "none" THEN StringChar(d, c)
    ELSE IF d.primitive = << >> THEN JsonChar(d, c)
    ELSE IF c \notin {",", "]", "}"} THEN [d EXCEPT !.primitive = Append(@, c)]
    ELSE LET e == FinishPrimitive(d) IN IF e.bad THEN e ELSE JsonChar(e, c)
Feed(d, chunk) == FoldLeft(Consume, [d EXCEPT !.out = << >>], chunk)
Finished(d) ==
    ~d.bad /\ d.primitive = << >> /\ d.string = NoString /\ d.stack = << >> /\ d.complete

----------------------------------------------------------------------------
(* The parsed report *)
\* Tasks that failed, were skipped, came back empty or were cut, in the order of the results.
IncompleteTasks ==
    LET incomplete(r) == r.status # "completed" \/ r.empty \/ r.truncated
        some == SelectSeq(Results, incomplete)
    IN [i \in DOMAIN some |-> some[i].id]
Completed == {Results[i].id : i \in {k \in DOMAIN Results : Results[k].status = "completed"}}

ValueOf(d, key) == (CHOOSE e \in Range(d) : e.key = key).value
Blank(s) == \A i \in DOMAIN s : s[i] = "newline"
Strip(s) == SelectSeq(s, LAMBDA c : c # "newline")     \* blanks stand at the ends only
TextsOf(v) == [i \in DOMAIN v.of |-> Strip(v.of[i].of)]
BadList(v) == v.is # "list" \/ \E i \in DOMAIN v.of : v.of[i].is # "text" \/ Blank(v.of[i].of)
IdsOf(v) == [i \in DOMAIN v.of |-> Strip(v.of[i].of)[1]]
ListFields == {"L", "E", "I"}

ReportProblem(d) ==
    IF {d[i].key : i \in DOMAIN d} # {"T"} \cup ListFields THEN "REPORT_FIELDS_INVALID"
    ELSE IF ValueOf(d, "T").is # "text" \/ Blank(ValueOf(d, "T").of) THEN "REPORT_TEXT_INVALID"
    ELSE IF \E k \in ListFields : BadList(ValueOf(d, k)) THEN "REPORT_LIST_INVALID"
    ELSE IF \E k \in ListFields : ~IsInjective(TextsOf(ValueOf(d, k))) THEN "REPORT_LIST_DUPLICATE"
    ELSE IF ~(Range(IdsOf(ValueOf(d, "E"))) \subseteq Completed) THEN "EVIDENCE_TASK_INVALID"
    ELSE IF IdsOf(ValueOf(d, "I")) # IncompleteTasks THEN "INCOMPLETE_TASKS_INVALID"
    ELSE "none"

----------------------------------------------------------------------------
(* The call of the model *)
Writes(d) == doc' = d /\ text' = Render(d)
Init ==
    /\ pc = "calling" /\ attempt = 0 /\ pos = 0 /\ dec = Fresh /\ draft = {} /\ problem = "none"
    /\ doc = << >> /\ text = << >>

Fail(reason) ==
    pc' = "failed" /\ problem' = reason /\ UNCHANGED <<attempt, text, doc, pos, dec, draft>>

\* Each attempt has a decoder and a text of its own.
Call ==
    /\ pc = "calling"
    /\ pc' = "reading" /\ pos' = 0 /\ dec' = Fresh
    /\ \E i \in DOMAIN Documents : Writes(Documents[i])
    /\ UNCHANGED <<attempt, draft, problem>>

\* The observer takes a delta that continues what it shows.
TextOf(dr, field, index) ==
    LET mine == {e \in dr : e[1] = field /\ e[2] = index}
    IN IF mine = {} THEN << >> ELSE (CHOOSE e \in mine : TRUE)[3]
Publish(dr, delta) ==
    LET old == TextOf(dr, delta.field, delta.index)
    IN (dr \ {<<delta.field, delta.index, old>>})
         \cup {<<delta.field, delta.index,
                 SubSeq(old, 1, delta.offset) \o delta.text>>}

\* A chunk is counted, decoded and then published; one that cannot be decoded is not.
ReadChunk ==
    /\ pc = "reading" /\ pos < Len(text)
    /\ \E n \in 1..ChunkSize :
          /\ pos + n <= Len(text)
          /\ LET d == Feed(dec, SubSeq(text, pos + 1, pos + n))
             IN IF pos + n > MaxBytes THEN Fail("RESPONSE_TOO_LARGE")
                ELSE IF d.bad THEN Fail("RESPONSE_NOT_JSON")
                ELSE /\ dec' = d /\ pos' = pos + n
                     /\ draft' = FoldLeft(Publish, draft, d.out)
                     /\ UNCHANGED <<pc, attempt, text, doc, problem>>

\* Mutant: a retry that goes on with the draft of the call that broke off.
KeepDraft == UNCHANGED draft

Reset == draft' = {}
\* The call breaks off, before the first chunk or between two.
BreakOff ==
    /\ pc = "reading"
    /\ \/ /\ attempt = 1 /\ Fail("PROVIDER_CALL_FAILED")
       \/ /\ attempt = 0 /\ pc' = "calling" /\ attempt' = 1 /\ Reset
          /\ UNCHANGED <<text, doc, pos, dec, problem>>

\* The text ends, where it should or before: a text that is cut short is not whole JSON.
EndOfText ==
    /\ pc = "reading"
    /\ IF ~(Finished(dec) /\ pos = Len(text)) THEN Fail("RESPONSE_NOT_JSON")
       ELSE IF ReportProblem(doc) # "none" THEN Fail(ReportProblem(doc))
       ELSE pc' = "done" /\ UNCHANGED <<attempt, text, doc, pos, dec, draft, problem>>

Stop ==
    /\ pc \in {"calling", "reading"} /\ pc' = "stopped"
    /\ UNCHANGED <<attempt, text, doc, pos, dec, draft, problem>>

Next == Call \/ ReadChunk \/ BreakOff \/ EndOfText \/ Stop
Spec == Init /\ [][Next]_vars

----------------------------------------------------------------------------
TypeOK ==
    /\ pc \in {"calling", "reading", "failed", "stopped", "done"} /\ attempt \in {0, 1}
    /\ pos \in 0..Len(text)

IsPrefixOf(e, S) == \E s \in S : s[1] = e[1] /\ s[2] = e[2] /\ IsPrefix(e[3], s[3])
(***************************************************************************)
(* The draft is the report: while a text that is valid comes in, what is   *)
(* shown of every field is a beginning of what the text says, at its own   *)
(* index; when the text is accepted it is all of it, and nothing is left   *)
(* of a text that broke off; however it is cut into chunks, a valid text   *)
(* is never refused by the decoder and one that is not valid is never      *)
(* accepted, nor one that hides a task that did not succeed or leans on it *)
(* (reporting.py:170, report_stream.py:55).                                *)
(***************************************************************************)
DraftIsReport ==
    /\ pc = "reading" /\ WellFormed(doc) => \A e \in draft : IsPrefixOf(e, Shown(doc))
    /\ pc = "done" => /\ WellFormed(doc) /\ draft = Shown(doc)
                      /\ \A r \in Range(Results) :
                           r.status # "completed" =>
                             /\ r.id \notin Range(IdsOf(ValueOf(doc, "E")))
                             /\ r.id \in Range(IdsOf(ValueOf(doc, "I")))
    /\ pc = "reading" /\ WellFormed(doc) => Finished(Feed(dec, SubSeq(text, pos + 1, Len(text))))
=============================================================================
