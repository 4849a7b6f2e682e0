---------------------------------- MODULE MCQuery ----------------------------------
(****************************************************************************)
(* One instance of the online query: a star of one fact table with two      *)
(* roles of the calendar, a dimension with a key of two columns and one     *)
(* joined by a column that is not unique.                                   *)
(****************************************************************************)
EXTENDS QueryCalendar, QueryPipeline

------------------------------------------------------------------------------
(* The calendar *)

Day(y, m, d) == Date(y, m, d)
MCTodays == {Day(2023, 1, 1), Day(2023, 12, 31), Day(2024, 1, 7), Day(2024, 1, 31), Day(2024, 2, 29),
             Day(2024, 3, 31), Day(2024, 4, 1), Day(2024, 12, 30), Day(2025, 2, 28), Day(2025, 12, 31)}
Ask(f, g, a) == [form |-> f, grain |-> g, at |-> a]
DayTexts == {<<2024, 2, 29>>, <<2023, 2, 29>>, <<2024, 12, 31>>, <<2025, 12, 31>>, <<2026, 1, 1>>}
Numerals == {<<3>>, <<10>>, <<10, 2>>, <<2, 10>>, <<2, 10, 5>>, <<10, 10>>, <<2, 100>>, <<3, 3>>}
MCTimeExpressions ==
  {Ask(f, g, 0) : f \in Relative, g \in {"day", "week", "month", "quarter", "year"}}
    \cup {Ask("recent_days", "day", n) : n \in {1, 2, 366, 1000}}
    \cup {Ask("recent_months", "month", [n |-> n]) : n \in {1, 2, 12, 13, 36}}
    \cup {Ask("recent_months", "month", [han |-> s]) : s \in Numerals}
    \cup {Ask("range", "day", <<a, b>>) : a \in DayTexts, b \in DayTexts}
    \cup {Ask("day", "day", a) : a \in DayTexts}
    \cup {Ask("month", "month", <<y, m>>) : y \in {2022, 2024, 2026}, m \in {0, 1, 2, 12, 13}}
    \cup {Ask("quarter", "quarter", <<y, m>>) : y \in {2022, 2024}, m \in 1 .. 4}
    \cup {Ask("year", "year", <<y>>) : y \in 2022 .. 2026}
    \cup {Ask("other", "day", 0)}

Test(c, o, v) == [col |-> c, op |-> o, at |-> v, to |-> 0]
Between(a, b) == [col |-> "full_date", op |-> "between", at |-> a, to |-> b]
Edge3 == {Day(2024, 2, 1), Day(2024, 12, 31), Day(2025, 12, 31), Raised}
Tests == {Test("full_date", o, d) : o \in {"=", ">=", ">", "<", "<="}, d \in Edge3}
           \cup {Between(Day(2024, 2, 1), Day(2024, 2, 29)), Between(Day(2024, 12, 31), Day(2025, 12, 31))}
           \cup {Test("year", "=", v) : v \in {2024, 2025, Raised}} \cup {Test("month", "=", v) : v \in {0, 1, 2, 12, 13}}
           \cup {Test("quarter", "=", v) : v \in {0, 1, 4, 5}} \cup {Test("year", ">=", 2024)}
Mixed == {Test("full_date", "<=", Day(2024, 12, 31)), Test("year", "=", 2024), Test("month", "=", 2),
          Test("month", "=", 12), Test("quarter", "=", 1), Test("quarter", "=", 4)}
MCClauses == {<< >>} \cup {<<p>> : p \in Tests} \cup {<<p, q>> : p \in Tests, q \in Tests}
               \cup {<<p, q, r>> : p \in Mixed, q \in Mixed, r \in Mixed}

------------------------------------------------------------------------------
(* The published assets *)

Of(t, cs) == [i \in DOMAIN cs |-> <<t, cs[i]>>]
AllColumns == Of("fact", <<"amount", "margin", "status", "done", "placed", "buyer", "org", "zone">>)
                \o Of("date", <<"key", "full_date">>) \o Of("customer", <<"id", "org", "area", "name">>)
                \o Of("region", <<"zone", "title">>)
MCColumns == Elements(AllColumns)
FKey(id, target, from, to) == [id |-> id, source |-> "fact", target |-> target, from |-> from, to |-> to]
DoneKey == FKey("fk_done", "date", <<"done">>, <<"key">>)
MCEdges == {DoneKey, FKey("fk_placed", "date", <<"placed">>, <<"key">>),
            FKey("fk_buyer", "customer", <<"buyer", "org">>, <<"id", "org">>),
            FKey("fk_zone", "region", <<"zone">>, <<"zone">>)}
MCUniqueKeys == {<<"date", <<"key">>>>, <<"customer", <<"id", "org">>>>}
DoneTime == [ok |-> TRUE, source |-> "fact", col |-> "done", target |-> "date", filter |-> "full_date"]
Doc(n, ls, fn, c, val, deps) ==
  [name |-> n, labels |-> ls, source |-> "fact", formula |-> [fn |-> fn, col |-> c],
   filters |-> {[col |-> "status", val |-> val]}, time |-> DoneTime, deps |-> deps, ok |-> TRUE]
Sales == Doc("sales", {"sales", "revenue"}, "sum", "amount", "completed", {})
Lines == Doc("lines", {"lines"}, "count", "*", "completed", {})
Profit == Doc("profit", {"profit"}, "sum", "margin", "completed", {"sales"})
Returned == Doc("returned", {"returned"}, "sum", "amount", "returned", {})
Twin == Doc("twin", {"sales"}, "sum", "amount", "returned", {})
MCMetrics == {Sales, Lines, Profit, Returned, Twin}
MCMentions == [area |-> {"customer"}, name |-> {"customer"}, status |-> {"fact"}, title |-> {"region"},
               year |-> {"date"}, month |-> {"date"}]
MCGrains == [year |-> "year", month |-> "month"]
Bound(t, c, s) == [col |-> <<t, c>>, subject |-> s]
MCBindings == [area |-> Bound("customer", "area", "none"), name |-> Bound("customer", "name", "customer"),
               title |-> Bound("region", "title", "none"), status |-> Bound("fact", "status", "none")]
MCDateColumns == {<<"date", "key">>, <<"date", "full_date">>}
MCDateColumn == <<"date", "full_date">>
MCCalendarTerms == {"year", "month"}
MCBridges == {"bridge"}

------------------------------------------------------------------------------
(* Questions, answers of the vector store and texts of the model *)

NoSelect == [is |-> FALSE, fields |-> << >>, distinct |-> FALSE]
Cond(order, limit, having, select) ==
  [is |-> TRUE, order |-> order, limit |-> limit, having |-> having, select |-> select]
Plain == Cond(<< >>, NoLimit, {}, NoSelect)
By(kind, target, desc) == [kind |-> kind, target |-> target, desc |-> desc, first |-> FALSE]
Ask2(metrics, dims, filters, time, cond) ==
  [kind |-> "metric_analysis", metrics |-> metrics, dims |-> dims, filters |-> filters, time |-> time,
   subjects |-> {}, cond |-> cond]
In24 == [ok |-> TRUE, window |-> "w24"]
Top == Cond(<<By("metric", "sales", TRUE)>>, 3, {}, NoSelect)
Over == Cond(<< >>, NoLimit, {[metric |-> "sales", op |-> ">", val |-> "1000"]}, NoSelect)
Names == Cond(<<By("entity_field", "name", FALSE)>>, 3, {}, [is |-> TRUE, fields |-> <<"name">>, distinct |-> TRUE])
MCQuestions ==
  {Ask2(<<"sales">>, << >>, << >>, NoTime, NoCond), Ask2(<<"revenue">>, <<"area">>, << >>, In24, NoCond),
   Ask2(<<"sales">>, <<"title">>, << >>, NoTime, NoCond), Ask2(<<"sales">>, <<"year">>, << >>, NoTime, NoCond),
   Ask2(<<"sales", "lines">>, <<"area">>, << >>, NoTime, NoCond), Ask2(<<"sales", "returned">>, << >>, << >>, NoTime, NoCond),
   Ask2(<<"sales", "lines", "profit", "returned">>, << >>, << >>, NoTime, NoCond), Ask2(<< >>, << >>, << >>, NoTime, NoCond),
   Ask2(<<"sales">>, <<"area">>, << >>, In24, Top), Ask2(<<"sales">>, <<"area">>, << >>, NoTime, Over),
   Ask2(<<"sales">>, <<"area">>, << >>, NoTime, [Top EXCEPT !.order = << >>]),
   Ask2(<<"sales">>, << >>, <<"area">>, NoTime, Plain), Ask2(<<"sales", "lines">>, <<"month">>, << >>, In24, Plain),
   Ask2(<<"profit">>, <<"year">>, <<"status">>, In24, Plain), Ask2(<<"revenue">>, <<"area">>, << >>, NoTime, Top),
   Ask2(<<"lines">>, <<"area">>, << >>, NoTime, Top),
   [Ask2(<< >>, << >>, << >>, NoTime, Names) EXCEPT !.kind = "entity_lookup", !.subjects = {"customer"}],
   [Ask2(<< >>, << >>, <<"area">>, NoTime, Plain) EXCEPT !.kind = "entity_lookup", !.subjects = {"customer"}]}

Order4 == <<"fact", "date", "customer", "region">>
MCRanks == [tables |-> [t \in Elements(Order4) |-> CHOOSE i \in 1 .. 4 : Order4[i] = t],
            columns |-> [c \in MCColumns |-> CHOOSE i \in DOMAIN AllColumns : AllColumns[i] = c]]
Found == [l \in {"sales", "revenue", "lines", "profit", "returned"} |-> {m \in MCMetrics \ {Twin} : l \in m.labels}]
Even == [c \in MCColumns |-> IF c[2] \in {"key", "id", "org"} THEN 1 ELSE 5]
Hit(tables, metrics, columns, down) ==
  [tables |-> tables, metrics |-> metrics, columns |-> columns, ranks |-> MCRanks, down |-> down]
All == <<[fact |-> 9, date |-> 5, region |-> 4], [customer |-> 8, date |-> 6, region |-> 4]>>
MCHits ==
  {Hit(All, Found, Even, d) : d \in {"none", "snapshot", "embedding", "search", "columns", "definitions", "keys", "assembly", "no_retriever"}}
    \cup {Hit(<<[customer |-> 9, date |-> 9, region |-> 5]>>, Found, Even, "none"),
          Hit(<<[fact |-> 9]>>, Found, Even, "none"), Hit(<<[fact |-> 1]>>, Found, Even, "none"),
          Hit(All, [Found EXCEPT !["lines"] = {}, !["sales"] = {Sales, Returned, Twin}], Even, "none"),
          Hit(All, [Found EXCEPT !["sales"] = {Lines, Sales, Profit}], [c \in MCColumns |-> 1], "none"),
          Hit(<<[customer |-> 9, fact |-> 3]>>, Found, [c \in MCColumns |-> IF c[1] = "fact" THEN 9 ELSE 3], "none")}

Expr(fn, t, c) == [fn |-> fn, at |-> <<t, c>>]
On(l1, l2, r1, r2) == [l |-> <<l1, l2>>, r |-> <<r1, r2>>, eq |-> TRUE]
Join(t, a, on) == [side |-> "left", to |-> [table |-> t, alias |-> a], on |-> on]
ByDone == Join("date", "d", {On("f", "done", "d", "key")})
Buyer == Join("customer", "c", {On("f", "buyer", "c", "id"), On("c", "org", "f", "org")})
Bare == Join("date", "d", {On("", "done", "", "key")})
Joinings == {<< >>, <<ByDone>>, <<Bare>>, <<Buyer>>, <<Buyer, ByDone>>, <<Join("date", "d", {On("f", "placed", "d", "key")})>>,
             <<Join("customer", "c", {On("f", "buyer", "c", "id")})>>, <<Buyer, Buyer>>,
             <<Join("region", "r", {On("f", "zone", "r", "zone")})>>, <<[ByDone EXCEPT !.side = "inner"]>>,
             <<ByDone, Join("date", "e", {On("f", "done", "d", "key")})>>}
Test2(e, op, val) == [e |-> e, op |-> op, val |-> val]
Done == Test2(Expr("col", "f", "status"), "=", "completed")
W24 == Test2(Expr("col", "d", "full_date"), "in_window", "w24")
Wheres == {<< >>, <<Done>>, <<Done, W24>>, <<W24>>, <<Done, Test2(Expr("col", "c", "area"), "=", "area")>>,
           <<Test2(Expr("col", "f", "status"), "or", "completed")>>,
           <<Done, Test2(Expr("col", "f", "margin"), ">", "0")>>}
Out(e, as) == [fn |-> e.fn, at |-> e.at, as |-> as]
AmountOut == Out(Expr("sum", "f", "amount"), "s")
LinesOut == [fn |-> "count", at |-> Star, as |-> "n"]
AreaOut == Out(Expr("col", "c", "area"), "a")
Years == Out(Expr("year", "d", "full_date"), "y")
MonthsOut == Out(Expr("month", "d", "full_date"), "m")
Outputs == {<<AmountOut>>, <<LinesOut>>, <<AmountOut, AreaOut>>, <<AreaOut, AmountOut, LinesOut>>, <<LinesOut, AmountOut>>,
            <<AmountOut, LinesOut, Years, MonthsOut>>, <<Years, AmountOut>>, <<AmountOut, AmountOut>>}
Desc(e) == [e |-> e, desc |-> TRUE, first |-> FALSE]
Asc(e) == [e |-> e, desc |-> FALSE, first |-> FALSE]
AsName(n) == Expr("col", "", n)
Text(joins, where, outs, having, order, limit) ==
  [form |-> "select", from |-> [table |-> "fact", alias |-> "f"], joins |-> joins, where |-> where, outs |-> outs,
   group |-> {[fn |-> o.fn, at |-> o.at] : o \in {x \in Elements(outs) : x.fn \notin Aggregates}},
   having |-> having, distinct |-> FALSE, order |-> order, limit |-> limit]
Ends == {<<<< >>, NoLimit>>, <<<<Desc(AsName("s"))>>, 3>>, <<<<Desc(AsName("s")), Asc(Expr("col", "c", "area"))>>, 3>>}
Shapes == {Text(j, w, o, {}, << >>, NoLimit) : j \in Joinings, w \in {<<Done>>, <<Done, W24>>}, o \in Outputs}
            \cup {Text(j, w, o, {}, << >>, NoLimit) : j \in Joinings, w \in Wheres, o \in {<<AmountOut>>, <<AmountOut, AreaOut>>}}
            \cup {Text(j, w, <<AmountOut, AreaOut>>, {}, e[1], e[2]) : j \in {<<Buyer>>, <<Buyer, ByDone>>}, w \in Wheres, e \in Ends}
AreaSales == Text(<<Buyer>>, <<Done>>, <<AmountOut, AreaOut>>, {}, << >>, NoLimit)
Having(val) == {[e |-> Expr("sum", "f", "amount"), op |-> ">", val |-> val]}
MCTexts ==
  Shapes \cup {[form |-> "raises"], [form |-> "CANNOT_ANSWER"], [AreaSales EXCEPT !.form = "with"],
               [AreaSales EXCEPT !.form = "many"], [AreaSales EXCEPT !.having = Having("1000"), !.order = <<Asc(AsName("a"))>>],
               [AreaSales EXCEPT !.having = Having("999")], [AreaSales EXCEPT !.group = {}],
               [AreaSales EXCEPT !.distinct = TRUE], [AreaSales EXCEPT !.from = [table |-> "customer", alias |-> "f"]],
               [AreaSales EXCEPT !.outs = <<AmountOut, [AreaOut EXCEPT !.at = <<"", "area">>]>>],
               [AreaSales EXCEPT !.outs = <<AmountOut, [AreaOut EXCEPT !.at = <<"", "org">>]>>]}
==================================================================================
