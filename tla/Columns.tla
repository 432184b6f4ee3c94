------------------------------ MODULE Columns -------------------------------
(***************************************************************************)
(* What becomes of the columns a policy masks or protects, from the SQL of *)
(* a query to the rows a caller gets: enforceProtectedColumns of           *)
(* src/protected-columns.ts refuses a query that asks the database about a *)
(* protected value, analyzeRead of src/governance.ts follows masked        *)
(* columns to the names of the outputs, and redact masks by these names,   *)
(* and what was masked wherever else it is said (KnownValues).             *)
(*                                                                         *)
(* A query grows a step at a time.  Its tree:                              *)
(*   [type: "select", from, where, having, groupBy, orderBy, distinct,     *)
(*    columns]      sequences; distinct: "none", "distinct" or, for        *)
(*                  DISTINCT ON, "on" with its expressions in on;          *)
(*                  columns: [expr, alias], alias None when there is none  *)
(*   [type: "union", all, left, right]   all: doubles stay                 *)
(*   [type: "with", alias, bind, in]                                       *)
(*   [type: "table", schema, name, alias, on, using]  schema None: a CTE   *)
(*   [type: "derived", body, alias, on, using]                             *)
(*   [type: "ref", table, name]    table None when it is not qualified;    *)
(*                                 name "*" for all                        *)
(*   [type: "cast", of]  [type: "call", fn, args]  [type: "op", args]      *)
(* A rule of a policy is a path of names that ends with a column's.        *)
(***************************************************************************)
EXTENDS KnownValues

CONSTANTS
  None,        \* no alias, no table, no schema
  Tables,      \* the database: the columns of <<schema, name>>, a sequence
  Rows,        \* what the columns of a result's row may say
  Policies,    \* [maskColumns, protectedColumns], sets of rules
  MaxSteps     \* bound on the steps of a query

VARIABLES
  query,       \* the statement
  grown        \* how often it grew

vars == <<query, grown>>

Star == "*"
Statements == {"select", "union", "with"}
Ref(table, name) == [type |-> "ref", table |-> table, name |-> name]
Cast(e) == [type |-> "cast", of |-> e]
Call(fn, e) == [type |-> "call", fn |-> fn, args |-> <<e>>]
As(e, alias) == [expr |-> e, alias |-> alias]
Table(path, alias) == [type |-> "table", schema |-> path[1], name |-> path[2], alias |-> alias,
                       on |-> <<>>, using |-> <<>>]
Select(from, columns) ==
  [type |-> "select", from |-> from, where |-> <<>>, having |-> <<>>, groupBy |-> <<>>, orderBy |-> <<>>,
   distinct |-> "none", on |-> <<>>, columns |-> columns]
All(from) == Select(<<from>>, <<As(Ref(None, Star), None)>>)

\* The name a source has in its select.
Alias(source) == IF source.alias # None THEN source.alias ELSE source.name
Exprs(s) == s.where \o s.having \o s.groupBy \o s.orderBy \o [i \in DOMAIN s.columns |-> s.columns[i].expr]
Operands(e) == CASE e.type = "cast" -> <<e.of>> [] e.type \in {"call", "op"} -> e.args [] OTHER -> <<>>
-----------------------------------------------------------------------------
(* The names of columns (match of governance.ts, matchColumnGlob).         *)

Match(rule, path) ==
  rule = path \/ (rule[1] = Star /\ Len(path) > 1 /\ Last(path) = Last(rule))

\* matchesMaskedColumn.
MatchesMasked(rules, schema, table, column) ==
  LET paths == {<<column>>} \cup (IF table = None THEN {} ELSE {<<table, column>>})
               \cup (IF None \in {schema, table} THEN {} ELSE {<<schema, table, column>>, <<schema, column>>})
  IN  \E rule \in rules, path \in paths : Match(rule, path)

\* matchTableColumn: a rule that ends with the column's name is enough.
MatchesProtected(rules, column) == \E rule \in rules : Last(rule) = column
-----------------------------------------------------------------------------
(* Masked outputs (analyzeRead, analyzeSelect).  A source of a select is   *)
(* [alias, path] for a table of the database, path <<>> and masked, its    *)
(* masked outputs, for what is derived.                                    *)

Source(alias, path, masked) == [alias |-> alias, path |-> path, masked |-> masked]

\* refReferencesMasked.
RefMasked(rules, ref, scope) ==
  LET of(src) == IF src.path = <<>> THEN ref.name \in src.masked
                 ELSE MatchesMasked(rules, src.path[1], src.path[2], ref.name)
      named == {src \in scope : src.alias = ref.table}
  IN  CASE ref.name = Star -> \E src \in scope : src.masked # {}
        [] ref.name # Star /\ ref.table # None ->
             IF named = {} THEN MatchesMasked(rules, None, ref.table, ref.name) ELSE \E src \in named : of(src)
        [] OTHER -> (\E src \in scope : of(src)) \/ MatchesMasked(rules, None, None, ref.name)

\* outputNamesForColumn; {} where no name is reliable.
OutputNames(column, scope) ==
  LET e == column.expr
  IN  CASE column.alias # None -> {column.alias}
        [] column.alias = None /\ e.type = "ref" ->
             IF e.name = Star THEN UNION {src.masked : src \in scope} ELSE {e.name}
        [] column.alias = None /\ e.type = "cast" ->
             IF e.of.type = "ref" /\ e.of.name # Star THEN {e.of.name} ELSE {}
        [] OTHER -> {}

RECURSIVE AnalyzeRead(_, _, _), ExprMasked(_, _, _, _), CollectFrom(_, _, _)

\* expressionReferencesMasked.
ExprMasked(rules, e, scope, ctes) ==
  CASE e.type = "ref" -> RefMasked(rules, e, scope)
    [] e.type \in Statements -> AnalyzeRead(rules, e, ctes).masked # {}
    [] OTHER -> \E i \in DOMAIN Operands(e) : ExprMasked(rules, Operands(e)[i], scope, ctes)

\* The subqueries an expression is made of.
RECURSIVE Inner(_)
Inner(e) == IF e.type \in Statements THEN {e} ELSE UNION {Inner(x) : x \in ToSet(Operands(e))}

\* Mutant: what a CTE masks is not known where it is read.
CteSource_Forgets(source, ctes) == Source(Alias(source), <<>>, {})
CteSource(source, ctes) == Source(Alias(source), <<>>, ctes[source.name])

CollectFrom(rules, f, ctes) ==
  CASE f.type = "derived" -> Source(f.alias, <<>>, AnalyzeRead(rules, f.body, ctes).masked)
    [] f.type = "table" /\ f.schema = None -> CteSource(f, ctes)
    [] OTHER -> Source(Alias(f), <<f.schema, f.name>>, {})

\* ctes: the masked outputs of the CTEs in scope.
AnalyzeRead(rules, s, ctes) ==
  CASE s.type = "with" ->
         LET bound == AnalyzeRead(rules, s.bind, (s.alias :> {}) @@ ctes)
             body == AnalyzeRead(rules, s.in, (s.alias :> bound.masked) @@ ctes)
         IN  [body EXCEPT !.refused = @ \/ bound.refused]
    [] s.type = "union" ->
         LET left == AnalyzeRead(rules, s.left, ctes)
             right == AnalyzeRead(rules, s.right, ctes)
         IN  [masked |-> left.masked \cup right.masked, aliases |-> right.aliases @@ left.aliases,
              refused |-> left.refused \/ right.refused]
    [] s.type = "select" ->
         LET scope == {CollectFrom(rules, f, ctes) : f \in ToSet(s.from)}
             masked == {c \in ToSet(s.columns) : ExprMasked(rules, c.expr, scope, ctes)}
             renamed == {c \in ToSet(s.columns) : c.alias # None /\ c.expr.type = "ref" /\ c.expr.name # Star}
             inner == UNION {Inner(e) : e \in ToSet(Exprs(s)) \cup UNION {ToSet(f.on) : f \in ToSet(s.from)}}
                      \cup {f.body : f \in {g \in ToSet(s.from) : g.type = "derived"}}
         IN  [masked |-> UNION {OutputNames(c, scope) : c \in masked},
              aliases |-> [n \in {c.alias : c \in renamed} |-> (CHOOSE c \in renamed : c.alias = n).expr.name],
              refused |-> (\E c \in masked : OutputNames(c, scope) = {})
                          \/ \E q \in inner : AnalyzeRead(rules, q, ctes).refused]
-----------------------------------------------------------------------------
(* Protected columns (walkRead).  A source is [alias, derived, outputs],   *)
(* its protected outputs.                                                  *)

Classified(kind, derived, column) == [kind |-> kind, derived |-> derived, column |-> column]
Harmless == Classified("none", FALSE, None)

\* classifyRef.
ClassifyRef(rules, ref, scope) ==
  LET derived == {src \in scope : src.derived}
      named == {src \in derived : src.alias = ref.table}
      protected == IF named # {} THEN \E src \in named : ref.name \in src.outputs
                   ELSE \/ MatchesProtected(rules, ref.name)
                        \/ ref.table = None /\ \E src \in derived : ref.name \in src.outputs
  IN  CASE ref.name = Star -> Classified("star", FALSE, None)
        [] ref.name # Star /\ protected -> Classified("protected", FALSE, ref.name)
        [] OTHER -> Harmless

\* promoteDerived, firstProtectedDerived.
Promoted(parts) ==
  LET hits == SelectSeq(parts, LAMBDA p : p.kind = "protected")
  IN  IF hits = <<>> THEN Harmless ELSE [hits[1] EXCEPT !.derived = TRUE]

RECURSIVE WalkRead(_, _, _), ClassifyExpr(_, _, _, _), CollectSource(_, _, _)

\* A subquery that puts out a protected column is one.
ClassifyExpr(rules, e, scope, ctes) ==
  LET parts == [i \in DOMAIN Operands(e) |-> ClassifyExpr(rules, Operands(e)[i], scope, ctes)]
  IN  CASE e.type = "ref" -> ClassifyRef(rules, e, scope)
        [] e.type \in Statements ->
             LET outputs == WalkRead(rules, e, ctes).outputs
             IN  IF outputs = {} THEN Harmless ELSE Classified("protected", TRUE, CHOOSE n \in outputs : TRUE)
        [] e.type = "cast" ->
             IF e.of.type = "ref" /\ parts[1].kind = "protected" THEN parts[1] ELSE Promoted(parts)
        [] OTHER -> Promoted(parts)

\* Mutant: HAVING is not asked about.
Asked_NoHaving(s) == s.where \o s.groupBy \o s.orderBy \o s.on

\* Where a protected column may not appear at all.
Asked(s) == s.where \o s.having \o s.groupBy \o s.orderBy \o s.on

\* collectFrom.
CollectSource(rules, f, ctes) ==
  LET derived(outputs) == [alias |-> Alias(f), derived |-> TRUE, outputs |-> outputs]
  IN  CASE f.type = "derived" -> derived(WalkRead(rules, f.body, ctes).outputs)
        [] f.type = "table" /\ f.schema = None -> derived(ctes[f.name])
        [] OTHER -> [alias |-> Alias(f), derived |-> FALSE, outputs |-> {}]

\* collectJoin: what a join compares.
CollectJoin(s) == UNION {ToSet(f.on) \cup {Ref(None, n) : n \in ToSet(f.using)} : f \in ToSet(s.from)}

\* walkSelect; ctes: the protected outputs of the CTEs in scope.
WalkRead(rules, s, ctes) ==
  CASE s.type = "with" ->
         LET bound == WalkRead(rules, s.bind, (s.alias :> {}) @@ ctes)
             body == WalkRead(rules, s.in, (s.alias :> bound.outputs) @@ ctes)
         IN  [body EXCEPT !.refused = @ \/ bound.refused]
    [] s.type = "union" ->
         LET left == WalkRead(rules, s.left, ctes)
             right == WalkRead(rules, s.right, ctes)
         IN  [outputs |-> left.outputs \cup right.outputs, refused |-> left.refused \/ right.refused]
    [] s.type = "select" ->
         LET bodies == {f \in ToSet(s.from) : f.type = "derived"}
             scope == {CollectSource(rules, f, ctes) : f \in ToSet(s.from)}
             kind(e) == ClassifyExpr(rules, e, scope, ctes)
             plain == {c \in ToSet(s.columns) : kind(c.expr).kind = "protected"}
             stars == {c \in ToSet(s.columns) : kind(c.expr).kind = "star"}
         IN  [outputs |-> {IF c.alias # None THEN c.alias ELSE kind(c.expr).column : c \in plain}
                          \cup (IF stars = {} THEN {} ELSE UNION {src.outputs : src \in scope}),
              refused |-> \/ \E e \in CollectJoin(s) \cup ToSet(Asked(s)) : kind(e).kind = "protected"
                          \/ \E c \in plain : kind(c.expr).derived \/ s.distinct = "distinct"
                          \/ stars # {} /\ s.distinct = "distinct"
                          \/ \E f \in bodies : WalkRead(rules, f.body, ctes).refused
                          \/ \E q \in UNION {Inner(e) : e \in CollectJoin(s) \cup ToSet(s.on \o Exprs(s))} : WalkRead(rules, q, ctes).refused]
-----------------------------------------------------------------------------
(* The database: the columns a statement puts out, each with its name, the *)
(* columns of tables its value is made from, and whether it is one's as it *)
(* stands; and the columns the statement asks about otherwise.             *)

Value(name, from, asIs) == [name |-> name, from |-> from, asIs |-> asIs]
Lineage(values) == UNION {v.from : v \in values}

RECURSIVE Outputs(_, _), ValueOf(_, _, _), AsksOf(_, _), Asks(_, _, _)

\* The columns of a source; ctes: the outputs of those in scope.
ColumnsOf(f, ctes) ==
  CASE f.type = "derived" -> Outputs(f.body, ctes)
    [] f.type = "table" /\ f.schema = None -> ctes[f.name]
    [] OTHER -> LET path == <<f.schema, f.name>>
                IN  [i \in DOMAIN Tables[path] |-> Value(Tables[path][i], {Append(path, Tables[path][i])}, TRUE)]

\* The values a reference stands for, in a select with these sources.
Named(ref, from, ctes) ==
  LET seen == SelectSeq(from, LAMBDA f : ref.table \in {None, Alias(f)})
  IN  SelectSeq(FlattenSeq([i \in DOMAIN seen |-> ColumnsOf(seen[i], ctes)]),
                LAMBDA v : ref.name \in {Star, v.name})

ValueOf(e, from, ctes) ==
  CASE e.type = "ref" -> LET found == Named(e, from, ctes) IN Value(e.name, Lineage(ToSet(found)), Len(found) = 1 /\ found[1].asIs)
    [] e.type \in Statements -> LET outs == Outputs(e, ctes) IN Value(outs[1].name, Lineage(ToSet(outs)), FALSE)
    [] OTHER ->
         LET parts == {ValueOf(x, from, ctes) : x \in ToSet(Operands(e))}
         IN  Value(CASE e.type = "cast" -> (CHOOSE v \in parts : TRUE).name [] e.type = "call" -> e.fn [] OTHER -> "?column?",
                   Lineage(parts), FALSE)

Outputs(s, ctes) ==
  CASE s.type = "with" -> Outputs(s.in, (s.alias :> Outputs(s.bind, ctes)) @@ ctes)
    [] s.type = "union" ->
         LET left == Outputs(s.left, ctes)
             right == Outputs(s.right, ctes)
         IN  [i \in DOMAIN left |-> IF i \in DOMAIN right
                                    THEN [left[i] EXCEPT !.from = @ \cup right[i].from, !.asIs = FALSE] ELSE left[i]]
    [] s.type = "select" ->
         FlattenSeq([i \in DOMAIN s.columns |->
           LET c == s.columns[i]
           IN  IF c.expr.type = "ref" /\ c.expr.name = Star THEN Named(c.expr, s.from, ctes)
               ELSE LET v == ValueOf(c.expr, s.from, ctes)
                    IN  <<[v EXCEPT !.name = IF c.alias # None THEN c.alias ELSE @]>>])

\* The columns a statement compares, sorts, groups by or computes with, however
\* deep; what it only puts out again is not among them, unless doubles are taken
\* out by it, as DISTINCT and a UNION without ALL do.
Asks(e, from, ctes) ==
  CASE e.type = "ref" -> {}
    [] e.type \in Statements -> AsksOf(e, ctes) \cup Lineage(ToSet(Outputs(e, ctes)))
    [] e.type = "cast" /\ e.of.type = "ref" -> {}
    [] OTHER -> ValueOf(e, from, ctes).from \cup UNION {Asks(x, from, ctes) : x \in ToSet(Operands(e))}

AsksOf(s, ctes) ==
  CASE s.type = "with" -> AsksOf(s.bind, ctes) \cup AsksOf(s.in, (s.alias :> Outputs(s.bind, ctes)) @@ ctes)
    [] s.type = "union" -> AsksOf(s.left, ctes) \cup AsksOf(s.right, ctes)
                           \cup (IF s.all THEN {} ELSE Lineage(ToSet(Outputs(s, ctes))))
    [] s.type = "select" ->
         LET clauses == ToSet(s.where \o s.having \o s.groupBy \o s.orderBy \o s.on)
                        \cup CollectJoin(s)
         IN  UNION {ValueOf(e, s.from, ctes).from \cup Asks(e, s.from, ctes) : e \in clauses}
             \cup UNION {Asks(c.expr, s.from, ctes) : c \in ToSet(s.columns)}
             \cup UNION {AsksOf(f.body, ctes) : f \in {g \in ToSet(s.from) : g.type = "derived"}}
             \cup (IF s.distinct = "distinct" THEN Lineage(ToSet(Outputs(s, ctes))) ELSE {})
-----------------------------------------------------------------------------
(* The gate, and the rows.                                                 *)

MaskPatterns(policy) == policy.maskColumns \cup policy.protectedColumns

\* guardQuery, as far as columns go.
Refused(policy) ==
  \/ policy.protectedColumns # {} /\ WalkRead(policy.protectedColumns, query, <<>>).refused
  \/ AnalyzeRead(MaskPatterns(policy), query, <<>>).refused

\* masksColumn.
MasksColumn(rules, name, analysis) ==
  LET source == IF name \in DOMAIN analysis.aliases THEN analysis.aliases[name] ELSE name
  IN  \/ name \in analysis.masked
      \/ \E rule \in rules : Match(rule, <<source>>) \/ Match(rule, <<name>>) \/ Last(rule) = name

\* redact: the outputs that are masked, and the others with the columns of tables
\* whose values a row still shows.
Masked(policy) ==
  LET analysis == AnalyzeRead(MaskPatterns(policy), query, <<>>)
  IN  {v \in ToSet(Outputs(query, <<>>)) : MasksColumn(MaskPatterns(policy), v.name, analysis)}
Shown(masked) == ToSet(Outputs(query, <<>>)) \ masked

\* The columns that are put out as they stand; a row's other texts when some are
\* masked.
AsTheyStand(values) == {c \in Lineage({v \in values : v.asIs}) : \A row \in Rows : c \in DOMAIN row}
Redaction(row, hidden, seen) == {Redacted(row[c], Known({row[h] : h \in hidden})) : c \in seen}
-----------------------------------------------------------------------------
(* Queries.                                                                *)

\* The select the next step works on; a union has to be read from first.
RECURSIVE Focus(_), WithFocus(_, _)
Focus(s) == IF s.type = "with" THEN Focus(s.in) ELSE s
WithFocus(s, focus) == IF s.type = "with" THEN [s EXCEPT !.in = WithFocus(@, focus)] ELSE focus

RECURSIVE CteOutputs(_)
CteOutputs(s) == IF s.type = "with" THEN (s.alias :> Outputs(s.bind, <<>>)) @@ CteOutputs(s.in) ELSE <<>>

\* The columns a select has in view, by either of their names.
References ==
  LET focus == Focus(query)
      named(f) == UNION {{Ref(None, v.name), Ref(Alias(f), v.name)} : v \in ToSet(ColumnsOf(f, CteOutputs(query)))}
  IN  IF focus.type = "select" THEN named(focus.from[1]) ELSE {}

Init == query \in {All(Table(path, None)) : path \in DOMAIN Tables} /\ grown = 0

Grow(s) == grown < MaxSteps /\ query' = s /\ grown' = grown + 1
Refocus(focus) == Grow(WithFocus(query, focus))

\* A column more, the first instead of all.
Project(e, alias) ==
  LET s == Focus(query)
      first == s.columns = <<As(Ref(None, Star), None)>>
  IN  /\ s.type = "select" /\ (first \/ Len(s.columns) < 2)
      /\ Refocus([s EXCEPT !.columns = IF first THEN <<As(e, alias)>> ELSE Append(@, As(e, alias))])

Constrain(e) ==
  LET s == Focus(query)
  IN  /\ s.type = "select"
      /\ \/ s.where = <<>> /\ Refocus([s EXCEPT !.where = <<e>>])
         \/ s.having = <<>> /\ Refocus([s EXCEPT !.having = <<e>>])
         \/ s.groupBy = <<>> /\ Refocus([s EXCEPT !.groupBy = <<e>>])
         \/ s.orderBy = <<>> /\ Refocus([s EXCEPT !.orderBy = <<e>>])
         \/ s.distinct = "none" /\ Refocus([s EXCEPT !.distinct = "on", !.on = <<e>>])

Distinct ==
  LET s == Focus(query)
  IN  s.type = "select" /\ s.distinct = "none" /\ Refocus([s EXCEPT !.distinct = "distinct"])

Join(path, e) ==
  LET s == Focus(query)
      joined == Table(path, "j")
  IN  /\ s.type = "select" /\ Len(s.from) = 1
      /\ \/ Refocus([s EXCEPT !.from = Append(@, [joined EXCEPT !.on = <<e>>])])
         \/ e.type = "ref" /\ e.table = None /\ Refocus([s EXCEPT !.from = Append(@, [joined EXCEPT !.using = <<e.name>>])])

\* A column of a subquery.
Ask(path, name) == Project(Select(<<Table(path, "q")>>, <<As(Ref("q", name), None)>>), "x")

\* The query read from.
Derive == Grow(All([type |-> "derived", body |-> query, alias |-> "d", on |-> <<>>, using |-> <<>>]))
Bind == query.type # "with" /\ Grow([type |-> "with", alias |-> "c", bind |-> query, in |-> All(Table(<<None, "c">>, None))])
Combine(path, name) ==
  LET outs == Outputs(query, <<>>)
  IN  Len(outs) = 1 /\ \E all \in BOOLEAN :
        Grow([type |-> "union", all |-> all, left |-> query,
              right |-> Select(<<Table(path, None)>>, <<As(Ref(None, name), outs[1].name)>>)])

Next ==
  \/ Distinct \/ Derive \/ Bind
  \/ \E r \in References :
       \/ \E e \in {r, Cast(r), Call("lower", r)}, alias \in {None, "x"} : Project(e, alias)
       \/ r.table = None /\ \E e \in {r, Call("lower", r)} : Constrain(e)
       \/ \E path \in DOMAIN Tables : Join(path, r)
  \/ \E path \in DOMAIN Tables : \E name \in ToSet(Tables[path]) : Ask(path, name) \/ Combine(path, name)

Spec == Init /\ [][Next]_vars
-----------------------------------------------------------------------------
(* Properties.                                                             *)

\* Whether a rule is about a column, by any of its names.
About(rules, column) == \E rule \in rules, i \in DOMAIN column : Match(rule, SubSeq(column, i, Len(column)))

\* A star in a statement that another one reads hides the columns of its tables
\* from both walks, so the two properties are about queries without one.
RECURSIVE Stars(_), NamesColumns(_)
Stars(s) == CASE s.type = "with" -> Stars(s.in)
              [] s.type = "union" -> Stars(s.left) \/ Stars(s.right)
              [] OTHER -> \E c \in ToSet(s.columns) : c.expr.type = "ref" /\ c.expr.name = Star
NamesColumns(s) ==
  CASE s.type = "with" -> ~Stars(s.bind) /\ NamesColumns(s.bind) /\ NamesColumns(s.in)
    [] s.type = "union" -> NamesColumns(s.left) /\ NamesColumns(s.right)
    [] OTHER -> \A f \in ToSet(s.from) : f.type = "derived" => ~Stars(f.body) /\ NamesColumns(f.body)

\* No value made from a column the policy masks is in a row as it is handed out,
\* through whatever alias, cast, function, subquery or CTE it went, and no other
\* text of the row repeats what a masked field said (redact of src/governance.ts).
MaskedStaysHidden ==
  NamesColumns(query) => \A policy \in Policies :
    ~Refused(policy) =>
      LET masked == Masked(policy)
          hidden == AsTheyStand(masked)
          seen == AsTheyStand(Shown(masked))
      IN  /\ \A c \in Lineage(Shown(masked)) : ~About(MaskPatterns(policy), c)
          /\ (hidden # {} /\ seen # {}) =>
               \A row \in Rows, h \in hidden : \A text \in Redaction(row, hidden, seen):
                 \A value \in ToSet(Known({row[h]})) : ~Found(value, text)

\* Whether a UNION without ALL is in a statement.
RECURSIVE Unites(_)
Unites(s) ==
  CASE s.type = "with" -> Unites(s.bind) \/ Unites(s.in)
    [] s.type = "union" -> ~s.all \/ Unites(s.left) \/ Unites(s.right)
    [] OTHER -> \E f \in ToSet(s.from) : f.type = "derived" /\ Unites(f.body)

\* The protected columns a query asks about though the gate lets it through.
Probed(policy) ==
  IF Refused(policy) THEN {}
  ELSE {c \in AsksOf(query, <<>>) : MatchesProtected(policy.protectedColumns, Last(c))}

\* A query that the gate lets through compares, sorts, groups by and computes with
\* no value made from a protected column (enforceProtectedColumns of
\* src/protected-columns.ts); of queries whose UNIONs keep their doubles, since the
\* gate lets one that does not tell what the DISTINCT it refuses would.
ProtectedNotProbed ==
  NamesColumns(query) /\ ~Unites(query) => \A policy \in Policies : Probed(policy) = {}

=============================================================================
