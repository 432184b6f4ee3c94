---------------------------- MODULE MCSideBySide ----------------------------
(***************************************************************************)
(* Seven parts that share no state, for TLC: the receipts and their        *)
(* verifiers (Evidence), the database's counters (Reconcile), the belt     *)
(* over a masked field (Masking), the columns a query reads (Columns), the *)
(* patterns of an operator (Patterns), the console (Console) and the       *)
(* stamps of a document (Stamps).  A behaviour is one of one part; the     *)
(* variables of the others stay as they are.  Columns and Patterns are     *)
(* instances; the others are extended, so that their assumptions are       *)
(* evaluated and their properties are checked as they are proved.          *)
(***************************************************************************)
EXTENDS Evidence, Console, Reconcile, Stamps, Masking, TLC

CONSTANTS gold, steel, brass

VARIABLES
  part,   \* which of them this behaviour is about
  query, grown,            \* Columns
  pattern, steps           \* Patterns

columns == <<query, grown>>
patterns == <<pattern, steps>>
parts == <<part, vars, reconcileVars, maskingVars, columns, patterns, consoleVars, stampsVars>>
-----------------------------------------------------------------------------
(* A query, a description of a table for a named person, a refusal; two    *)
(* keys of the gateway.                                                    *)

Query == [tool |-> "query", target |-> None, tables |-> {"orders"}, denied |-> FALSE, masked |-> 0,
          assurance |-> "shared-token", client |-> "protocol", payload |-> TRUE]
Described == [Query EXCEPT !.tool = "describe_table", !.target = "people", !.tables = {}, !.masked = 1,
              !.assurance = "per-user-token", !.client = None]
Denied == [Query EXCEPT !.denied = TRUE, !.tables = {}]

SpoiltBodies(b) == {[b EXCEPT !.decision = "unheard"], [b EXCEPT !.whole = FALSE], [b EXCEPT !.v = 3],
                    [b EXCEPT !.disclosure.hash = "HEX"], [b EXCEPT !.disclosure.hash = "absent"],
                    [b EXCEPT !.client.holds = "absent"]}

OneOfEach == <<{Query}, {Described}, {Denied}>>
ModelOnly == [model |-> "m", client |-> None, destination |-> None]
TwoKeys == <<[keyId |-> "k1", pair |-> gold], [keyId |-> "k2", pair |-> steel]>>
Countersigner == [keyId |-> "anchor", pair |-> brass]
-----------------------------------------------------------------------------
(* Statements that read a table; two of one name, another and a catalogue; *)
(* one that is listed after a comma; one through a WITH of its own name;   *)
(* one in what is taken for housekeeping; the month of a date; nothing;    *)
(* the catalogue, to describe a table.                                     *)

Table(schema, name) == [schema |-> schema, name |-> name]
Orders == Table("public", "orders")
People == Table("public", "people")
As(how, object) == [object |-> object, how |-> how]
OfQuery(named) == [tool |-> "query", named |-> named]
Statements ==
  {[infra |-> FALSE, mentions |-> {As("from", Orders)}, said |-> {OfQuery({Orders}), OfQuery({})}],
   [infra |-> FALSE,
    mentions |-> {As("from", Table("archive", "orders")), As("from", People), As("from", Table("pg_catalog", "pg_class"))},
    said |-> {OfQuery({Orders, People}), OfQuery({People})}],
   [infra |-> FALSE, mentions |-> {As("cte", People), As("from", Orders), As("listed", Table("public", "wages"))},
    said |-> {OfQuery({Orders, People})}],
   [infra |-> FALSE, mentions |-> {As("from", Orders), As("column", Table("none", "placed"))},
    said |-> {OfQuery({Orders})}],
   [infra |-> TRUE, mentions |-> {As("from", People)}, said |-> {}],
   [infra |-> FALSE, mentions |-> {}, said |-> {OfQuery({})}],
   [infra |-> FALSE, mentions |-> {As("from", Table("pg_catalog", "pg_class"))},
    said |-> {[tool |-> "describe_table", named |-> {People}]}]}

Ahead == {0 - 1, 2}
SkewsDeclared == {Absent, 1}
Mappings == {Absent, [max |-> 1, exclusions |-> {"infra-query"}, skew |-> Absent],
             [max |-> Absent, exclusions |-> {}, skew |-> 2]}
-----------------------------------------------------------------------------
(* A letter, a label or a title that was masked or not, a token of the     *)
(* masker's that stood in the text already.                                *)

UntouchedTexts == {<<"x">>, <<"space">>, <<"break">>, <<":">>, <<"label">>, <<"title">>, <<"[">>, <<"pii">>}
HiddenTexts == {[text |-> t, token |-> PII] : t \in {<<"x">>, <<"x", "x">>, <<"label">>}}
               \cup {[text |-> t, token |-> SECRET] : t \in {<<"x">>, <<"[", "pii">>}}
MarkedNames == {[gap |-> g, name |-> n] : g \in {<<"space">>, <<"break", "space">>},
                n \in {<<"x">>, <<"x", "break", "label">>}}
PatternLists == {<<>>, <<[finds |-> <<"x">>, label |-> <<"[", "custom">>]>>}
CoreFinds == {PII}
-----------------------------------------------------------------------------
(* Two tables with a column of the same name, one of them masked or        *)
(* protected, by its path or wherever it is.  A note may have the name in  *)
(* it; the long s is no ASCII character, but is found where an s is looked *)
(* for.                                                                    *)

Name == <<"public", "people", "name">>
Note == <<"public", "people", "note">>

L == INSTANCE Columns WITH
  Tables <- <<"public", "people">> :> <<"name", "note">> @@ <<"public", "orders">> :> <<"name">>,
  Space <- "space", Token <- "token", Letters <- {"a", "A", "s", "long s"}, Ascii <- {"a", "A", "s", "space", "token"},
  Folded <- [c \in {"a", "A", "s", "long s", "space", "token"} |->
               CASE c = "A" -> "a" [] c = "long s" -> "s" [] OTHER -> c],
  Lowered <- [c \in {"a", "A", "s", "long s", "space", "token"} |-> IF c = "A" THEN "a" ELSE c],
  Rows <- {Name :> n @@ Note :> t :
             n \in {<<"a", "s", "a">>, <<"space", "A", "s", "s">>, <<"a", "s">>},
             t \in {<<"a", "s", "a">>, <<"a", "long s", "a", "space", "A", "s", "A">>, <<"a", "long s", "s">>,
                    <<"a", "s", "s", "a">>, <<"A", "s">>}},
  Policies <- {[maskColumns |-> {<<"public", "people", "name">>}, protectedColumns |-> {}],
               [maskColumns |-> {<<"*", "name">>}, protectedColumns |-> {}],
               [maskColumns |-> {}, protectedColumns |-> {<<"people", "name">>}]},
  MaxSteps <- 3
-----------------------------------------------------------------------------
LeafOf(is) == [is |-> is]
Chars(set) == [is |-> "set", chars |-> set]

P == INSTANCE Patterns WITH
  Leaves <- {Chars({"a"}), Chars({}), LeafOf("any"), LeafOf("word"), LeafOf("look"), LeafOf("surrogate"),
             [is |-> "cat", parts |-> <<>>], [is |-> "edge", at |-> "start"], [is |-> "edge", at |-> "end"]},
  Counts <- {<<0, 0>>, <<0, 1>>, <<0, 2>>, <<2, 2>>},
  Texts <- {<<>>, <<"a">>, <<"A", "a">>, <<"a", "a">>, <<"break", "a">>},
  Budget <- 3, MaxSteps <- 2
-----------------------------------------------------------------------------
Files ==
  {[sections |-> {"connectors"} \cup s, policy |-> [field \in p |-> "set"]] :
     s \in SUBSET {"custom-sql", "demo", "audit", "production"},
     p \in {{"allowConnectors", "dialect", "profiles", "denyTables"}, {"allowConnectors"}}}

Edits == {[denyTables |-> "patched"], [maskColumns |-> "blank"],
          [denyTables |-> "patched", profiles |-> "patched"]}
-----------------------------------------------------------------------------
NoEvidence == /\ log = None /\ archive = None /\ used = None /\ written = None
              /\ rows = None /\ stamper = None /\ stamps = None /\ copy = None
NoReconcile == /\ now = Absent /\ offset = Absent /\ calls = Absent /\ run = Absent
               /\ receipts = Absent /\ before = Absent /\ after = Absent /\ reset = Absent
NoMasking == source = <<>> /\ legacy = <<>> /\ segments = None
NoColumns == query = None /\ grown = None
NoPatterns == pattern = None /\ steps = None
NoConsole == /\ original = None /\ file = None /\ editor = None /\ saves = None
             /\ sent = None /\ keys = None /\ served = Missing
NoDocuments == /\ revisions = None /\ height = None /\ received = None /\ roots = None /\ sidecar = <<>>
               /\ stamping = None /\ upgrading = None /\ begun = None /\ told = <<>> /\ overlap = FALSE

SomeInit ==
  \/ part = "evidence" /\ Init
     /\ NoReconcile /\ NoMasking /\ NoColumns /\ NoPatterns /\ NoConsole /\ NoDocuments
  \/ part = "reconcile" /\ ReconcileInit
     /\ NoEvidence /\ NoMasking /\ NoColumns /\ NoPatterns /\ NoConsole /\ NoDocuments
  \/ part = "masking" /\ MaskingInit
     /\ NoEvidence /\ NoReconcile /\ NoColumns /\ NoPatterns /\ NoConsole /\ NoDocuments
  \/ part = "columns" /\ L!Init
     /\ NoEvidence /\ NoReconcile /\ NoMasking /\ NoPatterns /\ NoConsole /\ NoDocuments
  \/ part = "patterns" /\ P!Init
     /\ NoEvidence /\ NoReconcile /\ NoMasking /\ NoColumns /\ NoConsole /\ NoDocuments
  \/ part = "console" /\ ConsoleInit
     /\ NoEvidence /\ NoReconcile /\ NoMasking /\ NoColumns /\ NoPatterns /\ NoDocuments
  \/ part = "documents" /\ StampsInit
     /\ NoEvidence /\ NoReconcile /\ NoMasking /\ NoColumns /\ NoPatterns /\ NoConsole

SomeNext ==
  \/ part = "evidence" /\ Next
     /\ UNCHANGED <<part, reconcileVars, maskingVars, columns, patterns, consoleVars, stampsVars>>
  \/ part = "reconcile" /\ ReconcileNext
     /\ UNCHANGED <<part, vars, maskingVars, columns, patterns, consoleVars, stampsVars>>
  \/ part = "masking" /\ MaskingNext
     /\ UNCHANGED <<part, vars, reconcileVars, columns, patterns, consoleVars, stampsVars>>
  \/ part = "columns" /\ L!Next
     /\ UNCHANGED <<part, vars, reconcileVars, maskingVars, patterns, consoleVars, stampsVars>>
  \/ part = "patterns" /\ P!Next
     /\ UNCHANGED <<part, vars, reconcileVars, maskingVars, columns, consoleVars, stampsVars>>
  \/ part = "console" /\ ConsoleNext
     /\ UNCHANGED <<part, vars, reconcileVars, maskingVars, columns, patterns, stampsVars>>
  \/ part = "documents" /\ StampsNext
     /\ UNCHANGED <<part, vars, reconcileVars, maskingVars, columns, patterns, consoleVars>>

SomeSpec == SomeInit /\ [][SomeNext]_parts
-----------------------------------------------------------------------------
(* Properties: those of Evidence, Console and Reconcile (with no copy, no  *)
(* gateway and no snapshot, as in another part, they say nothing), of      *)
(* Stamps (with an empty sidecar), of Masking (with an empty field), and   *)
(* the others', where each is stated.                                      *)

\* No value made from a masked column reaches a row as it is handed out (redact of
\* src/governance.ts).
MaskedStaysHidden == part = "columns" => L!MaskedStaysHidden

\* A query the gate lets through asks nothing about a protected column
\* (enforceProtectedColumns of src/protected-columns.ts), if its UNIONs keep
\* doubles.
ProtectedNotProbed == part = "columns" => L!ProtectedNotProbed

\* A pattern the engine is given finds what JavaScript's would (toEngineSource
\* of src/custom_patterns.ts).
PatternsMeanTheSame == part = "patterns" => P!PatternsMeanTheSame
-----------------------------------------------------------------------------
\* Keys and texts are as the theorems on copies and masked fields have them.
ASSUME HypothesesHold == NamesAreApart /\ TextsAsMasked
=============================================================================
