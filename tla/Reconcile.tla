----------------------------- MODULE Reconcile ------------------------------
(***************************************************************************)
(* bin/conarium-reconcile.mjs: the database's own counters of statements   *)
(* (pg_stat_statements, two snapshots) against the receipts of the window  *)
(* between them.  The two have their own clocks, a receipt is written some *)
(* time after the statement, statements may go past the gateway, and the   *)
(* counters may be reset.                                                  *)
(*                                                                         *)
(* A pattern is [infra, mentions, said].  infra: its text is session       *)
(* housekeeping.  mentions: the names in it, each [object, how], an object *)
(* being [schema, name].  After FROM and its like a name is "from"; after  *)
(* a comma, "listed"; one that stands before AS ( and is read all the same *)
(* (a WITH of the name of a table), "cte"; the column of EXTRACT(.. FROM   *)
(* ..), "column".  said: what the gateway's receipt of such a statement    *)
(* may say of it, [tool, named]: all that it reads, a part of it, nothing, *)
(* or the table that was described.  A receipt is [ts, tool, named].       *)
(***************************************************************************)
EXTENDS Integers, FiniteSets, FiniteSetsExt

CONSTANTS
  Absent,       \* no snapshot, no bound, no receipt
  Pattern,      \* the statement patterns
  ClockOffsets, \* how far the gateway's clock may be ahead of the database's
  Skews,        \* skews an operator may declare, Absent for none
  Profiles,     \* mapping profiles, Absent for none
  End,          \* bound on the database's clock
  MaxRun        \* bound on statements

ASSUME ReconcileAssumption ==
  /\ Absent \notin Int
  /\ ClockOffsets \subseteq Int /\ End \in Nat /\ MaxRun \in Nat
  /\ \A skew \in Skews : skew \in Nat \cup {Absent}
  /\ \A profile \in Profiles : profile # Absent =>
       profile.skew \in Nat \cup {Absent} /\ profile.max \in (Nat \ {0}) \cup {Absent}

VARIABLES
  now,       \* the database's clock
  offset,    \* the gateway's clock is ahead by
  calls,     \* pg_stat_statements; no entry before a pattern's first call
  run,       \* statements: [id, pattern, receipt, inside], inside the
             \* window or before it, receipt Absent while there is none
  receipts,  \* the receipt file
  before, after,   \* the snapshots
  reset      \* whether the counters were reset in the window

reconcileVars == <<now, offset, calls, run, receipts, before, after, reset>>
-----------------------------------------------------------------------------
(* The tool.                                                               *)

\* normalizeObject: the last segment of a name.
Segment(object) == object.name
Segments(objects) == {Segment(o) : o \in objects}

\* pg_catalog, information_schema, and a name with pg_ and no schema.
Catalog(object) == object.schema = "pg_catalog"

\* One name after each FROM, JOIN, INTO or UPDATE, but for those before AS (.
ExtractTables(p) == {m.object : m \in {x \in p.mentions : x.how \in {"from", "column"}}}

\* The tables of classifyPattern, by the part of their names that is compared.
UserTables(p) == Segments({o \in ExtractTables(p) : ~Catalog(o)})

\* What the database reads.
Reads(p) == {m.object : m \in {x \in p.mentions : x.how # "column" /\ ~Catalog(x.object)}}

\* classifyPattern.
Kind(p) ==
  CASE p.infra -> "infrastructure"
    [] ~p.infra /\ ExtractTables(p) = {} -> "unattributed"
    [] ~p.infra /\ ExtractTables(p) # {} /\ UserTables(p) = {} -> "infrastructure"
    [] OTHER -> "data"

\* How far a receipt lies outside the window; 0 inside.
Distance(r, from, to) == IF r.ts < from THEN from - r.ts ELSE IF r.ts > to THEN r.ts - to ELSE 0

\* receiptCoverage: what the receipts in the window name, and those that ought to
\* name something and do not ("NOT definitive").
ReceiptCoverage(file, from, to) ==
  UNION {Segments(r.named) : r \in {q \in file : Distance(q, from, to) = 0}}

UnassignedReceipts(file, from, to) ==
  {r \in file : Distance(r, from, to) = 0 /\ r.named = {} /\ r.tool \in {"query", "search"}}

\* outsideBoundaryCoverage: the distances of the receipts outside that name a table.
Outside(file, from, to, table) ==
  {Distance(r, from, to) : r \in {q \in file : table \in Segments(q.named) /\ Distance(q, from, to) > 0}}

\* unobservedReceipts: none of the objects was read as the database sees it.
Unobserved(file, from, to, observed) ==
  {r \in file : Distance(r, from, to) = 0 /\ r.named # {} /\ Segments(r.named) \cap observed = {}}

Calls(snapshot, p) == IF p \in DOMAIN snapshot.entries THEN snapshot.entries[p] ELSE 0

\* The error returns of reconcile: other counters than before, or a reset.
Unusable(b, a) ==
  \/ b.role # a.role
  \/ a.ts <= b.ts
  \/ \E p \in DOMAIN b.entries : p \notin DOMAIN a.entries \/ Calls(a, p) < Calls(b, p)

\* Mutant: a pattern is covered as soon as one of its tables is.
Uncovered_Any(p, covered) == IF UserTables(p) \cap covered # {} THEN {} ELSE UserTables(p)

Uncovered(p, covered) == UserTables(p) \ covered

\* Mutant: only receipts that are early explain a gap.
Explained_EarlyOnly(tables, file, from, to, skew) ==
  \A t \in tables : \E r \in file :
    t \in Segments(r.named) /\ r.ts < from /\ (skew = Absent \/ from - r.ts <= skew)

\* Only the boundary is missing: each table has a receipt outside, within the
\* declared skew if one is.
Explained(tables, file, from, to, skew) ==
  \A t \in tables :
    LET d == Outside(file, from, to, t) IN d # {} /\ (skew = Absent \/ Min(d) <= skew)

\* reconcile: the patterns the database counted, by what became of them.
Result(b, a, file, skew) ==
  LET counted == {p \in DOMAIN a.entries : Calls(a, p) > Calls(b, p)}
      data == {p \in counted : Kind(p) = "data"}
      gap == [p \in data |-> Uncovered(p, ReceiptCoverage(file, b.ts, a.ts))]
      excused == {p \in data : gap[p] # {} /\ Explained(gap[p], file, b.ts, a.ts, skew)}
  IN  [reconciled |-> {p \in data : gap[p] = {}},
       unreconciled |-> {p \in data : gap[p] # {}} \ excused,
       indeterminate |-> excused,
       unattributed |-> {p \in counted : Kind(p) = "unattributed"},
       infrastructure |-> {p \in counted : Kind(p) = "infrastructure"},
       unassigned |-> UnassignedReceipts(file, b.ts, a.ts),
       unobserved |-> Unobserved(file, b.ts, a.ts, UNION {UserTables(p) : p \in data})]

\* resolveDeclaredSkew: two declarations that differ are refused.
SkewConflict(flag, profile) ==
  flag # Absent /\ profile # Absent /\ profile.skew # Absent /\ flag # profile.skew
DeclaredSkew(flag, profile) ==
  IF flag # Absent THEN flag ELSE IF profile = Absent THEN Absent ELSE profile.skew

\* infraRuleId.
RuleOf(p) == IF p.infra THEN "infra-query" ELSE "infra-schema"

\* projectResultV2: whether coverage-reconciliation/2 has exceptions.
Exceptions(result, b, a, profile) ==
  \/ \E p \in result.infrastructure : profile = Absent \/ RuleOf(p) \notin profile.exclusions
  \/ result.unattributed # {}
  \/ result.unreconciled # {}
  \/ result.indeterminate # {}
  \/ \E p \in result.reconciled :
       profile = Absent \/ profile.max = Absent \/ Calls(a, p) - Calls(b, p) > profile.max
  \/ result.unobserved # {}

\* main: the exit code.
ReconcileExit(b, a, file, flag, profile) ==
  LET result == Result(b, a, file, DeclaredSkew(flag, profile))
  IN  CASE SkewConflict(flag, profile) \/ Unusable(b, a) -> 20
        [] OTHER -> IF result.unreconciled \cup result.unattributed # {} THEN 40
                    ELSE IF result.indeterminate # {} THEN 41 ELSE 0
-----------------------------------------------------------------------------
(* What happens around it.                                                 *)

ReconcileInit ==
  /\ now = 0 /\ offset \in ClockOffsets
  /\ calls = <<>> /\ run = {} /\ receipts = {}
  /\ before = Absent /\ after = Absent /\ reset = FALSE

Tick == now < End /\ now' = now + 1
        /\ UNCHANGED <<offset, calls, run, receipts, before, after, reset>>

\* A statement: of the gateway, whose receipt follows unless it fails, or of
\* another client, for which there is none.
Statement(p) ==
  /\ after = Absent /\ Cardinality(run) < MaxRun
  /\ calls' = [q \in DOMAIN calls \cup {p} |-> IF q \notin DOMAIN calls THEN 1
                                              ELSE IF q = p THEN calls[q] + 1 ELSE calls[q]]
  /\ run' = run \cup {[id |-> Cardinality(run), pattern |-> p, receipt |-> Absent, inside |-> before # Absent]}
  /\ UNCHANGED <<now, offset, receipts, before, after, reset>>

\* Its receipt: the gateway's clock at the time it is written, and what the call
\* that ran the statement was known to touch.
Receipt(s) ==
  /\ s.receipt = Absent
  /\ \E said \in s.pattern.said :
       LET r == [ts |-> now + offset, tool |-> said.tool, named |-> said.named]
       IN  /\ run' = (run \ {s}) \cup {[s EXCEPT !.receipt = r]}
           /\ receipts' = receipts \cup {r}
  /\ UNCHANGED <<now, offset, calls, before, after, reset>>

Reset ==
  /\ calls # <<>> /\ ~reset
  /\ calls' = <<>> /\ reset' = (before # Absent /\ after = Absent)
  /\ UNCHANGED <<now, offset, run, receipts, before, after>>

\* loadSnapshot of what a snapshot script wrote.
Snapshot ==
  LET s == [ts |-> now, role |-> "reader", entries |-> calls]
  IN  /\ after = Absent
      /\ IF before = Absent THEN before' = s /\ after' = after
         ELSE before' = before /\ after' \in {s, [s EXCEPT !.role = "owner"]}
      /\ UNCHANGED <<now, offset, calls, run, receipts, reset>>

ReconcileNext ==
  \/ Tick \/ Reset \/ Snapshot
  \/ \E p \in Pattern : Statement(p)
  \/ \E s \in run : Receipt(s)

ReconcileSpec == ReconcileInit /\ [][ReconcileNext]_reconcileVars
-----------------------------------------------------------------------------
(* Properties.                                                             *)

Inside == {s \in run : s.inside}

\* The tables a text reads are those extractTables finds in it: one that lists
\* tables after commas, or gives a WITH the name of a table, is not so.
Legible(p) == ~p.infra /\ Segments(Reads(p)) \subseteq UserTables(p)

\* A clean result means receipts: when the tool exits 0 for a window in which
\* the counters were not reset, every statement of the window but housekeeping
\* names a table, and a receipt of the window names each table that was found in
\* it, by the last part of its name: where the text is legible that is all it
\* reads.  Without exceptions in coverage-reconciliation/2 there are also no more
\* statements of a pattern than its profile's multiplicity, and no receipt of the
\* window names only what no statement of the window was found to read.
CleanMeansReceipted ==
  after # Absent /\ ~reset =>
    \A flag \in Skews, profile \in Profiles :
      LET code == ReconcileExit(before, after, receipts, flag, profile)
          result == Result(before, after, receipts, DeclaredSkew(flag, profile))
          covered == ReceiptCoverage(receipts, before.ts, after.ts)
          of(p) == {s \in Inside : s.pattern = p}
      IN  /\ code = 0 =>
               \A s \in Inside :
                 /\ ~s.pattern.infra => /\ ExtractTables(s.pattern) # {}
                                       /\ UserTables(s.pattern) \subseteq covered
                 /\ Legible(s.pattern) => Segments(Reads(s.pattern)) \subseteq covered
          /\ code # 20 /\ ~Exceptions(result, before, after, profile) =>
               /\ code = 0
               /\ \A s \in Inside : Kind(s.pattern) = "data" => Cardinality(of(s.pattern)) <= profile.max
               /\ \A r \in receipts :
                    Distance(r, before.ts, after.ts) = 0 /\ r.named # {} =>
                      \E s \in Inside : Kind(s.pattern) = "data" /\ Segments(r.named) \cap UserTables(s.pattern) # {}

\* Nobody is accused for a clock: a pattern is reported as run without a receipt
\* only if it was run in the window and each of its statements has no receipt, or
\* one further outside the window than the skew that was declared, or one that
\* leaves out a table found in its text; and where that is a receipt of a query in
\* the window that names nothing, the tool says that it is not definitive.
NoFalseAccusation ==
  after # Absent =>
    \A flag \in Skews, profile \in Profiles :
      LET skew == DeclaredSkew(flag, profile)
          result == Result(before, after, receipts, skew)
          distance(s) == Distance(s.receipt, before.ts, after.ts)
          beyond(s) == skew # Absent /\ distance(s) > skew
          blank(s) == s.receipt.named = {} /\ s.receipt.tool \in {"query", "search"} /\ distance(s) = 0
          short(s) == /\ ~(UserTables(s.pattern) \subseteq Segments(s.receipt.named))
                      /\ blank(s) => result.unassigned # {}
      IN  ~SkewConflict(flag, profile) /\ ~Unusable(before, after) =>
            \A p \in result.unreconciled :
              /\ \E s \in Inside : s.pattern = p
              /\ \A s \in Inside : s.pattern = p => s.receipt = Absent \/ beyond(s) \/ short(s)
=============================================================================
