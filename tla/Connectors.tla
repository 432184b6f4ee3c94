----------------------------- MODULE Connectors -----------------------------
(***************************************************************************)
(* What the connectors of src/connectors/ say they can do and how each of  *)
(* their calls can end, a record per class.  "missing" is an error whose   *)
(* message isMissingTableMessage of src/table-unavailable.ts takes for an  *)
(* unknown table.  The rows that come back obey the statement's limit only *)
(* where a database runs it (honoursLimit): the demo, an API and an        *)
(* operator's executor return what they have.  Nothing bounds the time of  *)
(* the calls in unbounded: no statement timeout is set, fetch is not       *)
(* aborted (OpenAPI's abort is cleared before the body is read), the       *)
(* executor is awaited.                                                    *)
(***************************************************************************)
CONSTANTS
  Slow   \* whether a call that does I/O may fail

IO == IF Slow THEN {"fails"} ELSE {}

\* A table that is not there is described as one without columns.
Postgres ==
  [can |-> {"list", "describe", "query"}, connect |-> {"ok", "fails"}, list |-> {"ok"} \cup IO,
   describe |-> {"ok"} \cup IO, query |-> {"ok", "missing"} \cup IO, search |-> {"fails"},
   honoursLimit |-> TRUE, unbounded |-> {"list", "describe", "query"}]

\* Says it can search, and passes the search on to a Postgres connector.
Zion == [Postgres EXCEPT !.can = @ \cup {"search"}]

\* Lists its configured allowlist; off it, "not on connector allowlist" is not
\* a missing table; no message of the REST path is looked at.
SupabaseRest ==
  [Postgres EXCEPT !.list = {"ok"}, !.query = {"ok"} \cup IO, !.unbounded = {"describe", "query"}]

\* Reads the directory on every call.
Docs ==
  [can |-> {"list", "describe", "search"}, connect |-> {"ok", "fails"}, list |-> {"ok"} \cup IO,
   describe |-> {"ok", "missing"} \cup IO, query |-> {"fails"}, search |-> {"ok"} \cup IO,
   honoursLimit |-> FALSE, unbounded |-> {}]

\* Slack answers from constants.
Slack ==
  [can |-> {"list", "describe", "search"}, connect |-> {"ok"}, list |-> {"ok"},
   describe |-> {"ok", "missing"}, query |-> {"fails"}, search |-> {"ok"}, honoursLimit |-> FALSE,
   unbounded |-> {}]

\* So does Jira.
Jira == Slack

\* Knows its endpoints since connect; only a query goes out.  It refuses an
\* endpoint that is not in the document, and a 404's "Not Found" reads like a
\* missing table.
OpenApi ==
  [can |-> {"list", "describe", "query", "search"}, connect |-> {"ok", "fails"}, list |-> {"ok"},
   describe |-> {"ok", "missing"}, query |-> {"ok", "missing", "fails"}, search |-> {"ok"},
   honoursLimit |-> FALSE, unbounded |-> {"query"}]

\* Its query is runGoverned, the operator's executor.
CustomSql ==
  [can |-> {"query"}, connect |-> {"ok", "fails"}, list |-> {"fails"}, describe |-> {"fails"},
   query |-> {"ok", "missing"} \cup IO, search |-> {"fails"}, honoursLimit |-> FALSE,
   unbounded |-> {"query"}]

\* Refuses what parseDemoSelect does not take; its "Column not found" reads
\* like a missing table.
Demo ==
  [can |-> {"list", "describe", "query"}, connect |-> {"ok"}, list |-> {"ok"},
   describe |-> {"ok", "missing"}, query |-> {"ok", "missing", "fails"}, search |-> {"fails"},
   honoursLimit |-> FALSE, unbounded |-> {}]

Types == {"postgres", "supabase", "supabase-rest", "docs", "openapi", "slack", "jira", "custom-sql", "demo"}

\* createConnector.
Behaviour == [t \in Types |->
  CASE t = "postgres" -> Postgres
    [] t = "supabase" -> Zion
    [] t = "supabase-rest" -> SupabaseRest
    [] t = "docs" -> Docs
    [] t = "openapi" -> OpenApi
    [] t = "slack" -> Slack
    [] t = "jira" -> Jira
    [] t = "custom-sql" -> CustomSql
    [] t = "demo" -> Demo]
=============================================================================
