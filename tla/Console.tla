------------------------------ MODULE Console -------------------------------
(***************************************************************************)
(* The operator's console and the configuration file it edits while a      *)
(* gateway may start from it: POST /api/config of src/console.ts           *)
(* (mergeConsolePolicyPatch, writeConfigAtomic), loadConfig and bootDeps   *)
(* of src/server.ts over parseConariumConfig of src/config.ts.             *)
(*                                                                         *)
(* A file is [sections, policy]: which parts it has beside the policy, and *)
(* the policy's fields that are set.  The console, the gateway and the     *)
(* operator are processes of their own; a handler of the console runs to   *)
(* its end, but between its calls to the file system the others do too.    *)
(***************************************************************************)
EXTENDS Naturals

CONSTANTS
  Missing,    \* there is no such file; no gateway runs
  Originals,  \* the files an operator may have written
  Patches,    \* the bodies of POST /api/config
  MaxSaves    \* bound on POST /api/config

\* A file has its sections and its policy, and nothing else.
IsFile(f) == f = [sections |-> f.sections, policy |-> f.policy]
ASSUME FilesAssumption == \A o \in Originals : o = Missing \/ IsFile(o)

VARIABLES
  original,   \* what the operator wrote
  file,       \* conarium.config.json
  editor,     \* the console: [pc, next], next the contents of its temp file
  saves,      \* POSTs handled
  sent,       \* the patches among them that were valid
  keys,       \* whether the gateway's environment has both audit keys
  served      \* the configuration of the running gateway

consoleVars == <<original, file, editor, saves, sent, keys, served>>

Sections == {"connectors", "custom-sql", "demo", "audit", "production"}
Edited == {"denyTables", "maskColumns"}   \* of POLICY_PATCH_KEYS
Kept == {"allowConnectors", "dialect", "profiles"}
Empty == [sections |-> {}, policy |-> <<>>]
NoEdit == [pc |-> "idle", next |-> Empty]

ConsoleInit ==
  /\ original \in Originals /\ file = original
  /\ editor = NoEdit /\ saves = 0 /\ sent = {}
  /\ keys \in BOOLEAN /\ served = Missing
-----------------------------------------------------------------------------
(* The gateway.                                                            *)

\* parseConariumConfig: the strict schema (no blank names), no demo connector,
\* a dialect for an engine that is not known.
Parses(f) ==
  /\ "connectors" \in f.sections
  /\ "demo" \notin f.sections
  /\ \A field \in DOMAIN f.policy : f.policy[field] # "blank"
  /\ "custom-sql" \in f.sections => "dialect" \in DOMAIN f.policy

\* enforceProductionProfile, and the connectors must be named in the policy.
Boots(f) ==
  /\ "production" \in f.sections => keys
  /\ "allowConnectors" \in DOMAIN f.policy

\* loadConfig, bootDeps: without a file a gateway starts with nothing.
Boot ==
  /\ served = Missing
  /\ \/ file = Missing /\ served' = Empty
     \/ file # Missing /\ Parses(file) /\ Boots(file) /\ served' = file
  /\ UNCHANGED <<original, file, editor, saves, sent, keys>>

Stop == served # Missing /\ served' = Missing
        /\ UNCHANGED <<original, file, editor, saves, sent, keys>>
-----------------------------------------------------------------------------
(* The console.                                                            *)

\* validateConsoleConfig is strict about the fields, and lets blank names pass.
Valid(patch) == DOMAIN patch \subseteq Edited

\* A field the patch names is the patch's, the others stay.
Patched(policy, patch) ==
  [field \in DOMAIN patch \cup DOMAIN policy |->
     IF field \in DOMAIN patch THEN patch[field] ELSE policy[field]]

\* Mutant: what the console does not show is not written back.
Merged_Shown(existing, patch) ==
  [sections |-> existing.sections \ {"audit", "production"}, policy |-> Patched(existing.policy, patch)]

\* mergeConsolePolicyPatch.
Merged(existing, patch) == [existing EXCEPT !.policy = Patched(existing.policy, patch)]

\* The file is read and merged; one that is not there counts as empty.
Save(patch) ==
  /\ editor.pc = "idle" /\ saves < MaxSaves
  /\ saves' = saves + 1
  /\ IF Valid(patch)
     THEN /\ sent' = sent \cup {patch}
          /\ editor' = [pc |-> "temp", next |-> Merged(IF file = Missing THEN Empty ELSE file, patch)]
     ELSE UNCHANGED <<sent, editor>>
  /\ UNCHANGED <<original, file, keys, served>>

\* The rename; Windows may want the old file out of the way first.
Rename ==
  /\ editor.pc = "temp"
  /\ \/ file' = editor.next /\ editor' = NoEdit
     \/ file' = Missing /\ editor' = [editor EXCEPT !.pc = "gap"]
     \/ file' = file /\ editor' = NoEdit
  /\ UNCHANGED <<original, saves, sent, keys, served>>

\* The second rename may fail, and the temp file is removed as well.
RenameAgain ==
  /\ editor.pc = "gap"
  /\ file' \in {editor.next, file}
  /\ editor' = NoEdit
  /\ UNCHANGED <<original, saves, sent, keys, served>>

Dies == editor.pc # "off" /\ editor' = [NoEdit EXCEPT !.pc = "off"]
        /\ UNCHANGED <<original, file, saves, sent, keys, served>>

\* bin/conarium-console.mjs does not start without a file.
Starts == editor.pc = "off" /\ file # Missing /\ editor' = NoEdit
          /\ UNCHANGED <<original, file, saves, sent, keys, served>>

\* The operator puts back what was there.
Restore == file # original /\ file' = original
           /\ UNCHANGED <<original, editor, saves, sent, keys, served>>

ConsoleNext == \/ Boot \/ Stop \/ Restore
        \/ \E patch \in Patches : Save(patch)
        \/ Rename \/ RenameAgain \/ Dies \/ Starts

ConsoleSpec == ConsoleInit /\ [][ConsoleNext]_consoleVars
-----------------------------------------------------------------------------
(* Properties.                                                             *)

\* A gateway that serves a connector serves the operator's whole configuration:
\* every section and every field the console does not edit are the operator's,
\* and an edited field holds what the operator or a valid patch gave it,
\* wherever the console was when the gateway read the file and whatever became
\* of its renames (the promise above mergeConsolePolicyPatch and the comment of
\* writeConfigAtomic).
ServesWholeConfig ==
  served # Missing /\ "connectors" \in served.sections =>
    /\ served.sections = original.sections
    /\ DOMAIN original.policy \subseteq DOMAIN served.policy
    /\ \A field \in DOMAIN served.policy :
         \/ field \in DOMAIN original.policy /\ served.policy[field] = original.policy[field]
         \/ \E patch \in sent : field \in DOMAIN patch /\ patch[field] = served.policy[field]
=============================================================================
