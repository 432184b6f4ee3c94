------------------------------ MODULE Receipts ------------------------------
(***************************************************************************)
(* Receipts: what an audit entry becomes (entryToReceiptInput of           *)
(* src/audit.ts, buildReceipt of src/receipt.ts), and the signatures over  *)
(* them.                                                                   *)
(*                                                                         *)
(* A line of a receipt file is [form, body, chain, sig, anchor].  Its form *)
(* is "object"; or "torn", if it does not parse, "other", if it is JSON    *)
(* but no object, "joined", if another receipt follows on the line, whose  *)
(* newline is gone, or "pretty", if it is spread over several lines.       *)
(* SHA-256 is ideal: the digest of a receipt is the history it commits to, *)
(* the sequence of [seq, body] from the genesis to it.  An Ed25519         *)
(* signature names the key that made it and the digest it is over.         *)
(***************************************************************************)
EXTENDS Naturals, Sequences, SequencesExt

CONSTANTS
  None   \* null: no signature, no anchor, no declaration

\* A program that ends with the first check that fails: its exit code.
Code(failed, n) == IF failed THEN n ELSE 0
FirstOf(codes) ==
  LET bad == {i \in DOMAIN codes : codes[i] # 0}
  IN  IF bad = {} THEN 0 ELSE codes[CHOOSE i \in bad : \A j \in bad : i <= j]

Genesis == <<>>
Current == 4   \* RECEIPT_VERSION

\* stripForHash, receiptHash: chain.hash, sig and anchor are outside the hash.
Digest(r) == Append(r.chain.prevHash, [seq |-> r.chain.seq, body |-> r.body])

\* nextChainState.
NextState(log) ==
  IF log = <<>> THEN [seq |-> 1, prevHash |-> Genesis]
  ELSE [seq |-> Last(log).chain.seq + 1, prevHash |-> Last(log).chain.hash]
-----------------------------------------------------------------------------
(* The body.                                                               *)

Decision(entry) == IF entry.denied THEN "deny" ELSE IF entry.masked > 0 THEN "partial" ELSE "allow"

\* Where the objects come from depends on the tool.
DataRefs(entry) == entry.tables \cup (IF entry.tool = "describe_table" THEN {entry.target} ELSE {})

\* The input of a receipt; what is measured stands before what is declared.
ReceiptInput(entry, meta) ==
  [actor |-> [type |-> IF entry.assurance = "per-user-token" THEN "user" ELSE "service",
              assurance |-> entry.assurance],
   model |-> meta.model,
   client |-> IF entry.client # None THEN entry.client ELSE meta.client,
   destination |-> meta.destination,
   tool |-> entry.tool, target |-> entry.target, refs |-> DataRefs(entry),
   decision |-> Decision(entry), denied |-> entry.denied,
   payload |-> ~entry.denied /\ entry.payload]

\* buildActor throws for a person nobody authenticated.
ActorAllowed(actor) == ~(actor.type = "user" /\ actor.assurance = "shared-token")

\* What stands for it: its value, or null; "absent" if the fields were not there.
Holds(value) == IF value = None THEN "null" ELSE "value"

BuildModel(model) == [source |-> IF model = None THEN "undeclared" ELSE "operator-declared",
                      holds |-> Holds(model)]
BuildClient(client) == IF client = None THEN [source |-> "undeclared", holds |-> "null"]
                       ELSE [source |-> client, holds |-> "value"]
BuildDestination(value) == [source |-> IF value = None THEN "undeclared" ELSE "operator-declared",
                            holds |-> Holds(value)]

\* Mutant: a refusal is filed as measured, with nothing measured.
BuildDisclosure_Denied(in) ==
  [source |-> IF in.denied \/ in.payload THEN "measured" ELSE "undeclared",
   hash |-> IF in.payload THEN "hex" ELSE None]

\* hash: None, "hex", or "HEX" in upper case or "absent", which nobody here writes.
BuildDisclosure(in) ==
  LET measured == ~in.denied /\ in.payload
  IN  [source |-> IF measured THEN "measured" ELSE "undeclared",
       hash |-> IF measured THEN "hex" ELSE None]

\* whole: id, ts, consentRef: null, anchor and the seven fields of every version.
Body(in) ==
  [v |-> Current, whole |-> TRUE, actor |-> in.actor, model |-> BuildModel(in.model),
   client |-> BuildClient(in.client), destination |-> BuildDestination(in.destination),
   disclosure |-> BuildDisclosure(in), tool |-> in.tool, target |-> in.target,
   refs |-> in.refs, decision |-> in.decision]

\* signHash.
Sign(key, digest) == [alg |-> "Ed25519", keyId |-> key.keyId, by |-> key.pair, over |-> digest,
                      canonical |-> TRUE]

\* buildReceipt, for a sink that ends with log; a receipt sink has a key.
BuildReceipt(in, log, key) ==
  LET state == NextState(log)
      digest == Append(state.prevHash, [seq |-> state.seq, body |-> Body(in)])
  IN  [form |-> "object", body |-> Body(in),
       chain |-> [seq |-> state.seq, prevHash |-> state.prevHash, hash |-> digest],
       sig |-> Sign(key, digest), anchor |-> None]

\* The objects a receipt names (computeCoverage, receiptCoverage).
Named(body) ==
  body.refs \cup (IF body.tool = "describe_table" /\ body.target # None THEN {body.target} ELSE {})

\* A receipt of a data access that names no object.
Unassigned(body) == Named(body) = {} /\ body.tool \in {"query", "search"}
-----------------------------------------------------------------------------
(* verifyReceiptChain, the console's check of a file: is it a chain at all?*)

ChainHolds(file) ==
  \A i \in DOMAIN file :
    /\ file[i].form = "object"
    /\ file[i].chain.hash = Digest(file[i])
    /\ file[i].chain.prevHash = IF i = 1 THEN Genesis ELSE file[i - 1].chain.hash
    /\ i > 1 => file[i].chain.seq = file[i - 1].chain.seq + 1
=============================================================================
