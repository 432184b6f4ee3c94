------------------------------- MODULE Verify -------------------------------
(***************************************************************************)
(* The offline verifiers: bin/conarium-verify.mjs on receipt files and     *)
(* bin/conarium-countersign-verify.mjs on countersign records.  Each is a  *)
(* sequence of checks; the first that fails gives the exit code.           *)
(*                                                                         *)
(* opts: [strict, seqFrom, count, lastHash, anchorCheck, headAnchor], None *)
(* for a pin that is not given.  keyFiles: the --pubkey files in order,    *)
(* [keyId, pair], None for what cannot be read.  rows: the sidecar of      *)
(* anchors, [hash, ots], ots: None or [over, confirmed].  net: "up",       *)
(* "down", or "alone" for the script without its dist/.                    *)
(***************************************************************************)
EXTENDS Receipts

-----------------------------------------------------------------------------
(* One receipt.                                                            *)

Sources == {"protocol", "operator-declared", "undeclared"}

ActorOK(b) ==
  IF b.v = 1 THEN b.actor.type = "service"
  ELSE /\ b.actor.type \in {"service", "user"}
       /\ b.actor.assurance # None
       /\ ActorAllowed(b.actor)

\* A value that is not there is not null.
Undeclared(m) == m.source = "undeclared" => m.holds = "null"
MetaOK(m) == m.source \in Sources /\ Undeclared(m)

DisclosureOK(d) ==
  CASE d.source = "measured" -> d.hash = "hex"
    [] d.source = "undeclared" -> d.hash = None
    [] OTHER -> FALSE

DestinationOK(d) ==
  \/ d.source = "operator-declared" /\ d.holds = "value"
  \/ d.source = "undeclared" /\ d.holds = "null"

\* schemaOk.
SchemaOK(b) ==
  /\ b.v \in 1..4
  /\ b.whole
  /\ ActorOK(b)
  /\ b.v >= 3 => MetaOK(b.model) /\ MetaOK(b.client)
  /\ b.v = 4 => DisclosureOK(b.disclosure) /\ DestinationOK(b.destination)

\* loadVerifyKeys: of two files with a keyId the later counts.
KeysRefused(keyFiles) ==
  keyFiles = <<>> \/ \E i \in DOMAIN keyFiles : None \in {keyFiles[i].keyId, keyFiles[i].pair}
KeyOf(keyFiles, keyId) ==
  LET named == {i \in DOMAIN keyFiles : keyFiles[i].keyId = keyId}
  IN  IF named = {} THEN None ELSE keyFiles[CHOOSE i \in named : \A j \in named : j <= i].pair

\* verifySig.
SigOK(keyFiles, sig, digest) ==
  /\ sig # None
  /\ sig.alg = "Ed25519"
  /\ KeyOf(keyFiles, sig.keyId) # None
  /\ sig.canonical
  /\ sig.by = KeyOf(keyFiles, sig.keyId) /\ sig.over = digest

\* prevHash, then seq; without a pin the first receipt sets the baseline.
ChainCode(file, i, from) ==
  LET c == file[i].chain
  IN  IF i = 1 THEN FirstOf(<<Code(c.prevHash # Genesis, 11), Code(from # None /\ c.seq # from, 12)>>)
      ELSE FirstOf(<<Code(c.prevHash # file[i - 1].chain.hash, 11),
                     Code(c.seq # file[i - 1].chain.seq + 1, 12)>>)

\* findAnchorRecord: the last row of a ref.
RowOf(rows, ref) ==
  LET named == {i \in DOMAIN rows : rows[i].hash = ref}
  IN  IF named = {} THEN None ELSE rows[CHOOSE i \in named : \A j \in named : j <= i]

\* verifyOtsProof: a proof of another digest fails, Bitcoin is asked last.
OtsCode(ots, hash, net) ==
  FirstOf(<<Code(net = "alone", 15), Code(ots.over # hash, 14), Code(ots.confirmed /\ net = "down", 15)>>)

AnchorCode(r, rows, net) ==
  IF r.anchor = None THEN 0
  ELSE LET row == RowOf(rows, r.anchor.ref)
       IN  IF row = None \/ row.ots = None THEN 14 ELSE OtsCode(row.ots, r.chain.hash, net)

ReceiptCode(file, i, opts, keyFiles, rows, net) ==
  LET r == file[i]
  IN  FirstOf(<<Code(r.form = "other" \/ ~SchemaOK(r.body), 20),
                Code(r.chain.hash # Digest(r), 10),
                ChainCode(file, i, opts.seqFrom),
                Code(~SigOK(keyFiles, r.sig, r.chain.hash), 13),
                IF opts.anchorCheck THEN AnchorCode(r, rows, net) ELSE 0>>)
-----------------------------------------------------------------------------
(* A file.                                                                 *)

\* parseArgs.
Parsed(opts) ==
  [opts EXCEPT !.seqFrom = IF opts.strict /\ @ = None THEN 1 ELSE @, !.anchorCheck = @ \/ opts.headAnchor]

TailPinned(opts) == opts.count # None \/ opts.lastHash # None \/ opts.anchorCheck

\* parseReceiptFile: a file that is JSON but not one receipt per line is no
\* verdict (2); what is no object is found when its turn comes.
LoadCode(file) ==
  IF \E i \in DOMAIN file : file[i].form = "pretty" THEN 2
  ELSE Code(\E i \in DOMAIN file : file[i].form \in {"torn", "joined"}, 20)

\* Mutant: the head of the file is not compared.
PinCodes_CountOnly(file, opts) == <<Code(opts.count # None /\ Len(file) # opts.count, 11)>>

\* An empty file meets no pin.
PinCodes(file, opts) ==
  <<Code(opts.count # None /\ (file = <<>> \/ Len(file) # opts.count), 11),
    Code(opts.lastHash # None /\ (file = <<>> \/ Last(file).chain.hash # opts.lastHash), 11)>>

AnchorCodes(file, opts) ==
  <<Code(opts.headAnchor /\ (file = <<>> \/ Last(file).anchor = None), 14),
    Code(opts.anchorCheck /\ file # <<>> /\ \A i \in DOMAIN file : file[i].anchor = None, 15)>>

Checks(file, opts, keyFiles, rows, net) ==
  <<FirstOf([i \in DOMAIN file |-> ReceiptCode(file, i, opts, keyFiles, rows, net)]),
    FirstOf(PinCodes(file, opts)), FirstOf(AnchorCodes(file, opts))>>

\* main of conarium-verify.mjs.
Exit(file, opts, keyFiles, rows, net) ==
  LET o == Parsed(opts)
      before == FirstOf(<<Code(o.strict /\ ~TailPinned(o), 11), LoadCode(file), Code(KeysRefused(keyFiles), 13)>>)
  IN  IF before # 0 THEN before ELSE FirstOf(Checks(file, o, keyFiles, rows, net))

\* tailPinFromReceipts, verifyCommandFor: the pins the console prints for a sink.
ConsoleCommand(sink) ==
  [strict |-> FALSE, seqFrom |-> None, anchorCheck |-> FALSE, headAnchor |-> FALSE,
   count |-> IF sink = <<>> THEN None ELSE Len(sink),
   lastHash |-> IF sink = <<>> THEN None ELSE Last(sink).chain.hash]
-----------------------------------------------------------------------------
(* A countersign record [form, type, id, digest, hash, seq, prevHash, sig, *)
(* tidy] and a proof that the log holds it; tidy: hash is 64 hex digits in *)
(* lower case and prevHash is not empty.  What --inclusion and --log-url   *)
(* give is [is, proof]: is = "proof", "unasked", "null" for a file that    *)
(* says so, "down" or "nothing" for an answer without a proof.             *)

Link(rec) == [seq |-> rec.seq, hash |-> rec.hash, prevHash |-> rec.prevHash]

\* verifyInclusionProof.
InclusionOK(rec, proof) ==
  /\ proof.of = Link(rec)
  /\ proof.path # <<>>
  /\ proof.path[1].hash = rec.hash /\ proof.path[1].seq = rec.seq
  /\ \A i \in DOMAIN proof.path :
       proof.path[i].prevHash = IF i = 1 THEN rec.prevHash ELSE proof.path[i - 1].hash
  /\ Last(proof.path).hash = proof.head.hash /\ Last(proof.path).seq = proof.head.seq

\* loadRecord.
RecordOK(rec) ==
  /\ rec.form \in {"object", "pretty"}
  /\ rec.type \in {"submit", "upgrade"}
  /\ rec.tidy /\ rec.seq >= 1
  /\ rec.sig # None /\ rec.sig.alg = "Ed25519" /\ rec.sig.keyId # None

\* A signature is over the record without it (countersignDigest).
Unsigned(rec) == [rec EXCEPT !.sig = None, !.form = "object"]

\* main, with one key file; what the log answers replaces the file.
CountersignExit(rec, keyFile, given, log) ==
  LET used == IF log.is = "unasked" THEN given ELSE log
  IN  FirstOf(<<Code(~RecordOK(rec), 20),
                Code(KeysRefused(<<keyFile>>) \/ ~SigOK(<<keyFile>>, rec.sig, Unsigned(rec)), 13),
                Code(log.is = "down", 15), Code(log.is = "nothing", 14),
                Code(used.is = "proof" /\ ~InclusionOK(rec, used.proof), 14)>>)
=============================================================================
