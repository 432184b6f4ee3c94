------------------------------ MODULE VerifyGo ------------------------------
(***************************************************************************)
(* verifiers/go/verify.go, the second implementation of the offline        *)
(* verifiers, written from the specification of receipts and not from the  *)
(* first one (Verify).  The operators have the names of its functions.     *)
(*                                                                         *)
(* A result is an exit code; 0 where the function goes on.                 *)
(***************************************************************************)
EXTENDS Receipts

metaV3 == {"protocol", "operator-declared", "undeclared"}

\* parseArgs: there are no flags for anchors, and an unknown flag ends the run.
UnknownFlag(opts) == opts.anchorCheck \/ opts.headAnchor

\* hashOK takes digits in either case.
hashOK(hash) == hash \in {"hex", "HEX"}

\* receiptHash.
receiptHash(r) == Append(r.chain.prevHash, [seq |-> r.chain.seq, body |-> r.body])

\* loadPubkeys, a map from keyIds to keys; a later file replaces an earlier one.
Unreadable(paths) == {i \in DOMAIN paths : paths[i].pair = None \/ paths[i].keyId = None}
loadPubkeys(paths) ==
  [id \in {paths[i].keyId : i \in DOMAIN paths} |->
     LET files == {i \in DOMAIN paths : paths[i].keyId = id}
     IN  paths[CHOOSE i \in files : \A j \in files : j <= i].pair]
NoKeys(paths) == paths = <<>> \/ Unreadable(paths) # {}
-----------------------------------------------------------------------------
(* Loading.  The decoder stops where the first document of a line ends:    *)
(* what follows it on the line is not read.                                *)

Decoded(line) == line.form \notin {"torn", "pretty"}

loadReceipts(file) ==
  LET broken == {i \in DOMAIN file : ~Decoded(file[i])}
      scalar == {i \in DOMAIN file : file[i].form = "other"}
  IN  IF \E i \in broken : file[i].form = "pretty" THEN 2
      ELSE IF broken \cup scalar # {} THEN 20 ELSE 0
-----------------------------------------------------------------------------
(* schemaOk: what makes a receipt of one version.                          *)

Actor(r) ==
  IF r.v = 1 THEN r.actor.type = "service"
  ELSE r.actor.assurance \notin (IF r.actor.type = "user" THEN {None, "shared-token"} ELSE {None})
       /\ r.actor.type \in {"service", "user"}

\* A map's missing field reads as nil, which is what null reads as.
Declared(meta) == meta.source \in metaV3 /\ (meta.source = "undeclared" => meta.holds \in {"null", "absent"})

Disclosure(d) ==
  \/ d.source = "undeclared" /\ d.hash = None
  \/ d.source = "measured" /\ hashOK(d.hash)

\* Here hasKey asks for the field first.
Destination(d) ==
  [source |-> d.source, holds |-> d.holds] \in
    {[source |-> "undeclared", holds |-> "null"], [source |-> "operator-declared", holds |-> "value"]}

schemaOk(r) ==
  /\ r.v \in {1, 2, 3, 4} /\ r.whole /\ Actor(r)
  /\ r.v \in {3, 4} => \A meta \in {r.model, r.client} : Declared(meta)
  /\ r.v = 4 => Disclosure(r.disclosure) /\ Destination(r.destination)
-----------------------------------------------------------------------------
\* verifySig, over a digest.
verifySig(keys, sig, digest) ==
  /\ sig # None /\ sig.alg = "Ed25519"
  /\ sig.keyId \in DOMAIN keys
  /\ sig.canonical
  /\ sig.by = keys[sig.keyId] /\ sig.over = digest

\* The receipts in their order, each against the one before it: prevHash
\* starts at genesis, prevSeq where it is expected to or nowhere.  What
\* becomes of each.
Loop(opts, keys, file) ==
  [i \in DOMAIN file |->
     LET r == file[i].body
         chain == file[i].chain
         from == IF opts.seqFrom # None THEN opts.seqFrom ELSE IF opts.strict THEN 1 ELSE None
         prevHash == IF i = 1 THEN Genesis ELSE file[i - 1].chain.hash
         gap == IF i = 1 THEN from # None /\ chain.seq # from ELSE chain.seq # file[i - 1].chain.seq + 1
     IN  FirstOf(<<Code(~schemaOk(r), 20),
                  Code(chain.hash # receiptHash(file[i]), 10),
                  Code(chain.prevHash # prevHash, 11),
                  Code(gap, 12),
                  Code(~verifySig(keys, file[i].sig, chain.hash), 13)>>)]

\* Mutant: the hash of the last receipt is not compared.
Pins_Count(opts, file) == <<Code(opts.count # None /\ opts.count # Len(file), 11)>>

\* With any pin an empty file is not what was expected, whatever the count.
Pins(opts, file) ==
  IF file = <<>> THEN <<Code(opts.count # None \/ opts.lastHash # None, 11)>>
  ELSE <<Code(opts.count # None /\ opts.count # Len(file), 11),
         Code(opts.lastHash # None /\ opts.lastHash # file[Len(file)].chain.hash, 11)>>

\* parseArgs, runReceipts.
runReceipts(opts, paths, file) ==
  LET before == FirstOf(<<Code(UnknownFlag(opts), 2),
                          Code(opts.strict /\ opts.count = None /\ opts.lastHash = None, 11),
                          loadReceipts(file), Code(NoKeys(paths), 13)>>)
  IN  IF before # 0 THEN before ELSE FirstOf(<<FirstOf(Loop(opts, loadPubkeys(paths), file)), FirstOf(Pins(opts, file))>>)
-----------------------------------------------------------------------------
(* A countersign record and a proof of its inclusion, as in Verify; of the *)
(* hash only the length is looked at, and prevHash may be empty.           *)

verifyInclusion(record, proof) ==
  LET path == proof.path
      links == [i \in DOMAIN path |-> path[i].prevHash]
      hashes == [i \in DOMAIN path |-> path[i].hash]
      step == [i \in DOMAIN path |-> [seq |-> path[i].seq, hash |-> path[i].hash]]
  IN  /\ proof.of = [seq |-> record.seq, hash |-> record.hash, prevHash |-> record.prevHash]
      /\ path # <<>>
      /\ step[1] = [seq |-> record.seq, hash |-> record.hash]
      /\ links = SubSeq(<<record.prevHash>> \o hashes, 1, Len(path))
      /\ step[Len(path)] = [seq |-> proof.head.seq, hash |-> proof.head.hash]

Record(rec) ==
  /\ rec.type \in {"submit", "upgrade"} /\ rec.seq >= 1
  /\ rec.sig # None /\ rec.sig.alg = "Ed25519" /\ rec.sig.keyId # None

\* runCountersign; given: what --inclusion names.
runCountersign(rec, paths, given) ==
  LET digest == [rec EXCEPT !.sig = None, !.form = "object"]
  IN  FirstOf(<<Code(rec.form \notin {"object", "joined", "pretty"} \/ ~Record(rec), 20),
               Code(NoKeys(paths), 13),
               Code(~verifySig(loadPubkeys(paths), rec.sig, digest), 13),
               Code(given.is = "null", 14),
               Code(given.is = "proof" /\ ~verifyInclusion(rec, given.proof), 14)>>)
=============================================================================
