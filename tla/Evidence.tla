------------------------------ MODULE Evidence ------------------------------
(***************************************************************************)
(* A chain of receipts from the gateway that writes it to the tools an     *)
(* auditor runs on a copy.  The gateway appends (Audit.writeReceipt, one   *)
(* at a time: SinkLock), may change its key or get a new sink; the         *)
(* stamper of the published chain (stampDemoHead of deploy/.../            *)
(* proof-anchor.mjs) reads the file, asks a calendar and writes back what  *)
(* it read.  An auditor's copy suffers faults; for it the heads of the     *)
(* chain have been countersigned and a coverage declaration was signed.    *)
(***************************************************************************)
EXTENDS Coverage, VerifyGo

CONSTANTS
  Entries,      \* the audit entries that may come first, second, ...
  Meta,         \* what the operator declares of model, client, destination
  Keys,         \* the gateway's keys, in the order they are used
  Service,      \* the anchor service's key
  Spoilt(_),    \* the bodies a body may turn into in a damaged copy
  MaxStamps,    \* bound on stampers started
  MaxFaults     \* bound on faults of a copy

\* None is no number and no digest; the gateway has a list of keys, and no key is without a
\* name (loadSigningKey); an entry says how its actor was known and the client
\* is known from the connection or from the operator (log() of audit.ts).
ASSUME EvidenceAssumption ==
  /\ None \notin Nat /\ None # "HEX"
  /\ Keys # <<>> /\ Keys \in Seq({Keys[i] : i \in DOMAIN Keys})
  /\ \A key \in {Keys[i] : i \in DOMAIN Keys} \cup {Service} : None \notin {key.keyId, key.pair}
  /\ Entries \in Seq({Entries[i] : i \in DOMAIN Entries})
  /\ \A i \in DOMAIN Entries : \A entry \in Entries[i] :
       entry.assurance # None /\ entry.client \in {"protocol", None}
  /\ Meta.client \in {"operator-declared", None}

VARIABLES
  log,        \* the receipt sink
  archive,    \* the sink before it, if there was one
  used,       \* how many of Keys have been used
  written,    \* digests of all receipts ever written
  rows,       \* the sidecar of anchors
  stamper,    \* the receipts a running stamper read, with its pc
  stamps,     \* stampers started
  copy        \* the auditor's copy: [file, faults], or None

gateway == <<log, archive, used, written>>
anchoring == <<rows, stamper, stamps>>
vars == <<gateway, anchoring, copy>>

Idle == [pc |-> "idle", read |-> <<>>]

Init ==
  /\ log = <<>> /\ archive = <<>> /\ used = 1 /\ written = {}
  /\ rows = <<>> /\ stamper = Idle /\ stamps = 0
  /\ copy = None
-----------------------------------------------------------------------------
(* The gateway.                                                            *)

\* writeReceipt: the chain continues from the file, not from memory.
Write(entry) ==
  LET in == ReceiptInput(entry, Meta)
      r == BuildReceipt(in, log, Keys[used])
  IN  /\ ActorAllowed(in.actor)
      /\ log' = Append(log, r)
      /\ written' = written \cup {r.chain.hash}
      /\ UNCHANGED <<archive, used, anchoring, copy>>

\* A restart with the next key.
Rotate ==
  /\ used < Len(Keys)
  /\ used' = used + 1
  /\ UNCHANGED <<log, archive, written, anchoring, copy>>

\* A restart with another receiptSink.
NewSink ==
  /\ archive = <<>> /\ log # <<>> /\ stamper = Idle
  /\ archive' = log /\ log' = <<>> /\ rows' = <<>>
  /\ UNCHANGED <<used, written, stamper, stamps, copy>>
-----------------------------------------------------------------------------
(* stampDemoHead.                                                          *)

StampRead ==
  /\ stamper = Idle /\ stamps < MaxStamps /\ log # <<>>
  /\ stamper' = [pc |-> "calendar", read |-> log]
  /\ stamps' = stamps + 1
  /\ UNCHANGED <<gateway, rows, copy>>

\* The calendar's answer: a proof for a head that has none, or an upgrade of
\* the one it has, with Bitcoin's word for it or without.
StampAnswer ==
  LET head == Last(stamper.read).chain.hash
      stamped == rows # <<>> /\ rows[1].hash = head
  IN  /\ stamper.pc = "calendar"
      /\ \E confirmed \in IF stamped THEN {rows[1].ots.confirmed, TRUE} ELSE {FALSE} :
           rows' = <<[hash |-> head, ots |-> [over |-> head, confirmed |-> confirmed]]>>
      /\ stamper' = [stamper EXCEPT !.pc = "chain"]
      /\ UNCHANGED <<gateway, stamps, copy>>

Anchored(file) == [file EXCEPT ![Len(file)].anchor = [ref |-> Last(file).chain.hash]]

\* The file is replaced by what was read: a receipt appended since is lost.
StampWrite ==
  /\ stamper.pc = "chain"
  /\ log' = Anchored(stamper.read)
  /\ stamper' = Idle
  /\ UNCHANGED <<archive, used, written, rows, stamps, copy>>

\* The calendar fails, or the process dies.
StampDies == stamper # Idle /\ stamper' = Idle /\ UNCHANGED <<gateway, rows, stamps, copy>>
-----------------------------------------------------------------------------
(* The copy.                                                               *)

\* One file, or the two of them in a directory.
HandOver ==
  /\ copy = None /\ stamper = Idle
  /\ \E file \in {log, archive \o log} : copy' = [file |-> file, faults |-> 0]
  /\ UNCHANGED <<gateway, anchoring>>

Live == \/ Cardinality(written) < Len(Entries) /\ \E entry \in Entries[Cardinality(written) + 1] : Write(entry)
        \/ Rotate \/ NewSink
        \/ StampRead \/ StampAnswer \/ StampWrite \/ StampDies
        \/ HandOver
-----------------------------------------------------------------------------
(* Its faults.                                                             *)

Lost(file) == {RemoveAt(file, i) : i \in DOMAIN file}
Repeated(file) == {InsertAt(file, i, file[i]) : i \in DOMAIN file}
Reordered(file) ==
  {[file EXCEPT ![i] = file[i + 1], ![i + 1] = file[i]] : i \in {k \in DOMAIN file : k < Len(file)}}

\* The newline between two lines is lost.
Joined(file) ==
  {[RemoveAt(file, i + 1) EXCEPT ![i].form = "joined"] : i \in {k \in DOMAIN file : k < Len(file)}}

\* One receipt, saved by an editor that lays it out.
Pretty(file) == IF Len(file) = 1 THEN {<<[file[1] EXCEPT !.form = "pretty"]>>} ELSE {}

\* A line that no longer is what was written.
Damaged(r) ==
  {[r EXCEPT !.form = f] : f \in {"torn", "other"}}
  \cup {[r EXCEPT !.body = b] : b \in Spoilt(r.body)}
  \cup {[r EXCEPT !.chain.seq = @ + 1], [r EXCEPT !.chain.prevHash = Append(@, [seq |-> 0, body |-> r.body])],
        [r EXCEPT !.chain.hash = Append(@, [seq |-> 0, body |-> r.body])],
        [r EXCEPT !.sig = None], [r EXCEPT !.anchor = None]}
  \cup (IF r.sig = None THEN {}
        ELSE {[r EXCEPT !.sig.canonical = FALSE], [r EXCEPT !.sig.over = Genesis],
              [r EXCEPT !.sig.keyId = None]})

Fault ==
  /\ copy # None /\ copy.faults < MaxFaults
  /\ \E file \in Lost(copy.file) \cup Repeated(copy.file) \cup Reordered(copy.file)
                 \cup Joined(copy.file) \cup Pretty(copy.file)
                 \cup UNION {{[copy.file EXCEPT ![i] = r] : r \in Damaged(copy.file[i])} :
                             i \in DOMAIN copy.file} :
       copy' = [file |-> file, faults |-> copy.faults + 1]
  /\ UNCHANGED <<gateway, anchoring>>

Next == (copy = None /\ Live) \/ Fault
Spec == Init /\ [][Next]_vars
-----------------------------------------------------------------------------
(* What an auditor may ask.                                                *)

\* Of either verifier.
Verdict(verifier, file, opts, keyFiles) ==
  IF verifier = "go" THEN runReceipts(opts, keyFiles, file) ELSE Exit(file, opts, keyFiles, rows, "up")

KeyFiles == {Keys, Tail(Keys)}

Bare == [strict |-> FALSE, seqFrom |-> None, count |-> None, lastHash |-> None,
         anchorCheck |-> FALSE, headAnchor |-> FALSE]

\* With the pins of the sink the copy was taken from, or with some of them.
Options ==
  LET pinned == ConsoleCommand(log)
  IN  {Bare, pinned, [pinned EXCEPT !.strict = TRUE], [pinned EXCEPT !.lastHash = None, !.seqFrom = 1],
       [Bare EXCEPT !.strict = TRUE, !.anchorCheck = TRUE], [Bare EXCEPT !.headAnchor = TRUE]}

\* What the lines of a file say, in their order.
Contents(file) == [i \in DOMAIN file |-> [seq |-> file[i].chain.seq, body |-> file[i].body]]

\* The countersign log after every head of a sink was submitted.
Countersigned(file) ==
  [k \in DOMAIN file |->
     LET digests == [i \in 1..k |-> file[i].chain.hash]
         rec == [form |-> "object", type |-> "submit", seq |-> k, prevHash |-> Front(digests), hash |-> digests,
                 digest |-> Last(digests), tidy |-> TRUE, sig |-> None]
     IN  [rec EXCEPT !.sig = Sign(Service, rec)]]

ProofOf(clog, k) ==
  [of |-> Link(clog[k]), path |-> [i \in 1..(Len(clog) - k + 1) |-> Link(clog[k + i - 1])],
   head |-> Link(Last(clog))]
Given(proof) == [is |-> "proof", proof |-> proof]
Without(is) == [is |-> is, proof |-> None]

\* A saved record with a fault, and proofs that are not of it.
DamagedRecords(rec) ==
  {[rec EXCEPT !.form = f] : f \in {"torn", "other", "joined", "pretty"}}
  \cup {[rec EXCEPT !.type = "ots"], [rec EXCEPT !.seq = @ + 1], [rec EXCEPT !.tidy = FALSE],
        [rec EXCEPT !.digest = Genesis], [rec EXCEPT !.sig = None], [rec EXCEPT !.sig.keyId = "other"],
        [rec EXCEPT !.sig.canonical = FALSE]}
ProofsFor(clog, k) ==
  LET proof == ProofOf(clog, k)
  IN  {Without("unasked"), Given(proof), Given([proof EXCEPT !.path = <<>>]),
       Given([proof EXCEPT !.head = Link(clog[1])]), Given([proof EXCEPT !.path[1].prevHash = proof.path[1].hash]),
       Given(ProofOf(clog, 1)), Without("null")}
-----------------------------------------------------------------------------
(* Properties.                                                             *)

\* A file that a verifier accepts is, line by line, the history its last
\* receipt commits to, and that receipt is one the gateway wrote; with the pins
\* the console prints for a sink it is all of that sink (isTailPinned,
\* verifyCommandFor), and with --require-head-anchor its last receipt was
\* stamped itself.
AcceptedIsOurs ==
  copy # None /\ copy.file # <<>> =>
    \A v \in {"mjs", "go"}, opts \in Options, keyFiles \in KeyFiles :
      Verdict(v, copy.file, opts, keyFiles) = 0 =>
        LET hash == Last(copy.file).chain.hash
        IN  /\ Contents(copy.file) = hash
            /\ hash \in written
            /\ opts.lastHash # None => Contents(copy.file) = Contents(log)
            /\ opts.headAnchor => \E i \in DOMAIN rows : rows[i].ots.over = hash

\* An untouched copy of a sink passes both verifiers and the console's own
\* check with the command the console prints, whatever was written and however
\* the stamper interfered; a head that alone is anchored passes
\* --require-head-anchor; and a countersigned head passes both verifiers with
\* its inclusion proof, saved or fetched (schemaOk holds for all that
\* buildReceipt builds).
HonestCopyVerifies ==
  copy # None /\ copy.faults = 0 /\ copy.file = log =>
    /\ ChainHolds(log)
    /\ \A v \in {"mjs", "go"}, strict \in BOOLEAN :
         log # <<>> => Verdict(v, log, [ConsoleCommand(log) EXCEPT !.strict = strict], Keys) = 0
    /\ log # <<>> /\ Last(log).anchor # None /\ (\A i \in 1..(Len(log) - 1) : log[i].anchor = None) =>
         Verdict("mjs", log, [Bare EXCEPT !.headAnchor = TRUE], Keys) = 0
    /\ LET clog == Countersigned(log)
       IN  \A k \in DOMAIN clog :
             LET proof == Given(ProofOf(clog, k))
             IN  /\ CountersignExit(clog[k], Service, proof, Without("unasked")) = 0
                 /\ CountersignExit(clog[k], Service, Without("unasked"), proof) = 0
                 /\ runCountersign(clog[k], <<Service>>, proof) = 0

\* The operator gives each key a name of its own (the .keyid file).
NamesAreApart ==
  \A i, j \in DOMAIN Keys : Keys[i].keyId = Keys[j].keyId => Keys[i].pair = Keys[j].pair

\* What the Go decoder reads of a line or of a record on which another follows.
FirstOn(line) == IF line.form = "joined" THEN [line EXCEPT !.form = "object"] ELSE line
FirstOnEach(file) == [i \in DOMAIN file |-> FirstOn(file[i])]

\* What the two implementations see differently of one receipt, none of it
\* anything the gateway writes: a value that is not there where null is meant, a
\* digest in upper case, and a line that is no object, which the one refuses
\* while loading and the other in its turn.
Differs(line) ==
  \/ line.form = "other"
  \/ line.body.disclosure.hash = "HEX"
  \/ \E meta \in {line.body.model, line.body.client} : meta.holds = "absent"

\* The two verifiers, written apart, give the same exit code of the same
\* receipts, for any file, pins and keys, and of the same countersign record and
\* proof.  Where Differs says that they look at a receipt with different eyes,
\* neither accepts the file; nor does either accept a record whose hash is no
\* hash.  Where a line or a record is followed by another on its line, Go's
\* verifier says what the others say of it alone, and the others refuse it,
\* though verify.go says that exit codes match; a proof that says null is 14 to
\* Go's verifier and nothing to the other.
VerifiersAgree ==
  copy # None =>
    /\ \A opts \in {o \in Options : ~o.anchorCheck /\ ~o.headAnchor}, keyFiles \in KeyFiles :
         LET read == Verdict("mjs", FirstOnEach(copy.file), opts, keyFiles)
             go == Verdict("go", copy.file, opts, keyFiles)
         IN  /\ IF \E i \in DOMAIN copy.file : Differs(copy.file[i]) THEN read # 0 /\ go # 0 ELSE read = go
             /\ (\E i \in DOMAIN copy.file : copy.file[i].form = "joined") =>
                  Verdict("mjs", copy.file, opts, keyFiles) # 0
    /\ copy.faults = 0 /\ copy.file = log =>
         LET clog == Countersigned(log)
         IN  \A k \in DOMAIN clog : \A rec \in {clog[k]} \cup DamagedRecords(clog[k]) :
               \A given \in ProofsFor(clog, k), keyFile \in {Service, [Service EXCEPT !.keyId = None]} :
                 LET read == CountersignExit(FirstOn(rec), keyFile, given, Without("unasked"))
                     go == runCountersign(rec, <<keyFile>>, given)
                 IN  /\ IF ~rec.tidy THEN read # 0 /\ go # 0
                        ELSE go = IF given.is = "null" /\ read = 0 THEN 14 ELSE read
                     /\ rec.form = "joined" => CountersignExit(rec, keyFile, given, Without("unasked")) # 0

\* If the receipts of a file are of one chain, it has every one of them up to
\* its last, each as it was written.
LeavesNoneOut(file) ==
  LET hashes == {file[i].chain.hash : i \in DOMAIN file}
      longest == CHOOSE h \in hashes : \A g \in hashes : Len(g) <= Len(h)
  IN  (\A h \in hashes : IsPrefix(h, longest)) => hashes = {SubSeq(longest, 1, n) : n \in 1..Len(longest)}

\* When conarium-coverage calls a declaration, over the sink or over the copy
\* itself, complete for a file of one chain, with the window pinned to 1, the
\* file leaves none of that chain's receipts out (computeChain, crossCheck).
CompleteMeansAll ==
  copy # None =>
    \A declared \in {Declaration(file, Keys[used], seqFrom) :
                      file \in {f \in {log, copy.file} : CanDeclare(f)}, seqFrom \in {None, 1}},
       opts \in [seqFrom : {1}, allowGaps : BOOLEAN] :
      CoverageExit(declared, copy.file, opts, Keys) = 0 /\ Complete(declared.claim, opts)
      => LeavesNoneOut(copy.file)
=============================================================================
