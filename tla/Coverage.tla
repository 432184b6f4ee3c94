------------------------------ MODULE Coverage ------------------------------
(***************************************************************************)
(* What a set of receipts covers: the declaration that                     *)
(* buildCoverageDeclaration (src/coverage.ts) signs, and                   *)
(* bin/conarium-coverage.mjs, which checks one against a receipt file.     *)
(***************************************************************************)
EXTENDS Verify, FiniteSetsExt

CONSTANTS
  Scope   \* declaredScope: the objects a declaration is about

Seqs(file) == {file[i].chain.seq : i \in DOMAIN file}

\* computeChain: the numbers missing between the first and the last.
Gaps(seqs) == (Min(seqs)..Max(seqs)) \ seqs

\* A window that must start at seqFrom and does not is a gap as well.
Chain(file, seqFrom) ==
  LET seqs == Seqs(file)
      late == IF seqFrom # None /\ Min(seqs) # seqFrom THEN {seqFrom} ELSE {}
  IN  [firstSeq |-> Min(seqs), lastSeq |-> Max(seqs), count |-> Len(file),
       gaps |-> Gaps(seqs) \cup late, contiguous |-> Gaps(seqs) \cup late = {},
       pinned |-> seqFrom # None]

Decisions(file) ==
  [d \in {"allow", "partial", "deny"} |-> Len(SelectSeq(file, LAMBDA r : r.body.decision = d))]

Recorded(file) == UNION {Named(file[i].body) : i \in DOMAIN file}

\* computeCoverage.
Covered(file) ==
  [accessed |-> Scope \cap Recorded(file), notRecorded |-> Scope \ Recorded(file),
   unassigned |-> Len(SelectSeq(file, LAMBDA r : Unassigned(r.body)))]

\* buildCoverageDeclaration; it throws over no receipts and over no scope.
Declaration(file, key, seqFrom) ==
  LET claim == [chain |-> Chain(file, seqFrom), decisions |-> Decisions(file), coverage |-> Covered(file)]
  IN  [claim |-> claim, sig |-> Sign(key, claim)]
CanDeclare(file) == file # <<>> /\ Scope # {} /\ \A i \in DOMAIN file : file[i].form = "object"
-----------------------------------------------------------------------------
(* conarium-coverage.                                                      *)

\* crossCheck; it does not know the seq a window was to start with.
Inconsistent(claim, file) ==
  \/ file = <<>>
  \/ LET chain == [Chain(file, None) EXCEPT !.pinned = claim.chain.pinned]
     IN  chain # claim.chain
  \/ Decisions(file) # claim.decisions
  \/ Covered(file) # claim.coverage

\* verifyReceiptSig; a hash it finds wrong counts as a bad signature, and it
\* does not ask for canonical base64.
ReceiptSigOK(keyFiles, r) ==
  r.form = "object" /\ r.sig # None /\ r.chain.hash = Digest(r) /\ SigOK(keyFiles, [r.sig EXCEPT !.canonical = TRUE], r.chain.hash)

\* Mutant: with --allow-gaps a file with gaps is complete as well.
Complete_Allowed(claim, opts) == (claim.chain.contiguous \/ opts.allowGaps)
                                 /\ (claim.chain.pinned \/ opts.seqFrom # None)

Complete(claim, opts) == claim.chain.contiguous /\ (claim.chain.pinned \/ opts.seqFrom # None)

\* main; receipts: the file of --receipts.  A line that does not parse is an
\* uncaught error: exit 1.
CoverageExit(d, receipts, opts, keyFiles) ==
  FirstOf(<<Code(KeysRefused(keyFiles), 13),
            Code(~SigOK(keyFiles, d.sig, d.claim), 13),
            Code(\E i \in DOMAIN receipts : receipts[i].form \in {"torn", "joined", "pretty"}, 1),
            Code(\E i \in DOMAIN receipts : ~ReceiptSigOK(keyFiles, receipts[i]), 13),
            Code(Inconsistent(d.claim, receipts), 30),
            Code(opts.seqFrom # None /\ receipts # <<>> /\ Min(Seqs(receipts)) # opts.seqFrom, 12),
            Code(~d.claim.chain.contiguous /\ ~opts.allowGaps, 12)>>)
=============================================================================
