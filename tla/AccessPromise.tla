---------------------------- MODULE AccessPromise ----------------------------
(***************************************************************************)
(* What the gateway promises about every tool call, however it is handled: *)
(* a client is given only what an allowed entry of the audit trail, with   *)
(* its receipt, already says it was given, and a call is answered once.    *)
(***************************************************************************)
CONSTANTS
  Call,      \* tool calls
  NotGiven   \* no data has been given out for a call

VARIABLES
  told,   \* the entries of the audit trail
  given   \* what each call's client was given: a set of parts

Says(e, c, part) ==
  /\ e.call = c
  /\ ~e.denied
  /\ e.receipt
  /\ e.target = part.target /\ e.rows = part.rows /\ e.tables = part.tables

Init == told = {} /\ given = [c \in Call |-> NotGiven]

Tell == told \subseteq told' /\ UNCHANGED given

Give(c) ==
  /\ given[c] = NotGiven
  /\ given' = [given EXCEPT ![c] = given'[c]]
  /\ \A part \in given'[c] : \E e \in told : Says(e, c, part)
  /\ UNCHANGED told

Next == Tell \/ \E c \in Call : Give(c)

Spec == Init /\ [][Next]_<<told, given>>
=============================================================================
