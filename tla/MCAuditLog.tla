----------------------------- MODULE MCAuditLog -----------------------------
(***************************************************************************)
(* Instances of AuditLog for TLC.  g1 and g2 are the gateways of processes *)
(* p1 and p2; c is a second instance in p1 on the audit sink of g1.  Paths *)
(* 1 and 3 are audit sinks, path 2 a receipt sink.                         *)
(***************************************************************************)
EXTENDS AuditLog, TLC

CONSTANTS p1, p2, g1, g2, c, k1, k2

\* Two gateways, one receipt sink: the deployment LOCK_HINT recommends.
GatewayProcOf == g1 :> p1 @@ g2 :> p2
GatewaySinkOf == g1 :> 1 @@ g2 :> 3
GatewayReceiptOf == g1 :> 2 @@ g2 :> 2

\* Two instances in one process on one audit sink, one of them with receipts.
SharedProcOf == g1 :> p1 @@ c :> p1
SharedSinkOf == g1 :> 1 @@ c :> 1
SharedReceiptOf == g1 :> 2 @@ c :> NoPath

\* Signing environments.
Env(mac, ed, trusted) == [mac |-> mac, ed |-> ed, trusted |-> trusted, requireSig |-> FALSE]
Ed1 == Env(NoKey, k1, {})
Ed2 == Env(NoKey, k2, {k1})
Both == Env(k1, k1, {})
Unsigned == Env(NoKey, NoKey, {})

GatewayKeys == p1 :> Ed1 @@ p2 :> Ed1
SharedKeys == p1 :> Ed1
NoRekey == [e \in KeyEnv |-> {}]

\* The upgrades the documentation describes: an unsigned sink gets a key, a
\* signing key is replaced while the old one stays in the trust store.
UpgradeKeys == p1 :> Unsigned
Upgrade == [e \in KeyEnv |-> CASE e = Unsigned -> {Ed1, Both}
                               [] e = Ed1 -> {Both, Ed2}
                               [] OTHER -> {}]
=============================================================================
