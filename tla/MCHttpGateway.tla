--------------------------- MODULE MCHttpGateway ----------------------------
(***************************************************************************)
(* HttpGateway for TLC: ann has a token of her own, a second token is the  *)
(* shared one, and the operator gives ann's token to bob or to nobody.     *)
(***************************************************************************)
EXTENDS HttpGateway, TLC

CONSTANTS own, shared, ann, bob

Anns == own :> ann @@ shared :> Nobody
Bobs == own :> bob @@ shared :> Nobody
Revoked == own :> Nobody @@ shared :> Nobody

TwoFiles == {Anns, Revoked}
ThreeFiles == {Anns, Bobs, Revoked}
=============================================================================
