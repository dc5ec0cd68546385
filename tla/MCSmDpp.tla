------------------------------ MODULE MCSmDpp ------------------------------
(* Small instances of SmDpp for TLC. *)
EXTENDS SmDppDelivery

CONSTANTS e1, e2, dpCi, otherCi

\* A bundle made by the operator for pseudonym p and certificate c.
BundleFor(p, c, x) ==
  [hpid |-> p, sigCred |-> [h_pid |-> p, h_cert |-> c],
   authToken |-> [h_pid |-> p, h_cert |-> c, expiry |-> x],
   accRoot |-> p, sigRoot |-> p, accProofRoot |-> p]

PlainCard ==
  [forSigning |-> {dpCi, otherCi}, forVerification |-> {dpCi, otherCi},
   eumCi |-> dpCi, chain |-> "ok", keyMatches |-> TRUE, elig |-> None]

\* e2's EUM is certified, but did not certify e2.
CardsOneRejected == [e \in Euiccs |->
  IF e = e1 THEN PlainCard ELSE [PlainCard EXCEPT !.chain = "VerifyError"]]

\* e2 carries the bundle that was made for e1.
CardsZk == [e \in Euiccs |->
  [PlainCard EXCEPT !.elig = BundleFor(e1, e1, "2100"), !.chain = "VerifyError"]]

CardsZkGood == [e \in Euiccs |->
  [PlainCard EXCEPT !.elig = BundleFor(e, e, "2100"), !.chain = "VerifyError"]]
=============================================================================
