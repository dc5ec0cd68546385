--------------------------- MODULE SmDppDelivery ---------------------------
(* The SM-DP+ as an implementation of ProfileDelivery. *)
EXTENDS SmDpp

openedTids == 1 .. lastTid

closedTids == {t \in Tids : t <= lastTid /\ ~Live(t)}

offerOf ==
  [t \in Tids |->
     IF rss[t] = None THEN None
     ELSE IF rss[t].smdpSignature2 = None THEN None
     ELSE [euicc |-> rss[t].eid, profile |-> rss[t].profileMetadata]]

deliveredOf ==
  {<<r.tid, [euicc |-> r.eid, profile |-> r.profileMetadata]>> : r \in Answered("bpp")}

D == INSTANCE ProfileDelivery WITH
  Transactions <- Tids, Profiles <- MetadataType, NoOffer <- None,
  opened <- openedTids, closed <- closedTids, offer <- offerOf,
  delivered <- deliveredOf

\* osmo-smdpp keeps the promise of ProfileDelivery: what getBoundProfilePackage
\* hands out is what stands in the session at that moment, one offer per
\* transaction, and nothing after the session was removed.
ImplementsDelivery == D!DeliverySpec
=============================================================================
