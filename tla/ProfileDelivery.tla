-------------------------- MODULE ProfileDelivery --------------------------
(***************************************************************************)
(* What an SM-DP+ promises, without certificates, signatures, keys or      *)
(* files: a transaction is opened once, at most one eUICC and profile is   *)
(* on offer in it at a time, profiles are delivered only from the offer    *)
(* that stands, and a transaction that was closed is closed for good.      *)
(***************************************************************************)
EXTENDS Naturals

CONSTANTS Transactions, Euiccs, Profiles, NoOffer

VARIABLES
  opened,    \* the transactions opened so far
  closed,    \* those of them that have ended
  offer,     \* transaction -> what is on offer in it
  delivered  \* everything delivered so far

dvars == <<opened, closed, offer, delivered>>

Offer == [euicc : Euiccs, profile : Profiles]

DeliveryInit ==
  /\ opened = {} /\ closed = {} /\ delivered = {}
  /\ offer = [t \in Transactions |-> NoOffer]

Open(t) ==
  /\ t \notin opened
  /\ opened' = opened \cup {t}
  /\ UNCHANGED <<closed, offer, delivered>>

\* A later offer replaces the one before.
MakeOffer(t, o) ==
  /\ t \in opened \ closed
  /\ offer' = [offer EXCEPT ![t] = o]
  /\ UNCHANGED <<opened, closed, delivered>>

Deliver(t) ==
  /\ t \in opened \ closed
  /\ offer[t] # NoOffer
  /\ delivered' = delivered \cup {<<t, offer[t]>>}
  /\ UNCHANGED <<opened, closed, offer>>

Close(t) ==
  /\ t \in opened \ closed
  /\ closed' = closed \cup {t}
  /\ offer' = [offer EXCEPT ![t] = NoOffer]
  /\ UNCHANGED <<opened, delivered>>

DeliveryNext ==
  \E t \in Transactions :
    Open(t) \/ Deliver(t) \/ Close(t) \/ \E o \in Offer : MakeOffer(t, o)

DeliverySpec == DeliveryInit /\ [][DeliveryNext]_dvars
=============================================================================
