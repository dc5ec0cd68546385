---------------------------- MODULE SmDppProofs ----------------------------
(* Proofs about the SM-DP+ (SmDpp) and the accumulators of its --zk mode     *)
(* (MerkleAccumulator), for every value of their constants.                  *)
EXTENDS SmDppDelivery, MerkleAccumulator, SequenceTheorems, WellFoundedInduction, TLAPS

-----------------------------------------------------------------------------
(* Types *)

\* The bounds are natural numbers.
LEMMA Bounds ==
  MaxTid \in Nat /\ MaxFresh \in Nat /\ MaxRestarts \in Nat /\ MaxUppChanges \in Nat
BY SmDppAssumption DEF SmDppAssumption

\* A message that was sent or answered has the type its tag says.
LEMMA MessageTypes ==
  ASSUME TypeOK
  PROVE  /\ Sent("auth") \subseteq AuthBody
         /\ Sent("prep") \subseteq PrepBody
         /\ Sent("cancel") \subseteq CancelBody
         /\ Sent("pir") \subseteq ResultBody
         /\ Answered("init") \subseteq InitReply
         /\ Answered("auth") \subseteq AuthReply
         /\ Answered("bpp") \subseteq BppReply
<1>1. \A b \in bodies : b \in AuthBody \/ b \in PrepBody \/ b \in CancelBody \/ b \in ResultBody
  BY DEF TypeOK, BodyType
<1>2. \A r \in replies : \/ r \in InitReply \/ r \in AuthReply \/ r \in RefusedReply
                         \/ r \in BppReply \/ r \in DoneReply
  BY DEF TypeOK, ReplyType
<1>3. /\ \A b \in AuthBody : b.type = "auth"
      /\ \A b \in PrepBody : b.type = "prep"
      /\ \A b \in CancelBody : b.type = "cancel"
      /\ \A b \in ResultBody : b.type = "pir"
  BY DEF AuthBody, PrepBody, CancelBody, ResultBody
<1>4. /\ \A r \in InitReply : r.func = "init"
      /\ \A r \in AuthReply : r.func = "auth"
      /\ \A r \in RefusedReply : r.func = "refused"
      /\ \A r \in BppReply : r.func = "bpp"
      /\ \A r \in DoneReply : r.func \in {"notified", "cancelled"}
  BY DEF InitReply, AuthReply, RefusedReply, BppReply, DoneReply
<1> QED BY <1>1, <1>2, <1>3, <1>4 DEF Sent, Answered

\* An LPA delivers under an id the SM-DP+ has given out, or the signed one.
LEMMA OuterType ==
  ASSUME TypeOK, NEW b \in bodies, b.tid \in Tids, NEW t \in Outer(b)
  PROVE  t \in Tids
<1>1. \A r \in Answered("init") : r.tid \in Tids
  BY MessageTypes DEF InitReply
<1> QED BY <1>1 DEF Outer

\* A reply of authenticateClient is given to an eUICC.
LEMMA GivenToType ==
  ASSUME TypeOK, NEW r \in Answered("auth")
  PROVE  GivenTo(r) \subseteq Euiccs
<1>1. r.smdpSignature2.over.euicc \in Euiccs
  BY MessageTypes DEF AuthReply, Sig2Type, AuthBody
<1>2. \A i \in Answered("init") : i.euicc \in Euiccs
  BY MessageTypes DEF InitReply
<1> QED BY <1>1, <1>2 DEF GivenTo

\* A handler's session record has the type of sessions.
LEMMA SessionTypes ==
  ASSUME NEW ss \in Session, NEW b \in BodyType
  PROVE  KeepCertificate(ss, b) \in Session
<1>1. b.euicc \in Euiccs
  BY DEF BodyType, AuthBody, PrepBody, CancelBody, ResultBody
<1> QED BY <1>1 DEF Session, KeepCertificate

\* So has the session initiateAuthentication stores.
LEMMA NewSessionType ==
  /\ RspSessionState \in Session
  /\ setupMNOValues(RspSessionState) \in Session
<1>1. RspSessionState \in Session
  BY SmDppAssumption DEF RspSessionState, Session, SmDppAssumption
<1>2. setupMNOValues(RspSessionState) \in Session
  BY <1>1, SmDppAssumption DEF setupMNOValues, Session, SmDppAssumption
<1> QED BY <1>1, <1>2

\* What authenticateClient stores and answers has the type it should have.
LEMMA AuthenticatedType ==
  ASSUME TypeOK, fresh < MaxFresh,
         NEW t \in Tids, Live(t), NEW b \in AuthBody,
         AuthenticationVerifies(t, b),
         NEW md, md = [profileName |-> b.matchingId, iccid |-> upp[b.matchingId]],
         NEW sig2, sig2 = [over |-> b, nonce |-> fresh + 1]
  PROVE  /\ md \in MetadataType /\ sig2 \in Sig2Type
         /\ Authenticated(rss[t], b, md, sig2) \in Session
<1>1. b.matchingId \in MatchingIds /\ b.matchingId # None /\ b.euicc \in Euiccs
  BY DEF AuthBody, AuthenticationVerifies
<1>2. upp[b.matchingId] \in Versions
  BY <1>1 DEF TypeOK, AuthenticationVerifies
<1>3. md \in MetadataType
  BY <1>1, <1>2 DEF MetadataType
<1>4. fresh + 1 \in 1 .. MaxFresh
  BY Bounds DEF TypeOK
<1>5. sig2 \in Sig2Type
  BY <1>4 DEF Sig2Type
<1>6. rss[t] \in Session
  BY DEF TypeOK, Live
<1>7. KeepCertificate(rss[t], b) \in Session
  BY <1>6, SessionTypes DEF BodyType
<1>8. ZkMode => Card[b.euicc].elig.authToken \in TokType
  <2>1. Card[b.euicc] \in CardType
    BY SmDppAssumption, <1>1 DEF SmDppAssumption
  <2>2. ZkMode => Card[b.euicc].elig \in BundleType
    BY <2>1 DEF CardType, AuthenticationVerifies, EligibilityVerifies
  <2> QED BY <2>2 DEF BundleType
<1>9. Authenticated(rss[t], b, md, sig2) \in Session
  BY <1>1, <1>3, <1>5, <1>6, <1>7, <1>8 DEF Authenticated, Session, KeepCertificate
<1> QED BY <1>3, <1>5, <1>9

\* An SM-DP+ that has just been installed is in a state of the types.
LEMMA InitType == Init => TypeOK
<1> SUFFICES ASSUME Init PROVE TypeOK
  OBVIOUS
<1>1. rss \in [Tids -> Session \cup {None}]
  BY DEF Init
<1>2. upp \in [MatchingIds -> Versions \cup {None}]
  BY DEF Init
<1>3. bodies \subseteq BodyType /\ replies \subseteq ReplyType
  BY DEF Init
<1>4. /\ lastTid \in 0 .. MaxTid /\ fresh \in 0 .. MaxFresh
      /\ uppChanges \in 0 .. MaxUppChanges /\ restarts \in 0 .. MaxRestarts
  BY Bounds DEF Init
<1>5. expired \in BOOLEAN
  BY DEF Init
<1> QED BY <1>1, <1>2, <1>3, <1>4, <1>5 DEF TypeOK

\* A session with a smdpSignature2 holds all that getBoundProfilePackage uses.
LEMMA OfferedSession ==
  ASSUME TypeOK, SessionCoherent, NEW t \in Tids, Live(t), rss[t].smdpSignature2 # None
  PROVE  /\ rss[t].eid \in Euiccs /\ rss[t].profileMetadata \in MetadataType
         /\ rss[t].matchingId \in MatchingIds
         /\ rss[t].smdpSignature2 \in Sig2Type
<1>1. rss[t].smdpSignature2 \in Sig2Type
  BY DEF TypeOK, Live, Session
<1>2. rss[t].smdpSignature2.over \in AuthBody
  BY <1>1 DEF Sig2Type
<1>3. rss[t].eid \in Euiccs
  BY <1>2 DEF SessionCoherent, AuthBody
<1>4. PICK a \in Answered("auth") : a.profileMetadata = rss[t].profileMetadata
  BY DEF SessionCoherent
<1>5. rss[t].profileMetadata \in MetadataType
  BY <1>4, MessageTypes DEF AuthReply
<1>6. rss[t].matchingId = rss[t].profileMetadata.profileName
  BY DEF SessionCoherent
<1> QED BY <1>1, <1>3, <1>5, <1>6 DEF MetadataType

\* Whatever request it handles, the SM-DP+ stores and answers what has its type.
LEMMA HandlersKeepTypes ==
  ASSUME TypeOK, SessionCoherent, HandleRequest
  PROVE  TypeOK'
<1>1. ASSUME NEW e \in Euiccs, initiateAuthentication(e)
      PROVE  TypeOK'
  <2>1. lastTid + 1 \in Tids
    BY Bounds, <1>1 DEF initiateAuthentication, TypeOK, Tids
  <2>2. rss' \in [Tids -> Session \cup {None}]
    BY <1>1, <2>1, NewSessionType DEF initiateAuthentication, TypeOK
  <2>3. [func |-> "init", tid |-> lastTid + 1, euicc |-> e] \in ReplyType
    BY <2>1 DEF ReplyType, InitReply
  <2> QED BY <1>1, <2>1, <2>2, <2>3 DEF initiateAuthentication, TypeOK, worldVars, Tids
<1>2. ASSUME NEW b \in Sent("auth"), NEW t \in Outer(b), authenticateClient(t, b)
      PROVE  TypeOK'
  <2>1. b \in AuthBody /\ t \in Tids
    BY MessageTypes, OuterType DEF AuthBody, Sent
  <2> DEFINE md == [profileName |-> b.matchingId, iccid |-> upp[b.matchingId]]
             sig2 == [over |-> b, nonce |-> fresh + 1]
  <2>2. md \in MetadataType /\ sig2 \in Sig2Type /\ Authenticated(rss[t], b, md, sig2) \in Session
    BY <1>2, <2>1, AuthenticatedType DEF authenticateClient
  <2>3. [func |-> "auth", tid |-> t, smdpSignature2 |-> sig2, profileMetadata |-> md] \in ReplyType
    BY <2>1, <2>2 DEF ReplyType, AuthReply
  <2>4. rss' \in [Tids -> Session \cup {None}]
    BY <1>2, <2>1, <2>2 DEF authenticateClient, TypeOK
  <2>5. fresh' \in 0 .. MaxFresh
    BY Bounds, <1>2 DEF authenticateClient, TypeOK
  <2> QED BY <1>2, <2>3, <2>4, <2>5 DEF authenticateClient, TypeOK, worldVars
<1>3. ASSUME NEW b \in Sent("auth"), NEW t \in Outer(b), authenticateClientRefused(t, b)
      PROVE  TypeOK'
  <2>1. b \in AuthBody /\ t \in Tids
    BY MessageTypes, OuterType DEF AuthBody, Sent
  <2>2. KeepCertificate(rss[t], b) \in Session
    BY <1>3, <2>1, SessionTypes DEF authenticateClientRefused, TypeOK, Live, BodyType
  <2>3. [func |-> "refused", tid |-> t, euicc |-> b.euicc] \in ReplyType
    BY <2>1 DEF ReplyType, RefusedReply, AuthBody
  <2> QED BY <1>3, <2>1, <2>2, <2>3 DEF authenticateClientRefused, TypeOK, worldVars
<1>4. ASSUME NEW b \in Sent("prep"), NEW t \in Outer(b), getBoundProfilePackage(t, b)
      PROVE  TypeOK'
  <2>1. b \in PrepBody /\ t \in Tids
    BY MessageTypes, OuterType DEF PrepBody, Sent
  <2>2. rss[t] \in Session /\ fresh + 1 \in 1 .. MaxFresh
    BY Bounds, <1>4, <2>1 DEF getBoundProfilePackage, TypeOK, Live
  <2>3. [rss[t] EXCEPT !.euicc_otpk = b.euiccOtpk, !.smdp_ot = fresh + 1] \in Session
    <3>1. b.euiccOtpk \in 0 .. MaxFresh /\ fresh + 1 \in 0 .. MaxFresh
      BY <2>1, <2>2 DEF PrepBody
    <3> QED BY <2>2, <3>1 DEF Session
  <2>4. rss' \in [Tids -> Session \cup {None}]
    BY <1>4, <2>1, <2>3 DEF getBoundProfilePackage, generate_private_key, TypeOK
  <2>5. /\ rss[t].eid \in Euiccs /\ rss[t].profileMetadata \in MetadataType
        /\ rss[t].matchingId \in MatchingIds
    BY <1>4, <2>1, OfferedSession DEF getBoundProfilePackage, PrepareDownloadVerifies
  <2>6. upp[rss[t].matchingId] \in Versions
    BY <1>4, <2>5 DEF getBoundProfilePackage, TypeOK
  <2>7. [func |-> "bpp", tid |-> t, eid |-> rss[t].eid,
         profileMetadata |-> rss[t].profileMetadata,
         upp |-> upp[rss[t].matchingId], euiccOtpk |-> b.euiccOtpk,
         smdpOtpk |-> fresh + 1] \in ReplyType
    BY <2>1, <2>2, <2>5, <2>6 DEF ReplyType, BppReply, PrepBody
  <2> QED
    BY Bounds, <1>4, <2>2, <2>4, <2>7
    DEF getBoundProfilePackage, generate_private_key, TypeOK, worldVars
<1>5. ASSUME NEW b \in Sent("cancel"), NEW t \in Outer(b), cancelSession(t, b)
      PROVE  TypeOK'
  <2>1. b \in CancelBody /\ t \in Tids
    BY MessageTypes, OuterType DEF CancelBody, Sent
  <2>2. [func |-> "cancelled", tid |-> t, euicc |-> b.euicc] \in ReplyType
    BY <2>1 DEF ReplyType, DoneReply, CancelBody
  <2> QED BY <1>5, <2>1, <2>2 DEF cancelSession, TypeOK, worldVars
<1>6. ASSUME NEW b \in Sent("pir"), handleNotification(b)
      PROVE  TypeOK'
  <2>1. b \in ResultBody
    BY MessageTypes
  <2>2. Notified(b.tid, b.euicc) \in ReplyType
    BY <2>1 DEF ReplyType, DoneReply, ResultBody, Notified
  <2>3. rss' \in [Tids -> Session \cup {None}]
    BY <1>6, <2>1 DEF handleNotification, TypeOK, ResultBody
  <2> QED BY <1>6, <2>2, <2>3 DEF handleNotification, TypeOK, worldVars
<1> QED BY <1>1, <1>2, <1>3, <1>4, <1>5, <1>6 DEF HandleRequest

\* So do its restarts, wherever they interrupt a handler.
LEMMA CrashesKeepTypes ==
  ASSUME TypeOK, Crash
  PROVE  TypeOK'
<1>1. CASE Restart
  BY Bounds, <1>1 DEF Restart, StoreInMemory, TypeOK
<1>2. ASSUME NEW e \in Euiccs, CrashInInitiateAuthentication(e)
      PROVE  TypeOK'
  <2>1. lastTid + 1 \in Tids
    BY Bounds, <1>2 DEF CrashInInitiateAuthentication, TypeOK, Tids
  <2>2. rss' \in [Tids -> Session \cup {None}]
    BY <1>2, <2>1, NewSessionType DEF CrashInInitiateAuthentication, StoreInMemory, TypeOK
  <2> QED
    BY Bounds, <1>2, <2>1, <2>2
    DEF CrashInInitiateAuthentication, TypeOK, Tids
<1>3. ASSUME NEW b \in Sent("auth"), NEW t \in Outer(b), CrashInAuthenticateClient(t, b)
      PROVE  TypeOK'
  <2>1. b \in AuthBody /\ t \in Tids
    BY MessageTypes, OuterType DEF AuthBody, Sent
  <2>2. KeepCertificate(rss[t], b) \in Session
    BY <1>3, <2>1, SessionTypes DEF CrashInAuthenticateClient, TypeOK, Live, BodyType
  <2> QED
    BY Bounds, <1>3, <2>1, <2>2
    DEF CrashInAuthenticateClient, StoreInMemory, TypeOK
<1> QED BY <1>1, <1>2, <1>3 DEF Crash

\* The eUICCs, the operator and the clock keep the types as well.
LEMMA EnvironmentKeepsTypes ==
  ASSUME TypeOK, Environment
  PROVE  TypeOK'
<1>1. ASSUME NEW r \in Answered("init"), NEW m \in MatchingIds \cup {None}, AuthenticateServer(r, m)
      PROVE  TypeOK'
  <2>1. [type |-> "auth", euicc |-> r.euicc, tid |-> r.tid,
         serverChallenge |-> r.tid, matchingId |-> m] \in BodyType
    BY MessageTypes DEF InitReply, BodyType, AuthBody
  <2> QED BY <1>1, <2>1 DEF AuthenticateServer, TypeOK, serverVars, worldVars
<1>2. ASSUME NEW r \in Answered("auth"), NEW e \in GivenTo(r), PrepareDownload(r, e)
      PROVE  TypeOK'
  <2>1. fresh + 1 \in 1 .. MaxFresh
    BY Bounds, <1>2 DEF PrepareDownload, TypeOK
  <2>2. r.smdpSignature2 \in Sig2Type /\ r.tid \in Tids /\ e \in Euiccs
    BY MessageTypes, GivenToType DEF AuthReply
  <2>3. [type |-> "prep", euicc |-> e, tid |-> r.tid,
         smdpSignature2 |-> r.smdpSignature2, euiccOtpk |-> fresh + 1] \in BodyType
    BY <2>1, <2>2 DEF BodyType, PrepBody
  <2> QED
    BY Bounds, <1>2, <2>1, <2>3 DEF PrepareDownload, TypeOK, worldVars
<1>3. ASSUME NEW r \in Answered("init"), NEW known \in BOOLEAN, CancelByUser(r, known)
      PROVE  TypeOK'
  <2>1. [type |-> "cancel", euicc |-> r.euicc, tid |-> r.tid, smdpOidKnown |-> known] \in BodyType
    BY MessageTypes DEF InitReply, BodyType, CancelBody
  <2> QED BY <1>3, <2>1 DEF CancelByUser, TypeOK, serverVars, worldVars
<1>4. ASSUME NEW r \in Answered("bpp"), NEW b \in Sent("prep"), LoadBoundProfilePackage(r, b)
      PROVE  TypeOK'
  <2>1. [type |-> "pir", euicc |-> b.euicc, tid |-> r.tid] \in BodyType
    BY MessageTypes DEF BppReply, PrepBody, BodyType, ResultBody
  <2> QED BY <1>4, <2>1 DEF LoadBoundProfilePackage, TypeOK, serverVars, worldVars
<1>5. ASSUME NEW m \in MatchingIds, NEW v \in Versions \cup {None}, ChangeUpp(m, v)
      PROVE  TypeOK'
  BY Bounds, <1>5 DEF ChangeUpp, TypeOK, serverVars
<1>6. CASE TokenExpires
  BY <1>6 DEF TokenExpires, TypeOK, serverVars
<1> QED BY <1>1, <1>2, <1>3, <1>4, <1>5, <1>6 DEF Environment

\* No step breaks the types, given that sessions are coherent.
LEMMA TypesKept ==
  ASSUME TypeOK, SessionCoherent, [Next]_vars
  PROVE  TypeOK'
<1>1. CASE UNCHANGED vars
  BY <1>1 DEF vars, TypeOK
<1> QED BY <1>1, HandlersKeepTypes, CrashesKeepTypes, EnvironmentKeepsTypes DEF Next

-----------------------------------------------------------------------------
(* Steps *)

\* A session is removed, or is new, or keeps what an offer has put into it.
SessionKept(t) ==
  \/ rss'[t] = None
  \/ /\ rss'[t] # None /\ rss[t] = None
     /\ t = lastTid + 1 /\ lastTid' = lastTid + 1
     /\ rss'[t].smdpSignature2 = None /\ rss'[t].expiry \in {None, FIXED_EXPIRY}
  \/ /\ rss'[t] # None /\ rss[t] # None
     /\ rss'[t].smdpSignature2 = rss[t].smdpSignature2
     /\ rss'[t].eid = rss[t].eid /\ rss'[t].matchingId = rss[t].matchingId
     /\ rss'[t].profileMetadata = rss[t].profileMetadata
     /\ rss'[t].expiry = rss[t].expiry

\* A session is there as before, with the same offer.
OfferKept(t) ==
  \/ rss'[t] = None /\ rss[t] = None
  \/ /\ rss'[t] # None /\ rss[t] # None
     /\ rss'[t].smdpSignature2 = rss[t].smdpSignature2
     /\ rss'[t].eid = rss[t].eid /\ rss'[t].profileMetadata = rss[t].profileMetadata

\* What a step does to the store: nothing to any offer, or it opens the next
\* session, or it removes one.
Idle == lastTid' = lastTid /\ \A u \in Tids : OfferKept(u)

Opening(t) ==
  /\ t = lastTid + 1 /\ lastTid' = t
  /\ rss[t] = None /\ rss'[t] # None /\ rss'[t].smdpSignature2 = None
  /\ \A u \in Tids \ {t} : OfferKept(u)

Closing(t) ==
  /\ lastTid' = lastTid /\ rss[t] # None /\ rss'[t] = None
  /\ \A u \in Tids \ {t} : OfferKept(u)

\* A step that offers nothing, delivers nothing and prepares no download.
Quiet ==
  /\ UNCHANGED <<fresh, upp, uppChanges>>
  /\ lastTid' \in {lastTid, lastTid + 1}
  /\ Answered("auth")' = Answered("auth") /\ Answered("bpp")' = Answered("bpp")
  /\ Sent("prep")' = Sent("prep")
  /\ \A c \in Sent("auth")' : c \in Sent("auth") \/ c.tid = c.serverChallenge
  /\ \A c \in Sent("pir")' : c \in Sent("pir") \/ \E r \in Answered("bpp") : c.euicc = r.eid
  /\ \A t \in Tids : SessionKept(t)
  /\ Idle \/ \E t \in Tids : Opening(t) \/ Closing(t)

\* A session record keeps its offer when the certificate is replaced.
LEMMA CertificateKept ==
  ASSUME TypeOK, NEW t \in Tids, Live(t), NEW b \in AuthBody, NEW u \in Tids,
         rss' = [rss EXCEPT ![t] = KeepCertificate(rss[t], b)]
  PROVE  SessionKept(u) /\ OfferKept(u)
<1>1. rss[t] \in Session
  BY DEF TypeOK, Live
<1>2. KeepCertificate(rss[t], b) # None
  BY <1>1, SessionTypes, NoneAssumption DEF BodyType, NoneAssumption
<1>3. /\ KeepCertificate(rss[t], b).smdpSignature2 = rss[t].smdpSignature2
      /\ KeepCertificate(rss[t], b).eid = rss[t].eid
      /\ KeepCertificate(rss[t], b).matchingId = rss[t].matchingId
      /\ KeepCertificate(rss[t], b).profileMetadata = rss[t].profileMetadata
      /\ KeepCertificate(rss[t], b).expiry = rss[t].expiry
  BY <1>1 DEF KeepCertificate, Session
<1>4. rss \in [Tids -> Session \cup {None}]
  BY DEF TypeOK
<1>5. CASE u = t
  BY <1>2, <1>3, <1>4, <1>5 DEF SessionKept, OfferKept, Live
<1>6. CASE u # t
  BY <1>4, <1>6 DEF SessionKept, OfferKept
<1> QED BY <1>5, <1>6

\* So it does when other sessions are opened or removed.
LEMMA NewSessionKept ==
  ASSUME TypeOK, SessionsOpened, lastTid + 1 \in Tids, lastTid' = lastTid + 1,
         NEW ss, ss \in {RspSessionState, setupMNOValues(RspSessionState)},
         rss' = [rss EXCEPT ![lastTid + 1] = ss]
  PROVE  (\A u \in Tids : SessionKept(u)) /\ Opening(lastTid + 1)
<1>1. ss # None /\ ss.smdpSignature2 = None /\ ss.expiry \in {None, FIXED_EXPIRY}
  <2>1. ss # None
    BY NewSessionType, NoneAssumption DEF NoneAssumption
  <2>2. CASE ss = RspSessionState
    BY <2>1, <2>2 DEF RspSessionState
  <2>3. CASE ss = setupMNOValues(RspSessionState)
    BY <2>1, <2>3 DEF RspSessionState, setupMNOValues
  <2> QED BY <2>2, <2>3
<1>2. rss[lastTid + 1] = None
  BY DEF SessionsOpened, Live, TypeOK
<1>3. rss \in [Tids -> Session \cup {None}]
  BY DEF TypeOK
<1>4. ASSUME NEW u \in Tids, u # lastTid + 1
      PROVE  SessionKept(u) /\ OfferKept(u)
  BY <1>3, <1>4 DEF SessionKept, OfferKept
<1>5. SessionKept(lastTid + 1)
  BY <1>1, <1>2, <1>3 DEF SessionKept
<1>6. Opening(lastTid + 1)
  BY <1>1, <1>2, <1>3, <1>4 DEF Opening
<1> QED BY <1>4, <1>5, <1>6

\* Removing a session leaves the others.
LEMMA RemovedKept ==
  ASSUME TypeOK, NEW t \in Tids, Live(t), rss' = [rss EXCEPT ![t] = None], lastTid' = lastTid
  PROVE  (\A u \in Tids : SessionKept(u)) /\ Closing(t)
<1>1. rss \in [Tids -> Session \cup {None}]
  BY DEF TypeOK
<1>2. ASSUME NEW u \in Tids, u # t
      PROVE  SessionKept(u) /\ OfferKept(u)
  BY <1>1, <1>2 DEF SessionKept, OfferKept
<1>3. SessionKept(t) /\ Closing(t)
  BY <1>1, <1>2 DEF SessionKept, Closing, Live
<1> QED BY <1>2, <1>3

\* Nothing happens to a session in a store that does not change.
LEMMA UnchangedKept ==
  ASSUME rss' = rss, NEW u \in Tids
  PROVE  SessionKept(u) /\ OfferKept(u)
BY DEF SessionKept, OfferKept

\* Every step but authenticateClient, getBoundProfilePackage, PrepareDownload
\* and ChangeUpp is quiet.
LEMMA StepCases ==
  ASSUME TypeOK, SessionsOpened, [Next]_vars
  PROVE  \/ Quiet
         \/ \E b \in Sent("auth") : \E t \in Outer(b) : authenticateClient(t, b)
         \/ \E b \in Sent("prep") : \E t \in Outer(b) : getBoundProfilePackage(t, b)
         \/ \E r \in Answered("auth") : \E e \in GivenTo(r) : PrepareDownload(r, e)
         \/ \E m \in MatchingIds : \E v \in Versions \cup {None} : ChangeUpp(m, v)
<1>1. ASSUME NEW e \in Euiccs, initiateAuthentication(e)
      PROVE  Quiet
  <2>1. lastTid + 1 \in Tids
    BY <1>1, Bounds DEF initiateAuthentication, TypeOK, Tids
  <2>2. (\A u \in Tids : SessionKept(u)) /\ \E u \in Tids : Opening(u)
    BY <1>1, <2>1, NewSessionKept DEF initiateAuthentication
  <2>3. Answered("auth")' = Answered("auth") /\ Answered("bpp")' = Answered("bpp")
    BY <1>1 DEF initiateAuthentication, Answered
  <2> QED BY <1>1, <2>2, <2>3 DEF initiateAuthentication, Quiet, Idle, Sent, worldVars
<1>2. ASSUME NEW b \in Sent("auth"), NEW t \in Outer(b), authenticateClientRefused(t, b)
      PROVE  Quiet
  <2>1. b \in AuthBody /\ t \in Tids
    BY MessageTypes, OuterType DEF AuthBody, Sent
  <2>2. \A u \in Tids : SessionKept(u) /\ OfferKept(u)
    BY <1>2, <2>1, CertificateKept DEF authenticateClientRefused
  <2>3. Answered("auth")' = Answered("auth") /\ Answered("bpp")' = Answered("bpp")
    BY <1>2 DEF authenticateClientRefused, Answered
  <2> QED BY <1>2, <2>2, <2>3 DEF authenticateClientRefused, Quiet, Idle, Sent, worldVars
<1>3. ASSUME NEW b \in Sent("cancel"), NEW t \in Outer(b), cancelSession(t, b)
      PROVE  Quiet
  <2>1. t \in Tids
    BY MessageTypes, OuterType DEF CancelBody, Sent
  <2>2. (\A u \in Tids : SessionKept(u)) /\ \E u \in Tids : Closing(u)
    BY <1>3, <2>1, RemovedKept DEF cancelSession
  <2>3. Answered("auth")' = Answered("auth") /\ Answered("bpp")' = Answered("bpp")
    BY <1>3 DEF cancelSession, Answered
  <2> QED BY <1>3, <2>2, <2>3 DEF cancelSession, Quiet, Idle, Sent, worldVars
<1>4. ASSUME NEW b \in Sent("pir"), handleNotification(b)
      PROVE  Quiet
  <2>1. b.tid \in Tids
    BY MessageTypes DEF ResultBody
  <2>2. /\ \A u \in Tids : SessionKept(u)
        /\ Idle \/ \E u \in Tids : Closing(u)
    <3>1. CASE b2hIsKey(b.tid) /\ Live(b.tid)
      BY <1>4, <2>1, <3>1, RemovedKept DEF handleNotification
    <3>2. CASE ~(b2hIsKey(b.tid) /\ Live(b.tid))
      BY <1>4, <3>2, UnchangedKept DEF handleNotification, Idle
    <3> QED BY <3>1, <3>2
  <2>3. Answered("auth")' = Answered("auth") /\ Answered("bpp")' = Answered("bpp")
    BY <1>4 DEF handleNotification, Notified, Answered
  <2> QED BY <1>4, <2>2, <2>3 DEF handleNotification, Quiet, Idle, Sent, worldVars
<1>5. CASE Restart
  BY <1>5, UnchangedKept DEF Restart, StoreInMemory, Quiet, Idle, Sent, Answered
<1>6. ASSUME NEW e \in Euiccs, CrashInInitiateAuthentication(e)
      PROVE  Quiet
  <2>1. lastTid + 1 \in Tids
    BY <1>6, Bounds DEF CrashInInitiateAuthentication, TypeOK, Tids
  <2>2. (\A u \in Tids : SessionKept(u)) /\ \E u \in Tids : Opening(u)
    BY <1>6, <2>1, NewSessionKept DEF CrashInInitiateAuthentication, StoreInMemory
  <2> QED BY <1>6, <2>2 DEF CrashInInitiateAuthentication, Quiet, Idle, Sent, Answered
<1>7. ASSUME NEW b \in Sent("auth"), NEW t \in Outer(b), CrashInAuthenticateClient(t, b)
      PROVE  Quiet
  <2>1. b \in AuthBody /\ t \in Tids
    BY MessageTypes, OuterType DEF AuthBody, Sent
  <2>2. \A u \in Tids : SessionKept(u) /\ OfferKept(u)
    BY <1>7, <2>1, CertificateKept DEF CrashInAuthenticateClient, StoreInMemory
  <2> QED BY <1>7, <2>2 DEF CrashInAuthenticateClient, Quiet, Idle, Sent, Answered
<1>8. ASSUME NEW r \in Answered("init"), NEW m \in MatchingIds \cup {None}, AuthenticateServer(r, m)
      PROVE  Quiet
  <2>1. /\ Sent("prep")' = Sent("prep")
        /\ \A c \in Sent("auth")' : c \in Sent("auth") \/ c.tid = c.serverChallenge
        /\ \A c \in Sent("pir")' : c \in Sent("pir") \/ \E x \in Answered("bpp") : c.euicc = x.eid
    BY <1>8 DEF AuthenticateServer, Sent
  <2> QED BY <1>8, <2>1, UnchangedKept DEF AuthenticateServer, Quiet, Idle, Answered, serverVars, worldVars
<1>9. ASSUME NEW r \in Answered("init"), NEW known \in BOOLEAN, CancelByUser(r, known)
      PROVE  Quiet
  <2>1. /\ Sent("prep")' = Sent("prep")
        /\ \A c \in Sent("auth")' : c \in Sent("auth") \/ c.tid = c.serverChallenge
        /\ \A c \in Sent("pir")' : c \in Sent("pir") \/ \E x \in Answered("bpp") : c.euicc = x.eid
    BY <1>9 DEF CancelByUser, Sent
  <2> QED BY <1>9, <2>1, UnchangedKept DEF CancelByUser, Quiet, Idle, Answered, serverVars, worldVars
<1>10. ASSUME NEW r \in Answered("bpp"), NEW b \in Sent("prep"), LoadBoundProfilePackage(r, b)
       PROVE  Quiet
  <2>1. /\ Sent("prep")' = Sent("prep")
        /\ \A c \in Sent("auth")' : c \in Sent("auth") \/ c.tid = c.serverChallenge
        /\ \A c \in Sent("pir")' : c \in Sent("pir") \/ \E x \in Answered("bpp") : c.euicc = x.eid
    BY <1>10 DEF LoadBoundProfilePackage, Sent
  <2> QED
    BY <1>10, <2>1, UnchangedKept DEF LoadBoundProfilePackage, Quiet, Idle, Answered, serverVars, worldVars
<1>11. CASE TokenExpires
  BY <1>11, UnchangedKept DEF TokenExpires, Quiet, Idle, Answered, Sent, serverVars
<1>12. CASE UNCHANGED vars
  BY <1>12, UnchangedKept DEF vars, Quiet, Idle, Answered, Sent
<1> QED
  BY <1>1, <1>2, <1>3, <1>4, <1>5, <1>6, <1>7, <1>8, <1>9, <1>10, <1>11, <1>12
  DEF Next, HandleRequest, Crash, Environment

\* What authenticateClient does to the session it authenticates.
LEMMA OfferMade ==
  ASSUME TypeOK, NEW b \in Sent("auth"), NEW t \in Outer(b), authenticateClient(t, b)
  PROVE  /\ t \in Tids /\ b \in AuthBody /\ rss[t] # None
         /\ \A u \in Tids \ {t} : rss'[u] = rss[u]
         /\ rss'[t] # None /\ rss'[t].eid = b.euicc /\ rss'[t].matchingId = b.matchingId
         /\ rss'[t].expiry = rss[t].expiry
         /\ rss'[t].smdpSignature2 = [over |-> b, nonce |-> fresh + 1]
         /\ rss'[t].profileMetadata =
              [profileName |-> b.matchingId, iccid |-> upp[b.matchingId]]
         /\ rss'[t].profileMetadata \in MetadataType /\ rss'[t].eid \in Euiccs
<1> DEFINE md == [profileName |-> b.matchingId, iccid |-> upp[b.matchingId]]
           sig2 == [over |-> b, nonce |-> fresh + 1]
           new == Authenticated(rss[t], b, md, sig2)
<1>1. b \in AuthBody /\ t \in Tids /\ b.euicc \in Euiccs
  BY MessageTypes, OuterType DEF AuthBody, Sent
<1>2. md \in MetadataType /\ new \in Session /\ new # None
  BY <1>1, AuthenticatedType, SmDppAssumption, NoneAssumption DEF authenticateClient, NoneAssumption
<1>3. rss[t] \in Session /\ rss \in [Tids -> Session \cup {None}] /\ rss[t] # None
  BY <1>1 DEF TypeOK, Live, authenticateClient
<1>4. rss' = [rss EXCEPT ![t] = new]
  BY DEF authenticateClient
<1>5. /\ new.eid = b.euicc /\ new.matchingId = b.matchingId /\ new.expiry = rss[t].expiry
      /\ new.smdpSignature2 = sig2 /\ new.profileMetadata = md
  BY <1>3 DEF Authenticated, KeepCertificate, Session
<1> QED BY <1>1, <1>2, <1>3, <1>4, <1>5

\* What getBoundProfilePackage needs of the session and what it leaves there.
LEMMA PackageBound ==
  ASSUME TypeOK, NEW b \in Sent("prep"), NEW t \in Outer(b), getBoundProfilePackage(t, b)
  PROVE  /\ t \in Tids /\ b \in PrepBody /\ b.tid = t /\ rss[t] # None
         /\ rss[t].smdpSignature2 # None /\ b.smdpSignature2 = rss[t].smdpSignature2
         /\ \A u \in Tids : SessionKept(u)
         /\ \A u \in Tids : OfferKept(u)
         /\ replies' = replies \cup
              {[func |-> "bpp", tid |-> t, eid |-> rss[t].eid,
                profileMetadata |-> rss[t].profileMetadata,
                upp |-> upp[rss[t].matchingId], euiccOtpk |-> b.euiccOtpk,
                smdpOtpk |-> fresh + 1]}
<1> DEFINE new == [rss[t] EXCEPT !.euicc_otpk = b.euiccOtpk, !.smdp_ot = fresh + 1]
<1>1. b \in PrepBody /\ t \in Tids
  BY MessageTypes, OuterType DEF PrepBody, Sent
<1>2. rss[t] \in Session /\ rss \in [Tids -> Session \cup {None}] /\ rss[t] # None
  BY <1>1 DEF TypeOK, Live, getBoundProfilePackage
<1>3. rss' = [rss EXCEPT ![t] = new]
  BY <1>1, <1>2 DEF getBoundProfilePackage, generate_private_key
<1>4. /\ new.eid = rss[t].eid /\ new.matchingId = rss[t].matchingId
      /\ new.expiry = rss[t].expiry /\ new.smdpSignature2 = rss[t].smdpSignature2
      /\ new.profileMetadata = rss[t].profileMetadata
  BY <1>2 DEF Session
<1>5. new # None
  <2>1. b.euiccOtpk \in 0 .. MaxFresh /\ fresh + 1 \in 0 .. MaxFresh
    BY <1>1, Bounds DEF PrepBody, getBoundProfilePackage, TypeOK
  <2>2. new \in Session
    BY <1>2, <2>1 DEF Session
  <2> QED BY <2>2, NoneAssumption DEF NoneAssumption
<1>6. \A u \in Tids : SessionKept(u) /\ OfferKept(u)
  BY <1>1, <1>2, <1>3, <1>4, <1>5 DEF SessionKept, OfferKept
<1>7. PrepareDownloadVerifies(t, b)
  BY DEF getBoundProfilePackage
<1>8. replies' = replies \cup
        {[func |-> "bpp", tid |-> t, eid |-> rss[t].eid,
          profileMetadata |-> rss[t].profileMetadata,
          upp |-> upp[rss[t].matchingId], euiccOtpk |-> b.euiccOtpk,
          smdpOtpk |-> fresh + 1]}
  BY DEF getBoundProfilePackage, generate_private_key
<1> QED BY <1>1, <1>2, <1>6, <1>7, <1>8 DEF PrepareDownloadVerifies

-----------------------------------------------------------------------------
(* The inductive invariant, conjunct by conjunct *)

\* Sessions have ids that were given out.
LEMMA SessionsOpenedKept ==
  ASSUME TypeOK, SessionsOpened, [Next]_vars
  PROVE  SessionsOpened'
<1>0. lastTid \in Nat
  BY DEF TypeOK
<1>1. CASE Quiet
  BY <1>0, <1>1 DEF Quiet, SessionKept, SessionsOpened, Live, Tids
<1>2. ASSUME NEW b \in Sent("auth"), NEW t \in Outer(b), authenticateClient(t, b)
      PROVE  SessionsOpened'
  BY <1>2, OfferMade DEF authenticateClient, SessionsOpened, Live
<1>3. ASSUME NEW b \in Sent("prep"), NEW t \in Outer(b), getBoundProfilePackage(t, b)
      PROVE  SessionsOpened'
  BY <1>3, PackageBound DEF getBoundProfilePackage, SessionsOpened, Live, OfferKept
<1>4. ASSUME NEW r \in Answered("auth"), NEW e \in GivenTo(r), PrepareDownload(r, e)
      PROVE  SessionsOpened'
  BY <1>4 DEF PrepareDownload, SessionsOpened, Live
<1>5. ASSUME NEW m \in MatchingIds, NEW v \in Versions \cup {None}, ChangeUpp(m, v)
      PROVE  SessionsOpened'
  BY <1>5 DEF ChangeUpp, serverVars, SessionsOpened, Live
<1> QED BY <1>1, <1>2, <1>3, <1>4, <1>5, StepCases

\* Nonces and one-time keys are drawn from what was never drawn.
LEMMA DrawsNewKept ==
  ASSUME TypeOK, SessionsOpened, DrawsNew, [Next]_vars
  PROVE  DrawsNew'
<1>0. /\ fresh \in Nat
      /\ \A a \in Answered("auth") : a.smdpSignature2.nonce \in Nat
      /\ \A r \in Answered("bpp") : r.smdpOtpk \in Nat
  BY MessageTypes DEF TypeOK, AuthReply, Sig2Type, BppReply
<1>1. CASE Quiet
  BY <1>1 DEF Quiet, DrawsNew
<1>2. ASSUME NEW b \in Sent("auth"), NEW t \in Outer(b), authenticateClient(t, b)
      PROVE  DrawsNew'
  <2> DEFINE a0 == [func |-> "auth", tid |-> t,
                    smdpSignature2 |-> [over |-> b, nonce |-> fresh + 1],
                    profileMetadata |->
                      [profileName |-> b.matchingId, iccid |-> upp[b.matchingId]]]
  <2>1. Answered("auth")' = Answered("auth") \cup {a0} /\ a0.smdpSignature2.nonce = fresh + 1
    BY <1>2 DEF authenticateClient, Answered
  <2>2. Answered("bpp")' = Answered("bpp") /\ fresh' = fresh + 1
    BY <1>2 DEF authenticateClient, Answered
  <2> HIDE DEF a0
  <2> QED BY <1>0, <2>1, <2>2 DEF DrawsNew
<1>3. ASSUME NEW b \in Sent("prep"), NEW t \in Outer(b), getBoundProfilePackage(t, b)
      PROVE  DrawsNew'
  <2>1. Answered("auth")' = Answered("auth") /\ fresh' = fresh + 1
    BY <1>3 DEF getBoundProfilePackage, Answered
  <2>2. \A r \in Answered("bpp")' : r \in Answered("bpp") \/ r.smdpOtpk = fresh + 1
    BY <1>3, PackageBound DEF Answered
  <2> QED BY <1>0, <2>1, <2>2 DEF DrawsNew
<1>4. ASSUME NEW r \in Answered("auth"), NEW e \in GivenTo(r), PrepareDownload(r, e)
      PROVE  DrawsNew'
  BY <1>0, <1>4 DEF PrepareDownload, Answered, DrawsNew
<1>5. ASSUME NEW m \in MatchingIds, NEW v \in Versions \cup {None}, ChangeUpp(m, v)
      PROVE  DrawsNew'
  BY <1>5 DEF ChangeUpp, serverVars, Answered, DrawsNew
<1> QED BY <1>1, <1>2, <1>3, <1>4, <1>5, StepCases

\* Where replies reach their client, it prepares a download only for an answer
\* to its own signature.
LEMMA ResponsesOwnKept ==
  ASSUME TypeOK, SessionsOpened, ResponsesOwn, [Next]_vars
  PROVE  ResponsesOwn'
<1>1. CASE Quiet
  BY <1>1 DEF Quiet, ResponsesOwn
<1>2. ASSUME NEW b \in Sent("auth"), NEW t \in Outer(b), authenticateClient(t, b)
      PROVE  ResponsesOwn'
  BY <1>2 DEF authenticateClient, Sent, ResponsesOwn
<1>3. ASSUME NEW b \in Sent("prep"), NEW t \in Outer(b), getBoundProfilePackage(t, b)
      PROVE  ResponsesOwn'
  BY <1>3 DEF getBoundProfilePackage, Sent, ResponsesOwn
<1>4. ASSUME NEW r \in Answered("auth"), NEW e \in GivenTo(r), PrepareDownload(r, e)
      PROVE  ResponsesOwn'
  BY <1>4 DEF PrepareDownload, GivenTo, Sent, ResponsesOwn
<1>5. ASSUME NEW m \in MatchingIds, NEW v \in Versions \cup {None}, ChangeUpp(m, v)
      PROVE  ResponsesOwn'
  BY <1>5 DEF ChangeUpp, Sent, ResponsesOwn
<1> QED BY <1>1, <1>2, <1>3, <1>4, <1>5, StepCases

\* SessionCoherent with its LET expanded, for one session.
CoherentAt(t) ==
  rss[t] # None /\ rss[t].smdpSignature2 # None =>
    /\ rss[t].smdpSignature2.over.tid = t
    /\ rss[t].eid = rss[t].smdpSignature2.over.euicc
    /\ rss[t].matchingId = rss[t].smdpSignature2.over.matchingId
    /\ rss[t].profileMetadata.profileName = rss[t].smdpSignature2.over.matchingId
    /\ \E a \in Answered("auth") :
         /\ a.tid = t /\ a.smdpSignature2 = rss[t].smdpSignature2
         /\ a.profileMetadata = rss[t].profileMetadata

\* A session is coherent where every session is, and conversely.
LEMMA CoherentEverywhere == SessionCoherent <=> \A t \in Tids : CoherentAt(t)
BY DEF SessionCoherent, CoherentAt, Live

\* A step that keeps what a session was offered keeps it coherent.
LEMMA KeptCoherent ==
  ASSUME NEW t \in Tids, CoherentAt(t), SessionKept(t),
         Answered("auth") \subseteq Answered("auth")'
  PROVE  CoherentAt(t)'
BY DEF SessionKept, CoherentAt

\* authenticateClient writes EID, matchingId, metadata and smdpSignature2 of
\* one request, getBoundProfilePackage and the others write none of them.
LEMMA SessionCoherentKept ==
  ASSUME TypeOK, SessionsOpened, ResponsesOwn, SessionCoherent, [Next]_vars
  PROVE  SessionCoherent'
<1>0. \A u \in Tids : CoherentAt(u)
  BY CoherentEverywhere
<1>1. ASSUME Answered("auth") \subseteq Answered("auth")', \A u \in Tids : SessionKept(u)
      PROVE  SessionCoherent'
  <2>1. \A u \in Tids : CoherentAt(u)'
    BY <1>0, <1>1, KeptCoherent
  <2> QED BY <2>1 DEF SessionCoherent, CoherentAt, Live
<1>2. CASE Quiet
  BY <1>1, <1>2 DEF Quiet
<1>3. ASSUME NEW b \in Sent("auth"), NEW t \in Outer(b), authenticateClient(t, b)
      PROVE  SessionCoherent'
  <2> DEFINE a0 == [func |-> "auth", tid |-> t,
                    smdpSignature2 |-> [over |-> b, nonce |-> fresh + 1],
                    profileMetadata |->
                      [profileName |-> b.matchingId, iccid |-> upp[b.matchingId]]]
  <2>1. Answered("auth")' = Answered("auth") \cup {a0}
    BY <1>3 DEF authenticateClient, Answered
  <2>2. /\ t \in Tids /\ \A u \in Tids \ {t} : rss'[u] = rss[u]
        /\ rss'[t].eid = b.euicc /\ rss'[t].matchingId = b.matchingId
        /\ rss'[t].smdpSignature2 = [over |-> b, nonce |-> fresh + 1]
        /\ rss'[t].profileMetadata =
             [profileName |-> b.matchingId, iccid |-> upp[b.matchingId]]
    BY <1>3, OfferMade
  <2>3. b.tid = t
    BY <1>3 DEF authenticateClient, AuthenticationVerifies, ResponsesOwn
  <2>4. CoherentAt(t)'
    <3>1. /\ a0 \in Answered("auth")' /\ a0.tid = t
          /\ a0.smdpSignature2 = rss'[t].smdpSignature2
          /\ a0.profileMetadata = rss'[t].profileMetadata
      BY <2>1, <2>2
    <3>2. rss'[t].smdpSignature2.over = b /\ rss'[t].profileMetadata.profileName = b.matchingId
      BY <2>2
    <3> HIDE DEF a0
    <3> QED BY <2>2, <2>3, <3>1, <3>2 DEF CoherentAt
  <2>5. ASSUME NEW u \in Tids, u # t
        PROVE  CoherentAt(u)'
    <3>1. rss'[u] = rss[u] /\ CoherentAt(u)
      BY <1>0, <2>2, <2>5
    <3> HIDE DEF a0
    <3> QED BY <2>1, <3>1 DEF CoherentAt
  <2> QED BY <2>4, <2>5 DEF SessionCoherent, CoherentAt, Live
<1>4. ASSUME NEW b \in Sent("prep"), NEW t \in Outer(b), getBoundProfilePackage(t, b)
      PROVE  SessionCoherent'
  <2>1. Answered("auth") \subseteq Answered("auth")'
    BY <1>4 DEF getBoundProfilePackage, Answered
  <2> QED BY <1>1, <1>4, <2>1, PackageBound
<1>5. ASSUME NEW r \in Answered("auth"), NEW e \in GivenTo(r), PrepareDownload(r, e)
      PROVE  SessionCoherent'
  BY <1>1, <1>5, UnchangedKept DEF PrepareDownload, Answered
<1>6. ASSUME NEW m \in MatchingIds, NEW v \in Versions \cup {None}, ChangeUpp(m, v)
      PROVE  SessionCoherent'
  BY <1>1, <1>6, UnchangedKept DEF ChangeUpp, Answered, serverVars
<1> QED BY <1>2, <1>3, <1>4, <1>5, <1>6, StepCases

\* The checks of authenticateClient let only an admissible eUICC through.
LEMMA VerifiedAdmissible ==
  ASSUME TypeOK, SessionsAdmissible, NEW b \in AuthBody, NEW t \in Tids, Live(t),
         AuthenticationVerifies(t, b)
  PROVE  MayBeServed(b.euicc)
<1>1. Card[b.euicc].keyMatches /\ CertificateChainVerifies(b.euicc)
  BY DEF AuthenticationVerifies, SignedBy
<1>2. ASSUME ZkMode
      PROVE  /\ Card[b.euicc].elig # None
             /\ Card[b.euicc].elig.authToken =
                  [h_pid |-> Card[b.euicc].elig.hpid, h_cert |-> b.euicc, expiry |-> FIXED_EXPIRY]
             /\ Card[b.euicc].elig.sigCred =
                  [h_pid |-> Card[b.euicc].elig.hpid, h_cert |-> b.euicc]
             /\ Card[b.euicc].elig.accProofRoot = Card[b.euicc].elig.sigRoot
  <2>1. EligibilityVerifies(rss[t], b.euicc)
    BY <1>2 DEF AuthenticationVerifies
  <2>2. rss[t].expiry = FIXED_EXPIRY
    BY <2>1 DEF EligibilityVerifies, SessionsAdmissible
  <2> QED BY <2>1, <2>2 DEF EligibilityVerifies
<1> QED BY <1>1, <1>2 DEF MayBeServed, CertificateChainVerifies

\* Whom a session serves.
AdmissibleAt(t) ==
  rss[t] # None =>
    /\ rss[t].expiry \in {None, FIXED_EXPIRY}
    /\ rss[t].smdpSignature2 # None => MayBeServed(rss[t].eid)

\* A session that gets an offer passed the checks in the same step.
LEMMA SessionsAdmissibleKept ==
  ASSUME TypeOK, SessionsOpened, SessionsAdmissible, [Next]_vars
  PROVE  SessionsAdmissible'
<1>0. \A u \in Tids : AdmissibleAt(u)
  BY DEF SessionsAdmissible, AdmissibleAt, Live
<1>1. ASSUME \A u \in Tids : SessionKept(u)
      PROVE  SessionsAdmissible'
  <2>1. ASSUME NEW u \in Tids PROVE AdmissibleAt(u)'
    <3>1. SessionKept(u) /\ AdmissibleAt(u)
      BY <1>0, <1>1
    <3> QED BY <3>1 DEF SessionKept, AdmissibleAt, MayBeServed
  <2> QED BY <2>1 DEF SessionsAdmissible, AdmissibleAt, Live
<1>2. CASE Quiet
  BY <1>1, <1>2 DEF Quiet
<1>3. ASSUME NEW b \in Sent("auth"), NEW t \in Outer(b), authenticateClient(t, b)
      PROVE  SessionsAdmissible'
  <2>1. /\ t \in Tids /\ b \in AuthBody /\ rss[t] # None
        /\ \A u \in Tids \ {t} : rss'[u] = rss[u]
        /\ rss'[t].eid = b.euicc /\ rss'[t].expiry = rss[t].expiry
    BY <1>3, OfferMade
  <2>2. MayBeServed(b.euicc)
    BY <1>3, <2>1, VerifiedAdmissible DEF authenticateClient
  <2>3. ASSUME NEW u \in Tids PROVE AdmissibleAt(u)'
    <3>1. CASE u = t
      BY <1>0, <2>1, <2>2, <3>1 DEF AdmissibleAt, MayBeServed
    <3>2. CASE u # t
      BY <1>0, <2>1, <3>2 DEF AdmissibleAt, MayBeServed
    <3> QED BY <3>1, <3>2
  <2> QED BY <2>3 DEF SessionsAdmissible, AdmissibleAt, Live
<1>4. ASSUME NEW b \in Sent("prep"), NEW t \in Outer(b), getBoundProfilePackage(t, b)
      PROVE  SessionsAdmissible'
  BY <1>1, <1>4, PackageBound
<1>5. ASSUME NEW r \in Answered("auth"), NEW e \in GivenTo(r), PrepareDownload(r, e)
      PROVE  SessionsAdmissible'
  BY <1>1, <1>5, UnchangedKept DEF PrepareDownload
<1>6. ASSUME NEW m \in MatchingIds, NEW v \in Versions \cup {None}, ChangeUpp(m, v)
      PROVE  SessionsAdmissible'
  BY <1>1, <1>6, UnchangedKept DEF ChangeUpp, serverVars
<1> QED BY <1>2, <1>3, <1>4, <1>5, <1>6, StepCases

\* As long as no UPP file was changed, metadata are those of the file.
LEMMA MetadataCurrentKept ==
  ASSUME TypeOK, SessionsOpened, MetadataCurrent, [Next]_vars
  PROVE  MetadataCurrent'
<1>1. ASSUME UNCHANGED <<upp, uppChanges>>, \A u \in Tids : SessionKept(u)
      PROVE  MetadataCurrent'
  BY <1>1 DEF SessionKept, MetadataCurrent, Live
<1>2. CASE Quiet
  BY <1>1, <1>2 DEF Quiet
<1>3. ASSUME NEW b \in Sent("auth"), NEW t \in Outer(b), authenticateClient(t, b)
      PROVE  MetadataCurrent'
  <2>1. UNCHANGED <<upp, uppChanges>>
    BY <1>3 DEF authenticateClient, worldVars
  <2>2. /\ \A u \in Tids \ {t} : rss'[u] = rss[u]
        /\ rss'[t].matchingId = b.matchingId
        /\ rss'[t].profileMetadata =
             [profileName |-> b.matchingId, iccid |-> upp[b.matchingId]]
    BY <1>3, OfferMade
  <2> QED BY <2>1, <2>2 DEF MetadataCurrent, Live
<1>4. ASSUME NEW b \in Sent("prep"), NEW t \in Outer(b), getBoundProfilePackage(t, b)
      PROVE  MetadataCurrent'
  BY <1>1, <1>4, PackageBound DEF getBoundProfilePackage, worldVars
<1>5. ASSUME NEW r \in Answered("auth"), NEW e \in GivenTo(r), PrepareDownload(r, e)
      PROVE  MetadataCurrent'
  BY <1>1, <1>5, UnchangedKept DEF PrepareDownload, worldVars
<1>6. ASSUME NEW m \in MatchingIds, NEW v \in Versions \cup {None}, ChangeUpp(m, v)
      PROVE  MetadataCurrent'
  <2>1. uppChanges' # 0
    BY <1>6 DEF ChangeUpp, TypeOK
  <2> QED BY <2>1 DEF MetadataCurrent
<1> QED BY <1>2, <1>3, <1>4, <1>5, <1>6, StepCases

\* A package is bound under the EID of the session, which is admissible.
LEMMA PackagesAdmissibleKept ==
  ASSUME TypeOK, SessionsOpened, SessionsAdmissible, PackagesAdmissible, [Next]_vars
  PROVE  PackagesAdmissible'
<1>1. ASSUME Answered("bpp")' = Answered("bpp")
      PROVE  PackagesAdmissible'
  BY <1>1 DEF PackagesAdmissible, MayBeServed
<1>2. CASE Quiet
  BY <1>1, <1>2 DEF Quiet
<1>3. ASSUME NEW b \in Sent("auth"), NEW t \in Outer(b), authenticateClient(t, b)
      PROVE  PackagesAdmissible'
  BY <1>1, <1>3 DEF authenticateClient, Answered
<1>4. ASSUME NEW b \in Sent("prep"), NEW t \in Outer(b), getBoundProfilePackage(t, b)
      PROVE  PackagesAdmissible'
  <2>1. \A r \in Answered("bpp")' : r \in Answered("bpp") \/ r.eid = rss[t].eid
    BY <1>4, PackageBound DEF Answered
  <2>2. MayBeServed(rss[t].eid)
    BY <1>4, PackageBound DEF SessionsAdmissible, Live
  <2> QED BY <2>1, <2>2 DEF PackagesAdmissible, MayBeServed
<1>5. ASSUME NEW r \in Answered("auth"), NEW e \in GivenTo(r), PrepareDownload(r, e)
      PROVE  PackagesAdmissible'
  BY <1>1, <1>5 DEF PrepareDownload, Answered
<1>6. ASSUME NEW m \in MatchingIds, NEW v \in Versions \cup {None}, ChangeUpp(m, v)
      PROVE  PackagesAdmissible'
  BY <1>1, <1>6 DEF ChangeUpp, Answered
<1> QED BY <1>2, <1>3, <1>4, <1>5, <1>6, StepCases

\* A client that opens a package has the EID the package was bound under.
LEMMA OnlyAdmissibleServedKept ==
  ASSUME TypeOK, SessionsOpened, PackagesAdmissible, OnlyAdmissibleServed, [Next]_vars
  PROVE  OnlyAdmissibleServed'
<1>1. ASSUME Sent("pir")' = Sent("pir")
      PROVE  OnlyAdmissibleServed'
  BY <1>1 DEF OnlyAdmissibleServed, MayBeServed
<1>2. CASE Quiet
  <2>1. \A c \in Sent("pir")' : MayBeServed(c.euicc)
    BY <1>2 DEF Quiet, OnlyAdmissibleServed, PackagesAdmissible
  <2> QED BY <2>1 DEF OnlyAdmissibleServed, MayBeServed
<1>3. ASSUME NEW b \in Sent("auth"), NEW t \in Outer(b), authenticateClient(t, b)
      PROVE  OnlyAdmissibleServed'
  BY <1>1, <1>3 DEF authenticateClient, Sent
<1>4. ASSUME NEW b \in Sent("prep"), NEW t \in Outer(b), getBoundProfilePackage(t, b)
      PROVE  OnlyAdmissibleServed'
  BY <1>1, <1>4 DEF getBoundProfilePackage, Sent
<1>5. ASSUME NEW r \in Answered("auth"), NEW e \in GivenTo(r), PrepareDownload(r, e)
      PROVE  OnlyAdmissibleServed'
  BY <1>1, <1>5 DEF PrepareDownload, Sent
<1>6. ASSUME NEW m \in MatchingIds, NEW v \in Versions \cup {None}, ChangeUpp(m, v)
      PROVE  OnlyAdmissibleServed'
  BY <1>1, <1>6 DEF ChangeUpp, Sent
<1> QED BY <1>2, <1>3, <1>4, <1>5, <1>6, StepCases

\* The key of a package is drawn in the step that answers it.
LEMMA OneTimeKeysKept ==
  ASSUME TypeOK, SessionsOpened, DrawsNew, OneTimeKeys, [Next]_vars
  PROVE  OneTimeKeys'
<1>1. ASSUME Answered("bpp")' = Answered("bpp")
      PROVE  OneTimeKeys'
  BY <1>1 DEF OneTimeKeys
<1>2. CASE Quiet
  BY <1>1, <1>2 DEF Quiet
<1>3. ASSUME NEW b \in Sent("auth"), NEW t \in Outer(b), authenticateClient(t, b)
      PROVE  OneTimeKeys'
  BY <1>1, <1>3 DEF authenticateClient, Answered
<1>4. ASSUME NEW b \in Sent("prep"), NEW t \in Outer(b), getBoundProfilePackage(t, b)
      PROVE  OneTimeKeys'
  <2> DEFINE r0 == [func |-> "bpp", tid |-> t, eid |-> rss[t].eid,
                    profileMetadata |-> rss[t].profileMetadata,
                    upp |-> upp[rss[t].matchingId], euiccOtpk |-> b.euiccOtpk,
                    smdpOtpk |-> fresh + 1]
  <2>1. \A r \in Answered("bpp")' : r \in Answered("bpp") \/ r = r0
    BY <1>4, PackageBound DEF Answered
  <2>2. r0.smdpOtpk = fresh + 1
    OBVIOUS
  <2>3. \A r \in Answered("bpp") : r.smdpOtpk \in Nat /\ r.smdpOtpk <= fresh
    BY MessageTypes DEF BppReply, DrawsNew
  <2>4. fresh \in Nat
    BY DEF TypeOK
  <2> HIDE DEF r0
  <2> QED BY <2>1, <2>2, <2>3, <2>4 DEF OneTimeKeys
<1>5. ASSUME NEW r \in Answered("auth"), NEW e \in GivenTo(r), PrepareDownload(r, e)
      PROVE  OneTimeKeys'
  BY <1>1, <1>5 DEF PrepareDownload, Answered
<1>6. ASSUME NEW m \in MatchingIds, NEW v \in Versions \cup {None}, ChangeUpp(m, v)
      PROVE  OneTimeKeys'
  BY <1>1, <1>6 DEF ChangeUpp, Answered
<1> QED BY <1>2, <1>3, <1>4, <1>5, <1>6, StepCases

\* What BppAsAgreed says of one reply.
Agreed(r) ==
  /\ \E b \in Sent("prep"), a \in Answered("auth") :
       /\ b.tid = r.tid /\ b.euiccOtpk = r.euiccOtpk
       /\ ~Misrouting => b.euicc = r.eid
       /\ a.tid = r.tid /\ a.smdpSignature2 = b.smdpSignature2
       /\ a.smdpSignature2.over.euicc = r.eid
       /\ a.profileMetadata = r.profileMetadata
       /\ a.smdpSignature2.over.matchingId = r.profileMetadata.profileName
       /\ \A c \in Answered("auth") : c.smdpSignature2 = a.smdpSignature2 => c = a
  /\ uppChanges = 0 => r.upp = r.profileMetadata.iccid

\* An agreement stands when there are more responses and replies, as no two
\* replies carry the same signature.
LEMMA AgreementStands ==
  ASSUME NEW r \in Answered("bpp"), Agreed(r), DrawsNew',
         Sent("prep") \subseteq Sent("prep")',
         Answered("auth") \subseteq Answered("auth")',
         uppChanges' = 0 => uppChanges = 0
  PROVE  Agreed(r)'
<1>1. PICK b \in Sent("prep"), a \in Answered("auth") :
        /\ b.tid = r.tid /\ b.euiccOtpk = r.euiccOtpk
        /\ ~Misrouting => b.euicc = r.eid
        /\ a.tid = r.tid /\ a.smdpSignature2 = b.smdpSignature2
        /\ a.smdpSignature2.over.euicc = r.eid
        /\ a.profileMetadata = r.profileMetadata
        /\ a.smdpSignature2.over.matchingId = r.profileMetadata.profileName
  BY DEF Agreed
<1>2. \A c \in Answered("auth")' : c.smdpSignature2 = a.smdpSignature2 => c = a
  BY <1>1 DEF DrawsNew
<1>3. uppChanges' = 0 => r.upp = r.profileMetadata.iccid
  BY DEF Agreed
<1>4. b \in Sent("prep")' /\ a \in Answered("auth")'
  BY <1>1
<1> QED BY <1>1, <1>2, <1>3, <1>4 DEF Agreed

\* The package is bound for the response that getBoundProfilePackage verified:
\* it covers the session's smdpSignature2, which only one reply carried, and
\* the session still holds the EID and the metadata that went with it.
LEMMA BppAsAgreedKept ==
  ASSUME TypeOK, SessionsOpened, DrawsNew, ResponsesOwn, SessionCoherent,
         MetadataCurrent, BppAsAgreed, [Next]_vars
  PROVE  BppAsAgreed'
<1>0. DrawsNew'
  BY DrawsNewKept
<1>1. ASSUME Answered("bpp")' = Answered("bpp"),
             Sent("prep") \subseteq Sent("prep")',
             Answered("auth") \subseteq Answered("auth")',
             uppChanges' = 0 => uppChanges = 0
      PROVE  BppAsAgreed'
  <2>1. \A r \in Answered("bpp") : Agreed(r)
    BY DEF BppAsAgreed, Agreed
  <2>2. \A r \in Answered("bpp") : Agreed(r)'
    BY <1>0, <1>1, <2>1, AgreementStands
  <2> QED BY <1>1, <2>2 DEF BppAsAgreed, Agreed
<1>2. CASE Quiet
  BY <1>1, <1>2 DEF Quiet
<1>3. ASSUME NEW b \in Sent("auth"), NEW t \in Outer(b), authenticateClient(t, b)
      PROVE  BppAsAgreed'
  BY <1>1, <1>3 DEF authenticateClient, Answered, Sent, worldVars
<1>4. ASSUME NEW b \in Sent("prep"), NEW t \in Outer(b), getBoundProfilePackage(t, b)
      PROVE  BppAsAgreed'
  <2>0. PICK r0 : r0 = [func |-> "bpp", tid |-> t, eid |-> rss[t].eid,
                        profileMetadata |-> rss[t].profileMetadata,
                        upp |-> upp[rss[t].matchingId], euiccOtpk |-> b.euiccOtpk,
                        smdpOtpk |-> fresh + 1]
    OBVIOUS
  <2>1. \A r \in Answered("bpp")' : r \in Answered("bpp") \/ r = r0
    BY <1>4, <2>0, PackageBound DEF Answered
  <2>2. /\ Sent("prep")' = Sent("prep") /\ Answered("auth")' = Answered("auth")
        /\ uppChanges' = uppChanges
    BY <1>4 DEF getBoundProfilePackage, Sent, Answered, worldVars
  <2>3. /\ t \in Tids /\ b.tid = t /\ rss[t] # None /\ rss[t].smdpSignature2 # None
        /\ b.smdpSignature2 = rss[t].smdpSignature2
    BY <1>4, PackageBound
  <2>4. CoherentAt(t)
    BY <2>3, CoherentEverywhere
  <2>5. PICK a \in Answered("auth") :
          /\ a.tid = t /\ a.smdpSignature2 = rss[t].smdpSignature2
          /\ a.profileMetadata = rss[t].profileMetadata
    BY <2>3, <2>4 DEF CoherentAt
  <2>6. ~Misrouting => b.euicc = rss[t].eid
    BY <2>3, <2>4 DEF CoherentAt, ResponsesOwn
  <2>7. /\ a.smdpSignature2.over.matchingId = rss[t].profileMetadata.profileName
        /\ a.smdpSignature2.over.euicc = rss[t].eid
    BY <2>3, <2>4, <2>5 DEF CoherentAt
  <2>8. \A c \in Answered("auth") : c.smdpSignature2 = a.smdpSignature2 => c = a
    BY DEF DrawsNew
  <2>9. uppChanges = 0 => upp[rss[t].matchingId] = rss[t].profileMetadata.iccid
    BY <2>3 DEF MetadataCurrent, Live
  <2>10. Agreed(r0)'
    <3>1. /\ r0.tid = t /\ r0.eid = rss[t].eid /\ r0.euiccOtpk = b.euiccOtpk
          /\ r0.profileMetadata = rss[t].profileMetadata /\ r0.upp = upp[rss[t].matchingId]
      BY <2>0
    <3>2. b \in Sent("prep")' /\ a \in Answered("auth")'
      BY <2>2
    <3> QED
      BY <2>2, <2>3, <2>5, <2>6, <2>7, <2>8, <2>9, <3>1, <3>2 DEF Agreed
  <2>11. \A r \in Answered("bpp") : Agreed(r)'
    <3>1. \A r \in Answered("bpp") : Agreed(r)
      BY DEF BppAsAgreed, Agreed
    <3> QED BY <1>0, <2>2, <3>1, AgreementStands
  <2> QED BY <2>1, <2>10, <2>11 DEF BppAsAgreed, Agreed
<1>5. ASSUME NEW r \in Answered("auth"), NEW e \in GivenTo(r), PrepareDownload(r, e)
      PROVE  BppAsAgreed'
  BY <1>1, <1>5 DEF PrepareDownload, Answered, Sent, worldVars
<1>6. ASSUME NEW m \in MatchingIds, NEW v \in Versions \cup {None}, ChangeUpp(m, v)
      PROVE  BppAsAgreed'
  <2>1. uppChanges' # 0
    BY <1>6 DEF ChangeUpp, TypeOK
  <2> QED BY <1>1, <1>6, <2>1 DEF ChangeUpp, Answered, Sent
<1> QED BY <1>2, <1>3, <1>4, <1>5, <1>6, StepCases

-----------------------------------------------------------------------------
(* The theorems *)

\* A new SM-DP+, which has no session and has answered nothing, has it all.
LEMMA InitInvariant == Init => IInv
<1> SUFFICES ASSUME Init PROVE IInv
  OBVIOUS
<1>1. /\ Answered("auth") = {} /\ Answered("bpp") = {}
      /\ Sent("prep") = {} /\ Sent("auth") = {} /\ Sent("pir") = {}
  BY DEF Init, Answered, Sent
<1>2. \A t \in Tids : ~Live(t)
  BY DEF Init, Live
<1>3. SessionsOpened /\ SessionCoherent /\ SessionsAdmissible /\ MetadataCurrent
  BY <1>2 DEF SessionsOpened, SessionCoherent, SessionsAdmissible, MetadataCurrent
<1>4. DrawsNew /\ ResponsesOwn
  BY <1>1 DEF DrawsNew, ResponsesOwn
<1>5. BppAsAgreed /\ PackagesAdmissible /\ OnlyAdmissibleServed /\ OneTimeKeys
  BY <1>1 DEF BppAsAgreed, PackagesAdmissible, OnlyAdmissibleServed, OneTimeKeys
<1> QED BY <1>3, <1>4, <1>5, InitType DEF IInv

\* No step of the SM-DP+, of an eUICC, of the operator or of the clock breaks it.
LEMMA StepInvariant == IInv /\ [Next]_vars => IInv'
BY TypesKept, SessionsOpenedKept, DrawsNewKept, ResponsesOwnKept, SessionCoherentKept,
   SessionsAdmissibleKept, MetadataCurrentKept, BppAsAgreedKept,
   PackagesAdmissibleKept, OnlyAdmissibleServedKept, OneTimeKeysKept
DEF IInv

\* The inductive invariant holds in every state the SM-DP+ can reach.
THEOREM Invariant == Spec => []IInv
BY InitInvariant, StepInvariant, PTL DEF Spec

\* What rss holds and what the handlers answer always has its type: no handler
\* answers with, or stores, a member that an earlier request has not set.
THEOREM TypeCorrect == Spec => []TypeOK
<1>1. IInv => TypeOK
  BY DEF IInv
<1> QED BY <1>1, Invariant, PTL

\* authenticateClient stores the certificate of a request before it checks
\* anything; still the session that getBoundProfilePackage reads is coherent.
THEOREM SessionsCoherent == Spec => []SessionCoherent
<1>1. IInv => SessionCoherent
  BY DEF IInv
<1> QED BY <1>1, Invariant, PTL

\* Only an eUICC whose certificate chain, or whose eligibility bundle, is one
\* authenticateClient lets through ever opens a package, although the client
\* whose signature getBoundProfilePackage took may be another.
THEOREM AdmissibleServed == Spec => []OnlyAdmissibleServed
<1>1. IInv => OnlyAdmissibleServed
  BY DEF IInv
<1> QED BY <1>1, Invariant, PTL

\* A package is bound for the metadata, the EID and the one-time key of the
\* response getBoundProfilePackage verified.
THEOREM PackagesAgreed == Spec => []BppAsAgreed
<1>1. IInv => BppAsAgreed
  BY DEF IInv
<1> QED BY <1>1, Invariant, PTL

\* generate_private_key gives every package a key of its own.
THEOREM KeysOneTime == Spec => []OneTimeKeys
<1>1. IInv => OneTimeKeys
  BY DEF IInv
<1> QED BY <1>1, Invariant, PTL

\* A step on the store and the packages answered, in the terms of StaysEnded.
LEMMA EndedStaysEnded ==
  ASSUME IInv, [Next]_vars
  PROVE  StaysEnded
<1>0. TypeOK /\ SessionsOpened /\ lastTid \in Nat
  BY DEF IInv, TypeOK
<1>1. ASSUME Answered("bpp")' = Answered("bpp"),
             \A u \in Tids : u <= lastTid /\ rss[u] = None => rss'[u] = None
      PROVE  StaysEnded
  BY <1>1 DEF StaysEnded, Live
<1>2. CASE Quiet
  BY <1>0, <1>1, <1>2 DEF Quiet, SessionKept
<1>3. ASSUME NEW b \in Sent("auth"), NEW t \in Outer(b), authenticateClient(t, b)
      PROVE  StaysEnded
  <2>1. Answered("bpp")' = Answered("bpp")
    BY <1>3 DEF authenticateClient, Answered
  <2> QED BY <1>0, <1>1, <1>3, <2>1, OfferMade
<1>4. ASSUME NEW b \in Sent("prep"), NEW t \in Outer(b), getBoundProfilePackage(t, b)
      PROVE  StaysEnded
  <2>1. /\ t \in Tids /\ rss[t] # None
        /\ \A r \in Answered("bpp")' : r \in Answered("bpp") \/ r.tid = t
        /\ Answered("bpp") \subseteq Answered("bpp")'
        /\ \A u \in Tids : OfferKept(u)
    BY <1>0, <1>4, PackageBound DEF Answered
  <2>2. ASSUME NEW u \in Tids, rss[u] = None
        PROVE  /\ rss'[u] = None
               /\ {r \in Answered("bpp")' : r.tid = u} = {r \in Answered("bpp") : r.tid = u}
    <3>1. u # t
      BY <2>1, <2>2
    <3> QED BY <2>1, <2>2, <3>1 DEF OfferKept
  <2> QED BY <2>2 DEF StaysEnded, Live
<1>5. ASSUME NEW r \in Answered("auth"), NEW e \in GivenTo(r), PrepareDownload(r, e)
      PROVE  StaysEnded
  BY <1>1, <1>5 DEF PrepareDownload, Answered
<1>6. ASSUME NEW m \in MatchingIds, NEW v \in Versions \cup {None}, ChangeUpp(m, v)
      PROVE  StaysEnded
  BY <1>1, <1>6 DEF ChangeUpp, Answered, serverVars
<1> QED BY <1>0, <1>2, <1>3, <1>4, <1>5, <1>6, StepCases

\* A request for a session that was cancelled or notified finds no session.
THEOREM EndedStays == Spec => EndedForGood
BY Invariant, EndedStaysEnded, PTL DEF Spec, EndedForGood

-----------------------------------------------------------------------------
(* SmDpp implements ProfileDelivery *)

\* What is on offer in a session, and whether it is closed, depends on nothing
\* but its smdpSignature2, its EID and its metadata.
LEMMA OfferSame ==
  ASSUME NEW t \in Tids, OfferKept(t)
  PROVE  offerOf'[t] = offerOf[t] /\ (Live(t)' <=> Live(t))
BY DEF OfferKept, offerOf, Live

\* A step that leaves the offers and the packages alone is a stuttering step.
LEMMA IdleStutters ==
  ASSUME Idle, Answered("bpp")' = Answered("bpp")
  PROVE  UNCHANGED <<openedTids, closedTids, offerOf, deliveredOf>>
<1>1. \A u \in Tids : offerOf'[u] = offerOf[u] /\ (Live(u)' <=> Live(u))
  BY OfferSame DEF Idle
<1>2. offerOf' = offerOf
  BY <1>1 DEF offerOf
<1>3. openedTids' = openedTids /\ closedTids' = closedTids
  BY <1>1 DEF Idle, openedTids, closedTids
<1>4. deliveredOf' = deliveredOf
  BY DEF deliveredOf
<1> QED BY <1>2, <1>3, <1>4

\* initiateAuthentication, also one that is interrupted, opens a transaction.
LEMMA OpeningOpens ==
  ASSUME TypeOK, NEW t \in Tids, Opening(t), Answered("bpp")' = Answered("bpp")
  PROVE  D!Open(t)
<1>0. lastTid \in Nat
  BY DEF TypeOK
<1>1. \A u \in Tids \ {t} : offerOf'[u] = offerOf[u] /\ (Live(u)' <=> Live(u))
  BY OfferSame DEF Opening
<1>2. offerOf'[t] = None /\ offerOf[t] = None
  BY DEF Opening, offerOf
<1>3. offerOf' = offerOf
  BY <1>1, <1>2 DEF offerOf
<1>4. t \notin openedTids /\ openedTids' = openedTids \cup {t}
  BY <1>0 DEF Opening, openedTids, Tids
<1>5. closedTids' = closedTids
  BY <1>0, <1>1 DEF Opening, closedTids, Live, Tids
<1>6. deliveredOf' = deliveredOf
  BY DEF deliveredOf
<1> QED BY <1>3, <1>4, <1>5, <1>6 DEF D!Open

\* cancelSession and handleNotification close one.
LEMMA ClosingCloses ==
  ASSUME TypeOK, SessionsOpened, NEW t \in Tids, Closing(t), Answered("bpp")' = Answered("bpp")
  PROVE  D!Close(t)
<1>0. lastTid \in Nat /\ t <= lastTid
  BY DEF TypeOK, Closing, SessionsOpened, Live
<1>1. \A u \in Tids \ {t} : offerOf'[u] = offerOf[u] /\ (Live(u)' <=> Live(u))
  BY OfferSame DEF Closing
<1>2. offerOf'[t] = None
  BY DEF Closing, offerOf
<1>3. offerOf' = [offerOf EXCEPT ![t] = None]
  BY <1>1, <1>2 DEF offerOf
<1>4. t \in openedTids \ closedTids /\ openedTids' = openedTids
  BY <1>0 DEF Closing, openedTids, closedTids, Live, Tids
<1>5. closedTids' = closedTids \cup {t}
  BY <1>0, <1>1 DEF Closing, closedTids, Live
<1>6. deliveredOf' = deliveredOf
  BY DEF deliveredOf
<1> QED BY <1>3, <1>4, <1>5, <1>6 DEF D!Close

\* authenticateClient makes an offer.
LEMMA AuthenticateOffers ==
  ASSUME TypeOK, SessionsOpened,
         NEW b \in Sent("auth"), NEW t \in Outer(b), authenticateClient(t, b)
  PROVE  t \in Tids /\ \E o \in D!Offer : D!MakeOffer(t, o)
<1> DEFINE o == [euicc |-> b.euicc,
                 profile |-> [profileName |-> b.matchingId, iccid |-> upp[b.matchingId]]]
<1>1. /\ t \in Tids /\ rss[t] # None /\ rss'[t] # None
      /\ \A u \in Tids \ {t} : rss'[u] = rss[u]
      /\ rss'[t].eid = b.euicc /\ rss'[t].eid \in Euiccs
      /\ rss'[t].smdpSignature2 = [over |-> b, nonce |-> fresh + 1]
      /\ rss'[t].profileMetadata =
            [profileName |-> b.matchingId, iccid |-> upp[b.matchingId]]
      /\ rss'[t].profileMetadata \in MetadataType
  BY OfferMade
<1>2. rss'[t].smdpSignature2 # None
  <2>1. [over |-> b, nonce |-> fresh + 1] \in Sig2Type
    BY MessageTypes, Bounds DEF Sig2Type, TypeOK, authenticateClient
  <2> QED BY <1>1, <2>1, NoneAssumption DEF NoneAssumption
<1>3. offerOf'[t] = o
  BY <1>1, <1>2 DEF offerOf
<1>4. \A u \in Tids \ {t} : offerOf'[u] = offerOf[u]
  BY <1>1 DEF offerOf
<1>5. offerOf' = [offerOf EXCEPT ![t] = o]
  BY <1>3, <1>4 DEF offerOf
<1>6. t \in openedTids \ closedTids
  BY <1>1 DEF SessionsOpened, openedTids, closedTids, Live, Tids, TypeOK
<1>7. openedTids' = openedTids /\ closedTids' = closedTids
  BY <1>1 DEF authenticateClient, openedTids, closedTids, Live
<1>8. deliveredOf' = deliveredOf
  BY DEF authenticateClient, deliveredOf, Answered
<1>9. o \in D!Offer
  BY <1>1 DEF D!Offer
<1> QED BY <1>1, <1>5, <1>6, <1>7, <1>8, <1>9 DEF D!MakeOffer

\* getBoundProfilePackage delivers what is on offer.
LEMMA PackageDelivers ==
  ASSUME TypeOK, SessionsOpened, SessionCoherent,
         NEW b \in Sent("prep"), NEW t \in Outer(b), getBoundProfilePackage(t, b)
  PROVE  t \in Tids /\ D!Deliver(t)
<1> DEFINE o == [euicc |-> rss[t].eid, profile |-> rss[t].profileMetadata]
           r0 == [func |-> "bpp", tid |-> t, eid |-> rss[t].eid,
                  profileMetadata |-> rss[t].profileMetadata,
                  upp |-> upp[rss[t].matchingId], euiccOtpk |-> b.euiccOtpk,
                  smdpOtpk |-> fresh + 1]
<1>1. /\ t \in Tids /\ rss[t] # None /\ rss[t].smdpSignature2 # None
      /\ \A u \in Tids : OfferKept(u)
      /\ replies' = replies \cup {r0}
  BY PackageBound
<1>2. /\ \A u \in Tids : offerOf'[u] = offerOf[u] /\ (Live(u)' <=> Live(u))
      /\ lastTid' = lastTid
  BY <1>1, OfferSame DEF getBoundProfilePackage
<1>3. offerOf' = offerOf
  BY <1>2 DEF offerOf
<1>4. openedTids' = openedTids /\ closedTids' = closedTids
  BY <1>2 DEF openedTids, closedTids
<1>5. t \in openedTids \ closedTids
  BY <1>1 DEF SessionsOpened, openedTids, closedTids, Live, Tids, TypeOK
<1>6. offerOf[t] = o
  BY <1>1 DEF offerOf
<1>7. o # None
  <2>1. o \in Offers
    BY <1>1, OfferedSession DEF Live, Offers
  <2> QED BY <2>1, NoneAssumption DEF NoneAssumption
<1>8. deliveredOf' = deliveredOf \cup {<<t, o>>}
  <2>1. Answered("bpp")' = Answered("bpp") \cup {r0}
    BY <1>1 DEF Answered
  <2>2. r0.tid = t /\ r0.eid = rss[t].eid /\ r0.profileMetadata = rss[t].profileMetadata
    OBVIOUS
  <2> HIDE DEF r0
  <2> QED BY <2>1, <2>2 DEF deliveredOf
<1> QED BY <1>1, <1>3, <1>4, <1>5, <1>6, <1>7, <1>8 DEF D!Deliver

\* Every step of the SM-DP+ and its environment is a step of ProfileDelivery
\* or changes none of its variables.
LEMMA StepDelivers ==
  ASSUME IInv, [Next]_vars
  PROVE  [D!DeliveryNext]_<<openedTids, closedTids, offerOf, deliveredOf>>
<1>0. TypeOK /\ SessionsOpened /\ SessionCoherent
  BY DEF IInv
<1>1. CASE Quiet
  BY <1>0, <1>1, IdleStutters, OpeningOpens, ClosingCloses DEF Quiet, D!DeliveryNext
<1>2. ASSUME NEW b \in Sent("auth"), NEW t \in Outer(b), authenticateClient(t, b)
      PROVE  D!DeliveryNext
  BY <1>0, <1>2, AuthenticateOffers DEF D!DeliveryNext
<1>3. ASSUME NEW b \in Sent("prep"), NEW t \in Outer(b), getBoundProfilePackage(t, b)
      PROVE  D!DeliveryNext
  BY <1>0, <1>3, PackageDelivers DEF D!DeliveryNext
<1>4. ASSUME NEW r \in Answered("auth"), NEW e \in GivenTo(r), PrepareDownload(r, e)
      PROVE  UNCHANGED <<openedTids, closedTids, offerOf, deliveredOf>>
  BY <1>4, IdleStutters, UnchangedKept DEF PrepareDownload, Idle, Answered
<1>5. ASSUME NEW m \in MatchingIds, NEW v \in Versions \cup {None}, ChangeUpp(m, v)
      PROVE  UNCHANGED <<openedTids, closedTids, offerOf, deliveredOf>>
  BY <1>5, IdleStutters, UnchangedKept DEF ChangeUpp, serverVars, Idle, Answered
<1> QED BY <1>0, <1>1, <1>2, <1>3, <1>4, <1>5, StepCases

\* A new SM-DP+ has opened, offered and delivered nothing.
LEMMA InitDelivers == Init => D!DeliveryInit
BY Bounds DEF Init, D!DeliveryInit, openedTids, closedTids, offerOf, deliveredOf, Answered, Tids

\* osmo-smdpp delivers profiles as ProfileDelivery promises.
THEOREM DeliveryImplemented == Spec => ImplementsDelivery
BY Invariant, InitDelivers, StepDelivers, PTL
DEF Spec, ImplementsDelivery, D!DeliverySpec, D!dvars

-----------------------------------------------------------------------------
(***************************************************************************)
(* The Merkle accumulator.                                                 *)
(*                                                                         *)
(* First, induction over the naturals in a first-order form, and functions *)
(* defined by recursion on an interval of them.                            *)
(***************************************************************************)

\* A set of numbers with 0 that is closed under successors has all of them.
LEMMA SetInduction ==
  ASSUME NEW S, 0 \in S, \A n \in Nat : n \in S => n + 1 \in S
  PROVE  Nat \subseteq S
<1> DEFINE T == Nat \ S
           R == {ss \in Nat \X Nat : ss[1] < ss[2]}
<1> SUFFICES ASSUME T # {} PROVE FALSE   OBVIOUS
<1>0. IsWellFoundedOn(R, Nat)   BY NatLessThanWellFounded DEF OpToRel
<1>a. T \subseteq Nat   OBVIOUS
<1> HIDE DEF R, T
<1>1. PICK x \in T : \A y \in T : ~ (<<y, x>> \in R)   BY <1>0, <1>a, WFMin
<1>2. x \in Nat /\ x # 0 /\ x \notin S   BY <1>a DEF T
<1>3. x - 1 \in Nat /\ x = (x - 1) + 1   BY <1>2
<1>4. x - 1 \in T   BY <1>2, <1>3 DEF T
<1>5. <<x - 1, x>> \in R   BY <1>2, <1>3 DEF R
<1> QED BY <1>1, <1>4, <1>5

\* The same up to a number N.
LEMMA UpTo ==
  ASSUME NEW N \in Nat, NEW S, 0 \in S, \A n \in 0 .. N - 1 : n \in S => n + 1 \in S
  PROVE  0 .. N \subseteq S
<1> DEFINE T == {n \in Nat : n > N \/ n \in S}
<1>1. 0 \in T   OBVIOUS
<1>2. \A n \in Nat : n \in T => n + 1 \in T   OBVIOUS
<1>3. Nat \subseteq T
  <2> HIDE DEF T
  <2> QED BY <1>1, <1>2, SetInduction
<1> QED BY <1>3

\* A set of numbers that is not empty has a least one.
LEMMA LeastOf ==
  ASSUME NEW T, T \subseteq Nat, T # {}
  PROVE  \E x \in T : \A y \in T : x <= y
<1> DEFINE R == {ss \in Nat \X Nat : ss[1] < ss[2]}
<1>0. IsWellFoundedOn(R, Nat)   BY NatLessThanWellFounded DEF OpToRel
<1> HIDE DEF R
<1>1. PICK x \in T : \A y \in T : ~ (<<y, x>> \in R)   BY <1>0, WFMin
<1>2. \A y \in T : y \in Nat /\ x \in Nat /\ ~ (y < x)   BY <1>1 DEF R
<1> QED BY <1>2

(* A function defined by recursion on 0 .. N stays in a set that each of its *)
(* steps maps into itself.                                                   *)
Steps(N, X) == [(1 .. N) \X X -> X]

Iterates(f, x0, step, N) == f[0] = x0 /\ \A k \in 1 .. N : f[k] = step[<<k, f[k - 1]>>]

LEMMA Recursion ==
  ASSUME NEW X, NEW x0 \in X, NEW N \in Nat, NEW step \in Steps(N, X)
  PROVE  \E f \in [0 .. N -> X] : Iterates(f, x0, step, N)
<1> step \in [(1 .. N) \X X -> X]   BY DEF Steps
<1> DEFINE Upto(f, n) == f[0] = x0 /\ \A k \in 1 .. n : f[k] = step[<<k, f[k - 1]>>]
           S == {n \in Nat : \E f \in [0 .. N -> X] : Upto(f, n)}
<1>1. 0 \in S
  <2>1. [k \in 0 .. N |-> x0] \in [0 .. N -> X] /\ Upto([k \in 0 .. N |-> x0], 0)   OBVIOUS
  <2> HIDE DEF Upto
  <2> QED BY <2>1
<1>2. ASSUME NEW n \in 0 .. N - 1, n \in S PROVE n + 1 \in S
  <2>1. PICK f \in [0 .. N -> X] : Upto(f, n)   BY <1>2
  <2>2. n \in 0 .. N /\ n + 1 \in 1 .. N /\ n + 1 \in 0 .. N /\ n + 1 # 0 /\ n + 1 - 1 = n
    OBVIOUS
  <2>3. step[<<n + 1, f[n]>>] \in X   BY <2>2
  <2> DEFINE g == [f EXCEPT ![n + 1] = step[<<n + 1, f[n]>>]]
  <2>4. g \in [0 .. N -> X]   BY <2>2, <2>3
  <2>5. g[n + 1] = step[<<n + 1, g[n + 1 - 1]>>]   BY <2>2
  <2>6. \A k \in 1 .. n : g[k] = f[k] /\ g[k - 1] = f[k - 1]   BY <2>2
  <2>7. \A k \in 1 .. n : f[k] = step[<<k, f[k - 1]>>]   BY <2>1
  <2>8. g[0] = x0   BY <2>1, <2>2
  <2>9. \A k \in 1 .. n + 1 : k \in 1 .. n \/ k = n + 1   OBVIOUS
  <2> HIDE DEF g
  <2>10. \A k \in 1 .. n + 1 : g[k] = step[<<k, g[k - 1]>>]
    <3> TAKE k \in 1 .. n + 1
    <3>1. CASE k \in 1 .. n   BY <2>6, <2>7, <3>1
    <3>2. CASE k = n + 1   BY <2>5, <3>2
    <3> QED BY <2>9, <3>1, <3>2
  <2>11. Upto(g, n + 1)   BY <2>8, <2>10
  <2> HIDE DEF Upto
  <2> QED BY <2>2, <2>4, <2>11
<1>3. 0 .. N \subseteq S
  <2> HIDE DEF S
  <2> QED BY <1>1, <1>2, UpTo
<1>4. N \in S
  <2> HIDE DEF S
  <2> QED BY <1>3
<1> QED BY <1>4 DEF Iterates

(***************************************************************************)
(* The trees.                                                              *)
(***************************************************************************)

\* What is assumed of the hash function: no collisions.
CollisionFree ==
  /\ \A a, b \in Nat : hash_fn(a, b) \in Nat
  /\ \A a, b, c, d \in Nat : hash_fn(a, b) = hash_fn(c, d) => a = c /\ b = d

\* Digests that are equal are digests of the same two numbers.
LEMMA HashApart ==
  ASSUME CollisionFree
  PROVE  \A a, b, c, d : /\ a \in Nat /\ b \in Nat /\ c \in Nat /\ d \in Nat
                          /\ hash_fn(a, b) = hash_fn(c, d)
                          => a = c /\ b = d
BY DEF CollisionFree

\* The two numbers that a digest is of.
FirstOf(h) == CHOOSE a \in Nat : \E b \in Nat : hash_fn(a, b) = h
SecondOf(h) == CHOOSE b \in Nat : \E a \in Nat : hash_fn(a, b) = h

LEMMA PartsOf ==
  ASSUME CollisionFree
  PROVE  \A a, b \in Nat : FirstOf(hash_fn(a, b)) = a /\ SecondOf(hash_fn(a, b)) = b
<1> SUFFICES ASSUME NEW a \in Nat, NEW b \in Nat
             PROVE  FirstOf(hash_fn(a, b)) = a /\ SecondOf(hash_fn(a, b)) = b
  OBVIOUS
<1>1. \A c, d \in Nat : hash_fn(c, d) = hash_fn(a, b) => c = a /\ d = b   BY HashApart
<1>2. FirstOf(hash_fn(a, b)) = a   BY <1>1 DEF FirstOf
<1>3. SecondOf(hash_fn(a, b)) = b   BY <1>1 DEF SecondOf
<1> QED BY <1>2, <1>3

\* The same where verifyProof puts the smaller number first.
LEMMA HashOrdered ==
  ASSUME CollisionFree
  PROVE  \A a, b \in Nat :
           /\ hash_ordered(a, b) \in Nat
           /\ \A c, d \in Nat : hash_ordered(a, b) = hash_fn(c, d) => a = c \/ a = d
BY HashApart DEF CollisionFree, hash_ordered

Distinct(s) == \A i, j \in 1 .. Len(s) : s[i] = s[j] => i = j

\* The next level is half as long, and each node on it the digest of two.
LEMMA NextLevelNodes ==
  ASSUME CollisionFree, NEW s \in Seq(Nat), s # <<>>
  PROVE  /\ NextLevel(s) \in Seq(Nat)
         /\ NextLevel(s) # <<>>
         /\ Len(NextLevel(s)) = (Len(s) + 1) \div 2
         /\ \A i \in 1 .. (Len(s) + 1) \div 2 :
              /\ 2 * i - 1 \in 1 .. Len(s)
              /\ s[2 * i - 1] \in Nat
              /\ RightOf(s, i) \in Nat
              /\ NextLevel(s)[i] = hash_fn(s[2 * i - 1], RightOf(s, i))
<1> DEFINE n == (Len(s) + 1) \div 2
<1>0. Len(s) \in Nat \ {0} /\ \A i \in 1 .. Len(s) : s[i] \in Nat
  BY EmptySeq, LenProperties, ElementOfSeq
<1>1. n \in Nat \ {0}
  <2>1. Len(s) >= 1   BY <1>0
  <2> QED BY <1>0, <2>1
<1>2. \A i \in 1 .. n : /\ 2 * i - 1 \in 1 .. Len(s)
                        /\ s[2 * i - 1] \in Nat
                        /\ RightOf(s, i) \in Nat
  <2> SUFFICES ASSUME NEW i \in 1 .. n
               PROVE  /\ 2 * i - 1 \in 1 .. Len(s)
                      /\ s[2 * i - 1] \in Nat
                      /\ RightOf(s, i) \in Nat
    OBVIOUS
  <2>1. 2 * i - 1 \in 1 .. Len(s)   BY <1>0
  <2>2. 2 * i <= Len(s) => 2 * i \in 1 .. Len(s)   BY <1>0
  <2> HIDE DEF n
  <2> QED BY <1>0, <2>1, <2>2 DEF RightOf
<1>3. NextLevel(s) = [i \in 1 .. n |-> hash_fn(s[2 * i - 1], RightOf(s, i))]
  BY DEF NextLevel
<1>4. \A i \in 1 .. n : hash_fn(s[2 * i - 1], RightOf(s, i)) \in Nat
  <2> HIDE DEF n
  <2> QED BY <1>2 DEF CollisionFree
<1> HIDE DEF n
<1>5. NextLevel(s) \in Seq(Nat) /\ Len(NextLevel(s)) = n
  BY <1>1, <1>3, <1>4
<1>6. NextLevel(s) # <<>>   BY <1>1, <1>5
<1> QED BY <1>1, <1>2, <1>3, <1>5, <1>6 DEF n

\* Numbers with one half, rounded up, are an even one and the odd one before it.
LEMMA Halves ==
  \A a, b, m \in Nat :
    a # 0 /\ m = (a + 1) \div 2 /\ m = (b + 1) \div 2 /\ a < b => b = 2 * m /\ a = 2 * m - 1 /\ m \in 1 .. m
OBVIOUS

\* A level without repetitions has one without repetitions above it.
LEMMA NextLevelApart ==
  ASSUME CollisionFree, NEW s \in Seq(Nat), s # <<>>, Distinct(s)
  PROVE  Distinct(NextLevel(s))
<1> SUFFICES ASSUME NEW i \in 1 .. Len(NextLevel(s)), NEW j \in 1 .. Len(NextLevel(s)),
                    NextLevel(s)[i] = NextLevel(s)[j]
             PROVE  i = j
  BY DEF Distinct
<1>0. Len(s) \in Nat \ {0} /\ i \in Nat /\ j \in Nat   BY EmptySeq, NextLevelNodes
<1>1. i \in 1 .. (Len(s) + 1) \div 2 /\ j \in 1 .. (Len(s) + 1) \div 2
  BY NextLevelNodes
<1>2. s[2 * i - 1] = s[2 * j - 1]
  <2>1. /\ s[2 * i - 1] \in Nat /\ RightOf(s, i) \in Nat
        /\ NextLevel(s)[i] = hash_fn(s[2 * i - 1], RightOf(s, i))
    BY <1>1, NextLevelNodes
  <2>2. /\ s[2 * j - 1] \in Nat /\ RightOf(s, j) \in Nat
        /\ NextLevel(s)[j] = hash_fn(s[2 * j - 1], RightOf(s, j))
    BY <1>1, NextLevelNodes
  <2> DEFINE a == s[2 * i - 1]
             b == RightOf(s, i)
             c == s[2 * j - 1]
             d == RightOf(s, j)
  <2>3. a \in Nat /\ b \in Nat /\ c \in Nat /\ d \in Nat /\ hash_fn(a, b) = hash_fn(c, d)
    BY <2>1, <2>2
  <2>4. a = c /\ b = d
    <3> HIDE DEF a, b, c, d
    <3> QED BY <2>3, HashApart
  <2> QED BY <2>4
<1>3. 2 * i - 1 = 2 * j - 1
  <2>1. 2 * i - 1 \in 1 .. Len(s) /\ 2 * j - 1 \in 1 .. Len(s)   BY <1>1, NextLevelNodes
  <2> QED BY <1>2, <2>1 DEF Distinct
<1> QED BY <1>0, <1>3

(* Two lists of nodes with one next level are one list: the node that an odd *)
(* number pairs with itself is told from one that has a partner.             *)
LEMMA NextLevelInjective ==
  ASSUME CollisionFree, NEW s \in Seq(Nat), NEW t \in Seq(Nat), s # <<>>, t # <<>>,
         Distinct(s), Distinct(t), NextLevel(s) = NextLevel(t)
  PROVE  s = t
<1> DEFINE m == (Len(s) + 1) \div 2
<1>0. Len(s) \in Nat \ {0} /\ Len(t) \in Nat \ {0}   BY EmptySeq
<1>1. m = (Len(t) + 1) \div 2   BY NextLevelNodes
<1>2. \A i \in 1 .. m : s[2 * i - 1] = t[2 * i - 1] /\ RightOf(s, i) = RightOf(t, i)
  <2> TAKE i \in 1 .. m
  <2>1. /\ s[2 * i - 1] \in Nat /\ RightOf(s, i) \in Nat
        /\ NextLevel(s)[i] = hash_fn(s[2 * i - 1], RightOf(s, i))
    BY NextLevelNodes
  <2>2. /\ t[2 * i - 1] \in Nat /\ RightOf(t, i) \in Nat
        /\ NextLevel(t)[i] = hash_fn(t[2 * i - 1], RightOf(t, i))
    BY <1>1, NextLevelNodes
  <2> DEFINE a == s[2 * i - 1]
             b == RightOf(s, i)
             c == t[2 * i - 1]
             d == RightOf(t, i)
  <2>3. a \in Nat /\ b \in Nat /\ c \in Nat /\ d \in Nat /\ hash_fn(a, b) = hash_fn(c, d)
    BY <2>1, <2>2
  <2>4. a = c /\ b = d
    <3> HIDE DEF a, b, c, d, m
    <3>1. FirstOf(hash_fn(a, b)) = a /\ SecondOf(hash_fn(a, b)) = b   BY <2>3, PartsOf
    <3>2. FirstOf(hash_fn(c, d)) = c /\ SecondOf(hash_fn(c, d)) = d   BY <2>3, PartsOf
    <3> QED BY <2>3, <3>1, <3>2
  <2> QED BY <2>4
<1>3. ~ (Len(s) < Len(t))
  <2> SUFFICES ASSUME Len(s) < Len(t) PROVE FALSE   OBVIOUS
  <2>0. m = (Len(s) + 1) \div 2 /\ m \in Nat /\ m = (Len(t) + 1) \div 2   BY <1>0, <1>1
  <2>1. Len(t) = 2 * m /\ Len(s) = 2 * m - 1 /\ m \in 1 .. m
    <3> HIDE DEF m
    <3> QED BY <1>0, <2>0, Halves
  <2>2. RightOf(t, m) = t[2 * m] /\ RightOf(s, m) = s[2 * m - 1]
    <3> HIDE DEF m
    <3>1. m \in Nat   BY <2>0
    <3>2. 2 * m <= Len(t) /\ ~ (2 * m <= Len(s))   BY <2>1, <3>1
    <3> QED BY <3>2, Zenon DEF RightOf
  <2>3. t[2 * m] = t[2 * m - 1]   BY <1>2, <2>1, <2>2
  <2>4. 2 * m \in 1 .. Len(t) /\ 2 * m - 1 \in 1 .. Len(t) /\ 2 * m # 2 * m - 1
    <3> HIDE DEF m
    <3>1. m \in Nat   BY <2>0
    <3> QED BY <2>1, <3>1
  <2> HIDE DEF m
  <2> QED BY <2>3, <2>4 DEF Distinct
<1>4. ~ (Len(t) < Len(s))
  <2> SUFFICES ASSUME Len(t) < Len(s) PROVE FALSE   OBVIOUS
  <2>0. m = (Len(s) + 1) \div 2 /\ m \in Nat /\ m = (Len(t) + 1) \div 2   BY <1>0, <1>1
  <2>1. Len(s) = 2 * m /\ Len(t) = 2 * m - 1 /\ m \in 1 .. m
    <3> HIDE DEF m
    <3> QED BY <1>0, <2>0, Halves
  <2>2. RightOf(s, m) = s[2 * m] /\ RightOf(t, m) = t[2 * m - 1]
    <3> HIDE DEF m
    <3>1. m \in Nat   BY <2>0
    <3>2. 2 * m <= Len(s) /\ ~ (2 * m <= Len(t))   BY <2>1, <3>1
    <3> QED BY <3>2, Zenon DEF RightOf
  <2>3. s[2 * m] = s[2 * m - 1]   BY <1>2, <2>1, <2>2
  <2>4. 2 * m \in 1 .. Len(s) /\ 2 * m - 1 \in 1 .. Len(s) /\ 2 * m # 2 * m - 1
    <3> HIDE DEF m
    <3>1. m \in Nat   BY <2>0
    <3> QED BY <2>1, <3>1
  <2> HIDE DEF m
  <2> QED BY <2>3, <2>4 DEF Distinct
<1>5. Len(s) = Len(t)   BY <1>0, <1>3, <1>4
<1>6. \A j \in 1 .. Len(s) : s[j] = t[j]
  <2> TAKE j \in 1 .. Len(s)
  <2> DEFINE i == (j + 1) \div 2
  <2>1. i \in 1 .. m   BY <1>0
  <2>a. i \in Nat /\ (j = 2 * i \/ j = 2 * i - 1)   BY <1>0
  <2> HIDE DEF i
  <2>2. CASE j = 2 * i - 1   BY <1>2, <2>1, <2>2
  <2>3. CASE j = 2 * i
    <3>1. RightOf(s, i) = s[j] /\ RightOf(t, i) = t[j]   BY <1>0, <1>5, <2>3 DEF RightOf
    <3> QED BY <1>2, <2>1, <3>1
  <2> QED BY <2>2, <2>3, <2>a
<1> QED BY <1>5, <1>6, SeqEqual

(* The lists of nodes that occur: not empty and without repetitions.         *)
Nodes == {s \in Seq(Nat) : s # <<>> /\ Distinct(s)}

\* A next level is a list of nodes.
LEMMA NextLevelOfNodes ==
  ASSUME CollisionFree, NEW s \in Nodes
  PROVE  NextLevel(s) \in Nodes
<1>1. NextLevel(s) \in Seq(Nat)   BY NextLevelNodes, SeqMonotonic DEF Nodes
<1> QED BY <1>1, NextLevelNodes, NextLevelApart DEF Nodes

\* The loop of _compute_root: each level is the next one of that below.
LEMMA LevelsDefined ==
  ASSUME CollisionFree, NEW s \in Nodes
  PROVE  /\ Levels(s) \in [0 .. Len(s) -> Nodes]
         /\ Levels(s)[0] = s
         /\ \A k \in 1 .. Len(s) : Levels(s)[k] = NextLevel(Levels(s)[k - 1])
<1> DEFINE N == Len(s)
           IsLevels(f) == f = [k \in 0 .. N |-> IF k = 0 THEN s ELSE NextLevel(f[k - 1])]
           step == [kx \in (1 .. N) \X Nodes |-> NextLevel(kx[2])]
<1>0. N \in Nat   BY LenProperties DEF Nodes
<1>1. step \in [(1 .. N) \X Nodes -> Nodes]   BY NextLevelOfNodes
<1>2. PICK f \in [0 .. N -> Nodes] : f[0] = s /\ \A k \in 1 .. N : f[k] = step[<<k, f[k - 1]>>]
  <2> HIDE DEF step, N
  <2>1. step \in Steps(N, Nodes)   BY <1>1 DEF Steps
  <2>2. \E f \in [0 .. N -> Nodes] : Iterates(f, s, step, N)   BY <1>0, <2>1, Recursion
  <2> QED BY <2>2 DEF Iterates
<1>3. \A k \in 1 .. N : f[k] = NextLevel(f[k - 1])
  <2> TAKE k \in 1 .. N
  <2>1. k - 1 \in 0 .. N   BY <1>0
  <2> HIDE DEF N
  <2>2. <<k, f[k - 1]>> \in (1 .. N) \X Nodes   BY <1>2, <2>1
  <2> QED BY <1>2, <2>2
<1> HIDE DEF step, N
<1>4. IsLevels(f)
  <2>1. \A k \in 0 .. N : f[k] = IF k = 0 THEN s ELSE NextLevel(f[k - 1])
    BY <1>0, <1>2, <1>3
  <2>2. f = [k \in 0 .. N |-> f[k]]   OBVIOUS
  <2> QED BY <2>1, <2>2
<1>5. ASSUME NEW g, IsLevels(g)
      PROVE  /\ g \in [0 .. N -> Nodes]
             /\ g[0] = s
             /\ \A k \in 1 .. N : g[k] = NextLevel(g[k - 1])
  <2>1. g[0] = s   BY <1>0, <1>5
  <2>2. \A k \in 1 .. N : g[k] = NextLevel(g[k - 1])
    <3> TAKE k \in 1 .. N
    <3>1. k \in 0 .. N /\ k # 0   BY <1>0
    <3> QED BY <1>5, <3>1
  <2>3. 0 .. N \subseteq {k \in 0 .. N : g[k] = f[k]}
    <3> DEFINE S == {k \in 0 .. N : g[k] = f[k]}
    <3>1. 0 \in S   BY <1>0, <1>2, <2>1
    <3>2. ASSUME NEW n \in 0 .. N - 1, n \in S PROVE n + 1 \in S
      <4>1. n + 1 \in 1 .. N /\ n + 1 - 1 = n /\ n + 1 \in 0 .. N   BY <1>0
      <4>2. g[n + 1] = NextLevel(g[n]) /\ f[n + 1] = NextLevel(f[n])   BY <1>3, <2>2, <4>1
      <4> QED BY <3>2, <4>1, <4>2
    <3>3. 0 .. N \subseteq S
      <4> HIDE DEF S
      <4> QED BY <1>0, <3>1, <3>2, UpTo
    <3> QED BY <3>3
  <2>4. \A k \in 0 .. N : g[k] = f[k]   BY <2>3
  <2>5. DOMAIN g = 0 .. N /\ g = [k \in 0 .. N |-> g[k]]
    <3>1. g = [k \in 0 .. N |-> IF k = 0 THEN s ELSE NextLevel(g[k - 1])]   BY <1>5
    <3> QED BY <3>1, Zenon
  <2>6. f = [k \in 0 .. N |-> f[k]]   OBVIOUS
  <2>7. g = f   BY <2>4, <2>5, <2>6
  <2> QED BY <2>1, <2>2, <2>7
<1>6. Levels(s) = CHOOSE g : IsLevels(g)   BY DEF Levels, N
<1>7. IsLevels(Levels(s))
  <2> HIDE DEF IsLevels
  <2> QED BY <1>4, <1>6
<1> HIDE DEF IsLevels
<1>8. N = Len(s)   BY DEF N
<1> QED BY <1>5, <1>7, <1>8

(* The values that verifyProof computes on its way along a proof.            *)
LEMMA CurrentDefined ==
  ASSUME CollisionFree, NEW e \in Nat, NEW p \in Seq(Nat)
  PROVE  \E c \in [0 .. Len(p) -> Nat] :
           /\ c[0] = e
           /\ \A k \in 1 .. Len(p) : p[k] \in Nat /\ c[k] = hash_ordered(c[k - 1], p[k])
           /\ \A r : verifyProof(e, p, r) <=> c[Len(p)] = r
<1> DEFINE N == Len(p)
           IsCurrent(f) ==
             f = [k \in 0 .. N |-> IF k = 0 THEN e ELSE hash_ordered(f[k - 1], p[k])]
           step == [kx \in (1 .. N) \X Nat |-> hash_ordered(kx[2], p[kx[1]])]
<1>0. N \in Nat /\ \A k \in 1 .. N : p[k] \in Nat   BY LenProperties, ElementOfSeq
<1> HIDE DEF N
<1>1. step \in Steps(N, Nat)
  <2> QED BY <1>0, HashOrdered DEF Steps
<1>2. PICK f \in [0 .. N -> Nat] : Iterates(f, e, step, N)
  <2> HIDE DEF step
  <2> QED BY <1>0, <1>1, Recursion
<1>3. f[0] = e /\ \A k \in 1 .. N : f[k] = hash_ordered(f[k - 1], p[k])
  <2>1. f[0] = e   BY <1>2 DEF Iterates
  <2>2. ASSUME NEW k \in 1 .. N PROVE f[k] = hash_ordered(f[k - 1], p[k])
    <3>1. f[k] = step[<<k, f[k - 1]>>]
      <4> HIDE DEF step
      <4> QED BY <1>2 DEF Iterates
    <3>2. k - 1 \in 0 .. N   BY <1>0
    <3>3. <<k, f[k - 1]>> \in (1 .. N) \X Nat   BY <1>2, <3>2
    <3> QED BY <3>1, <3>3
  <2> QED BY <2>1, <2>2
<1> HIDE DEF step
<1>4. IsCurrent(f)
  <2>1. \A k \in 0 .. N : f[k] = IF k = 0 THEN e ELSE hash_ordered(f[k - 1], p[k])
    BY <1>0, <1>3
  <2>2. f = [k \in 0 .. N |-> f[k]]   OBVIOUS
  <2> QED BY <2>1, <2>2
<1> DEFINE c == CHOOSE g : IsCurrent(g)
<1>5. IsCurrent(c)
  <2> HIDE DEF IsCurrent
  <2> QED BY <1>4
<1>6. \A r : verifyProof(e, p, r) <=> c[N] = r   BY DEF verifyProof, N
<1> HIDE DEF c
<1>7. c[0] = e /\ DOMAIN c = 0 .. N   BY <1>0, <1>5
<1>8. \A k \in 1 .. N : c[k] = hash_ordered(c[k - 1], p[k])
  <2> TAKE k \in 1 .. N
  <2>1. k \in 0 .. N /\ k # 0   BY <1>0
  <2> QED BY <1>5, <2>1
<1>9. \A k \in 0 .. N : c[k] \in Nat
  <2> DEFINE S == {k \in 0 .. N : c[k] \in Nat}
  <2>1. 0 \in S   BY <1>0, <1>7
  <2>2. ASSUME NEW n \in 0 .. N - 1, n \in S PROVE n + 1 \in S
    <3>1. n + 1 \in 1 .. N /\ n + 1 - 1 = n /\ n + 1 \in 0 .. N   BY <1>0
    <3>2. c[n + 1] = hash_ordered(c[n], p[n + 1]) /\ p[n + 1] \in Nat   BY <1>0, <1>8, <3>1
    <3>3. c[n] \in Nat   BY <2>2
    <3>4. c[n + 1] \in Nat
      <4> HIDE DEF S
      <4> QED BY <3>2, <3>3, HashOrdered
    <3> QED BY <3>1, <3>4
  <2>3. 0 .. N \subseteq S
    <3> HIDE DEF S
    <3> QED BY <1>0, <2>1, <2>2, UpTo
  <2> QED BY <2>3
<1>10. c \in [0 .. N -> Nat]
  <2>1. c = [k \in 0 .. N |-> IF k = 0 THEN e ELSE hash_ordered(c[k - 1], p[k])]   BY <1>5
  <2>2. c = [k \in 0 .. N |-> c[k]]   BY <2>1, Zenon
  <2> QED BY <1>9, <2>2
<1> QED BY <1>0, <1>6, <1>7, <1>8, <1>10 DEF N

(* The loop over the levels ends, and at a level of one node.                *)
LEMMA HeightDefined ==
  ASSUME CollisionFree, NEW s \in Nodes
  PROVE  /\ Height(s) \in 0 .. Len(s)
         /\ Len(Levels(s)[Height(s)]) = 1
<1> DEFINE N == Len(s)
           level == Levels(s)
           S == {k \in 0 .. N : Len(level[k]) = 1 \/ Len(level[k]) + k <= N}
<1>0. N \in Nat \ {0}   BY EmptySeq DEF Nodes
<1>1. /\ level \in [0 .. N -> Nodes]
      /\ level[0] = s
      /\ \A k \in 1 .. N : level[k] = NextLevel(level[k - 1])
  BY LevelsDefined
<1> HIDE DEF level
<1>2. 0 \in S   BY <1>0, <1>1
<1>3. ASSUME NEW n \in 0 .. N - 1, n \in S PROVE n + 1 \in S
  <2>1. n + 1 \in 1 .. N /\ n + 1 - 1 = n /\ n \in 0 .. N /\ n + 1 \in 0 .. N   BY <1>0
  <2>2. level[n] \in Nodes /\ level[n + 1] = NextLevel(level[n])   BY <1>1, <2>1
  <2>3. level[n] \in Seq(Nat) /\ level[n] # <<>>   BY <2>2 DEF Nodes
  <2>4. Len(level[n]) \in Nat \ {0} /\ Len(level[n + 1]) = (Len(level[n]) + 1) \div 2
    BY <2>2, <2>3, NextLevelNodes, EmptySeq
  <2>5. CASE Len(level[n]) = 1
    <3>1. Len(level[n + 1]) = 1   BY <2>4, <2>5
    <3> QED BY <2>1, <3>1
  <2>6. CASE Len(level[n]) # 1
    <3> DEFINE a == Len(level[n])
    <3>0. Len(level[n]) + n <= N   BY <1>3, <2>6
    <3>a. a \in Nat \ {0} /\ a # 1 /\ a + n <= N   BY <3>0, <2>4, <2>6
    <3>1. a + n <= N /\ a \in Nat /\ a >= 2
      <4> HIDE DEF a
      <4> QED BY <3>a
    <3>2. (a + 1) \div 2 + (n + 1) <= N
      <4> HIDE DEF a, N
      <4>1. (a + 1) \div 2 <= a - 1   BY <3>1
      <4>2. (a + 1) \div 2 \in Nat /\ n \in Nat   BY <3>1
      <4> QED BY <1>0, <3>1, <4>1, <4>2
    <3> QED BY <2>1, <2>4, <3>2
  <2> QED BY <2>5, <2>6
<1>4. 0 .. N \subseteq S
  <2> HIDE DEF S
  <2> QED BY <1>0, <1>2, <1>3, UpTo
<1>5. Len(level[N]) = 1
  <2>1. N \in 0 .. N /\ N \in S   BY <1>0, <1>4
  <2>2. level[N] \in Seq(Nat) /\ level[N] # <<>>   BY <1>1, <2>1 DEF Nodes
  <2>3. Len(level[N]) \in Nat \ {0}   BY <2>2, EmptySeq
  <2> QED BY <1>0, <2>1, <2>3
<1> DEFINE T == {k \in 0 .. N : Len(level[k]) = 1}
<1>6. T \subseteq Nat /\ T # {}   BY <1>0, <1>5
<1>7. PICK k \in T : \A j \in T : k <= j
  <2> HIDE DEF T
  <2> QED BY <1>6, LeastOf
<1>8. /\ k \in 0 .. N
      /\ Len(level[k]) = 1
      /\ \A j \in 0 .. k - 1 : Len(level[j]) # 1
  <2>1. \A j \in 0 .. k - 1 : j \in 0 .. N /\ ~ (k <= j)   BY <1>0, <1>7
  <2> QED BY <1>7, <2>1
<1> QED BY <1>8 DEF Height, level

\* A node above the leaves is a digest of two nodes of the level below.
LEMMA LevelsOfDigests ==
  ASSUME CollisionFree, NEW s \in Nodes, NEW k \in 1 .. Len(s)
  PROVE  /\ k - 1 \in 0 .. Len(s)
         /\ Levels(s)[k - 1] \in Nodes
         /\ Levels(s)[k] = NextLevel(Levels(s)[k - 1])
         /\ \A i \in 1 .. Len(Levels(s)[k]) :
              /\ Levels(s)[k][i] \in Nat
              /\ \E a, b \in 1 .. Len(Levels(s)[k - 1]) :
                   /\ Levels(s)[k - 1][a] \in Nat
                   /\ Levels(s)[k - 1][b] \in Nat
                   /\ Levels(s)[k][i] = hash_fn(Levels(s)[k - 1][a], Levels(s)[k - 1][b])
<1> DEFINE below == Levels(s)[k - 1]
<1>0. Len(s) \in Nat   BY LenProperties DEF Nodes
<1>1. k - 1 \in 0 .. Len(s)   BY <1>0
<1>2. below \in Nodes /\ Levels(s)[k] = NextLevel(below)   BY <1>1, LevelsDefined
<1> HIDE DEF below
<1>3. ASSUME NEW i \in 1 .. Len(NextLevel(below))
      PROVE  /\ NextLevel(below)[i] \in Nat
             /\ \E a, b \in 1 .. Len(below) :
                  /\ below[a] \in Nat /\ below[b] \in Nat
                  /\ NextLevel(below)[i] = hash_fn(below[a], below[b])
  <2>0. below \in Seq(Nat) /\ below # <<>>   BY <1>2 DEF Nodes
  <2>1. NextLevel(below) \in Seq(Nat)   BY <2>0, NextLevelNodes
  <2>2. NextLevel(below)[i] \in Nat   BY <2>1, ElementOfSeq
  <2>3. /\ i \in 1 .. (Len(below) + 1) \div 2
        /\ 2 * i - 1 \in 1 .. Len(below)
        /\ below[2 * i - 1] \in Nat
        /\ RightOf(below, i) \in Nat
        /\ NextLevel(below)[i] = hash_fn(below[2 * i - 1], RightOf(below, i))
    BY <2>0, NextLevelNodes
  <2>4. \E b \in 1 .. Len(below) : RightOf(below, i) = below[b]
    <3>1. Len(below) \in Nat   BY <2>0, LenProperties
    <3>2. CASE 2 * i <= Len(below)
      <4>1. 2 * i \in 1 .. Len(below)   BY <2>3, <3>1, <3>2
      <4> QED BY <3>2, <4>1 DEF RightOf
    <3>3. CASE ~ (2 * i <= Len(below))   BY <2>3, <3>3 DEF RightOf
    <3> QED BY <3>2, <3>3
  <2>5. PICK b \in 1 .. Len(below) : RightOf(below, i) = below[b]   BY <2>4
  <2> DEFINE a == 2 * i - 1
  <2>6. /\ a \in 1 .. Len(below) /\ below[a] \in Nat /\ below[b] \in Nat
        /\ NextLevel(below)[i] = hash_fn(below[a], below[b])
    BY <2>3, <2>5
  <2> HIDE DEF a
  <2> QED BY <2>2, <2>6
<1> QED BY <1>1, <1>2, <1>3 DEF below

(* Two trees of one height with one root have equal levels, counted from the *)
(* top.                                                                      *)
LEMMA RootInjective ==
  ASSUME CollisionFree, NEW s \in Nodes, NEW t \in Nodes,
         Height(s) = Height(t), RootOf(s) = RootOf(t)
  PROVE  s = t
<1> DEFINE hs == Height(s)
           ht == Height(t)
           m == hs
           S == {k \in 0 .. m : Levels(s)[hs - k] = Levels(t)[ht - k]}
<1>1. /\ hs \in 0 .. Len(s) /\ Len(Levels(s)[hs]) = 1
      /\ ht \in 0 .. Len(t) /\ Len(Levels(t)[ht]) = 1
  BY HeightDefined
<1>2. Len(s) \in Nat /\ Len(t) \in Nat   BY LenProperties DEF Nodes
<1>3. Levels(s)[hs] = Levels(t)[ht]
  <2>1. Levels(s)[hs][1] = Levels(t)[ht][1]   BY EmptySeq DEF RootOf, Nodes
  <2>2. Levels(s)[hs] \in Seq(Nat) /\ Levels(t)[ht] \in Seq(Nat)
    <3>1. Levels(s)[hs] \in Nodes /\ Levels(t)[ht] \in Nodes   BY <1>1, LevelsDefined
    <3> QED BY <3>1 DEF Nodes
  <2>3. \A i \in 1 .. 1 : i = 1   OBVIOUS
  <2> QED BY <1>1, <2>1, <2>2, <2>3, SeqEqual
<1>4. m \in Nat /\ hs \in Nat /\ ht \in Nat /\ m = hs /\ m = ht   BY <1>1
<1>5. 0 \in S
  <2>1. hs - 0 = hs /\ ht - 0 = ht /\ 0 \in 0 .. m   BY <1>4
  <2> QED BY <1>3, <2>1
<1>6. ASSUME NEW n \in 0 .. m - 1, n \in S PROVE n + 1 \in S
  <2> DEFINE i == hs - n
             j == ht - n
  <2>1. /\ i \in 1 .. Len(s) /\ j \in 1 .. Len(t) /\ n + 1 \in 0 .. m
        /\ hs - (n + 1) = i - 1 /\ ht - (n + 1) = j - 1
    BY <1>1, <1>2, <1>4
  <2>2. Levels(s)[i] = Levels(t)[j]   BY <1>6
  <2> HIDE DEF i, j
  <2>3. /\ Levels(s)[i - 1] \in Nodes /\ Levels(s)[i] = NextLevel(Levels(s)[i - 1])
        /\ Levels(t)[j - 1] \in Nodes /\ Levels(t)[j] = NextLevel(Levels(t)[j - 1])
    BY <2>1, LevelsOfDigests
  <2>4. Levels(s)[i - 1] = Levels(t)[j - 1]
    BY <2>2, <2>3, NextLevelInjective DEF Nodes
  <2> QED BY <2>1, <2>4
<1>7. Levels(s)[hs - m] = Levels(t)[ht - m]
  <2>1. 0 .. m \subseteq S
    <3> HIDE DEF S, m
    <3> QED BY <1>4, <1>5, <1>6, UpTo
  <2>2. m \in S
    <3> HIDE DEF S, m
    <3> QED BY <1>4, <2>1
  <2> QED BY <2>2
<1>8. Levels(s)[0] = s /\ Levels(t)[0] = t   BY LevelsDefined
<1>9. hs - m = 0 /\ ht - m = 0   BY <1>4
<1> QED BY <1>7, <1>8, <1>9

(* A path that ends at the root runs through the levels of the tree from the *)
(* top down, and so begins at the level that its length says.                *)
LEMMA VerifiedIsNode ==
  ASSUME CollisionFree, NEW s \in Nodes, NEW e \in Nat, NEW p \in Seq(Nat),
         verifyProof(e, p, RootOf(s)), Len(p) <= Height(s)
  PROVE  Contains(Levels(s)[Height(s) - Len(p)], e)
<1> DEFINE h == Height(s)
           n == Len(p)
           m == n
<1>1. PICK c \in [0 .. n -> Nat] :
        /\ c[0] = e
        /\ \A k \in 1 .. n : p[k] \in Nat /\ c[k] = hash_ordered(c[k - 1], p[k])
        /\ \A r : verifyProof(e, p, r) <=> c[n] = r
  BY CurrentDefined
<1>2. h \in 0 .. Len(s) /\ Len(Levels(s)[h]) = 1 /\ Levels(s)[0] = s
  BY HeightDefined, LevelsDefined
<1>3. Len(s) \in Nat /\ n \in Nat   BY LenProperties DEF Nodes
<1>4. c[n] = Levels(s)[h][1]
  <2>1. c[n] = RootOf(s)   BY <1>1
  <2> QED BY <2>1 DEF RootOf, Nodes
<1>5. m \in Nat /\ h \in Nat /\ m <= h /\ m <= n   BY <1>2, <1>3
<1> DEFINE S == {k \in 0 .. m : \E i \in 1 .. Len(Levels(s)[h - k]) : c[n - k] = Levels(s)[h - k][i]}
<1>6. 0 \in S
  <2>1. h - 0 = h /\ n - 0 = n /\ 0 \in 0 .. m   BY <1>3, <1>5
  <2>2. 1 \in 1 .. Len(Levels(s)[h])   BY <1>2
  <2> QED BY <1>4, <2>1, <2>2
<1>7. ASSUME NEW k \in 0 .. m - 1, k \in S PROVE k + 1 \in S
  <2> DEFINE i == h - k
             j == n - k
  <2>1. /\ i \in 1 .. Len(s) /\ j \in 1 .. n /\ k + 1 \in 0 .. m
        /\ h - (k + 1) = i - 1 /\ n - (k + 1) = j - 1
    BY <1>2, <1>3, <1>5
  <2>2. PICK x \in 1 .. Len(Levels(s)[i]) : c[j] = Levels(s)[i][x]   BY <1>7
  <2>3. j - 1 \in 0 .. n   BY <1>3, <2>1
  <2> HIDE DEF i, j, n, h, m
  <2>4. PICK a \in 1 .. Len(Levels(s)[i - 1]), b \in 1 .. Len(Levels(s)[i - 1]) :
          /\ Levels(s)[i - 1][a] \in Nat
          /\ Levels(s)[i - 1][b] \in Nat
          /\ Levels(s)[i][x] = hash_fn(Levels(s)[i - 1][a], Levels(s)[i - 1][b])
    <3>1. PICK l \in 1 .. Len(s) : l = i   BY <2>1
    <3>2. x \in 1 .. Len(Levels(s)[l])   BY <3>1
    <3>3. \E a \in 1 .. Len(Levels(s)[l - 1]), b \in 1 .. Len(Levels(s)[l - 1]) :
            /\ Levels(s)[l - 1][a] \in Nat
            /\ Levels(s)[l - 1][b] \in Nat
            /\ Levels(s)[l][x] = hash_fn(Levels(s)[l - 1][a], Levels(s)[l - 1][b])
      BY <3>2, LevelsOfDigests
    <3> QED BY <3>1, <3>3
  <2>5. c[j - 1] \in Nat /\ p[j] \in Nat /\ c[j] = hash_ordered(c[j - 1], p[j])
    BY <1>1, <2>1, <2>3
  <2>6. c[j - 1] = Levels(s)[i - 1][a] \/ c[j - 1] = Levels(s)[i - 1][b]
    BY <2>2, <2>4, <2>5, HashOrdered
  <2> QED BY <2>1, <2>6
<1>8. PICK i \in 1 .. Len(Levels(s)[h - m]) : c[n - m] = Levels(s)[h - m][i]
  <2>1. 0 .. m \subseteq S
    <3> HIDE DEF S, m
    <3> QED BY <1>5, <1>6, <1>7, UpTo
  <2>2. m \in S
    <3> HIDE DEF S, m
    <3> QED BY <1>5, <2>1
  <2> QED BY <2>2
<1>9. n - m = 0 /\ h - m = h - n   BY <1>3
<1>10. c[0] = Levels(s)[h - n][i] /\ i \in 1 .. Len(Levels(s)[h - n])   BY <1>8, <1>9
<1> QED BY <1>1, <1>10 DEF Contains

(* The number of the node above, level by level.                             *)
LEMMA SiblingsAreNodes ==
  ASSUME CollisionFree, NEW s \in Nodes, NEW index \in 1 .. Len(s)
  PROVE  Siblings(s, index) \in Seq(Nat)
<1> DEFINE N == Len(s)
           X == Nat \ {0}
           IsPosition(f) == f = [k \in 0 .. N |-> IF k = 0 THEN index ELSE (f[k - 1] + 1) \div 2]
           step == [kx \in (1 .. N) \X X |-> (kx[2] + 1) \div 2]
           SiblingOf(level, i) ==
             IF i % 2 = 1 THEN RightOf(level, (i + 1) \div 2) ELSE level[i - 1]
           position == CHOOSE f : IsPosition(f)
<1>0. N \in Nat \ {0}   BY EmptySeq DEF Nodes
<1>1. step \in Steps(N, X)
  <2>1. \A x \in X : (x + 1) \div 2 \in X   OBVIOUS
  <2> QED BY <2>1 DEF Steps
<1>2. PICK f \in [0 .. N -> X] : Iterates(f, index, step, N)
  <2>1. index \in X   OBVIOUS
  <2> HIDE DEF step, N, X
  <2> QED BY <1>0, <1>1, <2>1, Recursion
<1>3. IsPosition(f)
  <2>1. f[0] = index   BY <1>2 DEF Iterates
  <2>2. ASSUME NEW k \in 1 .. N PROVE f[k] = (f[k - 1] + 1) \div 2
    <3>1. f[k] = step[<<k, f[k - 1]>>]
      <4> HIDE DEF step
      <4> QED BY <1>2 DEF Iterates
    <3>2. k - 1 \in 0 .. N   BY <1>0
    <3> HIDE DEF N, X
    <3>3. <<k, f[k - 1]>> \in (1 .. N) \X X   BY <1>2, <3>2
    <3> QED BY <3>1, <3>3
  <2> HIDE DEF step, N
  <2>3. \A k \in 0 .. N : f[k] = IF k = 0 THEN index ELSE (f[k - 1] + 1) \div 2
    BY <1>0, <2>1, <2>2
  <2>4. f = [k \in 0 .. N |-> f[k]]   OBVIOUS
  <2> QED BY <2>3, <2>4
<1>4. IsPosition(position)
  <2> HIDE DEF IsPosition
  <2> QED BY <1>3
<1>5. Siblings(s, index) =
        [k \in 1 .. Height(s) |-> SiblingOf(Levels(s)[k - 1], position[k - 1])]
  BY DEF Siblings
<1> HIDE DEF position, step
<1>6. \A k \in 0 .. N : position[k] \in 1 .. Len(Levels(s)[k])
  <2> DEFINE S == {k \in 0 .. N : position[k] \in 1 .. Len(Levels(s)[k])}
  <2>1. 0 \in S   BY <1>0, <1>4, LevelsDefined
  <2>2. ASSUME NEW n \in 0 .. N - 1, n \in S PROVE n + 1 \in S
    <3>1. n + 1 \in 1 .. N /\ n + 1 - 1 = n /\ n + 1 \in 0 .. N /\ n + 1 # 0   BY <1>0
    <3>2. position[n + 1] = (position[n] + 1) \div 2   BY <1>4, <3>1
    <3>3. Levels(s)[n] \in Nodes /\ Levels(s)[n + 1] = NextLevel(Levels(s)[n])
      <4> DEFINE k == n + 1
      <4>1. Levels(s)[k - 1] \in Nodes /\ Levels(s)[k] = NextLevel(Levels(s)[k - 1])
        <5> HIDE DEF k
        <5>1. k \in 1 .. Len(s)   BY <3>1 DEF k
        <5> QED BY <5>1, LevelsOfDigests
      <4> QED BY <3>1, <4>1
    <3>4. Len(Levels(s)[n + 1]) = (Len(Levels(s)[n]) + 1) \div 2 /\ Len(Levels(s)[n]) \in Nat
      BY <3>3, NextLevelNodes, LenProperties DEF Nodes
    <3>5. position[n] \in 1 .. Len(Levels(s)[n])   BY <2>2
    <3>6. \A a, b \in Nat : a \in 1 .. b => (a + 1) \div 2 \in 1 .. (b + 1) \div 2   OBVIOUS
    <3>7. position[n] \in Nat   BY <3>5
    <3> QED BY <3>1, <3>2, <3>4, <3>5, <3>6, <3>7
  <2>3. 0 .. N \subseteq S
    <3> HIDE DEF S
    <3> QED BY <1>0, <2>1, <2>2, UpTo
  <2> QED BY <2>3
<1>7. ASSUME NEW k \in 1 .. Height(s)
      PROVE  SiblingOf(Levels(s)[k - 1], position[k - 1]) \in Nat
  <2> DEFINE level == Levels(s)[k - 1]
             i == position[k - 1]
  <2>1. k - 1 \in 0 .. N
    <3>1. Height(s) \in 0 .. N   BY HeightDefined
    <3> QED BY <1>0, <3>1
  <2>2. level \in Nodes   BY <2>1, LevelsDefined
  <2>3. level \in Seq(Nat) /\ level # <<>> /\ Len(level) \in Nat   BY <2>2, LenProperties DEF Nodes
  <2>4. i \in 1 .. Len(level)   BY <1>6, <2>1
  <2> HIDE DEF level, i
  <2>5. CASE i % 2 = 1
    <3>1. (i + 1) \div 2 \in 1 .. (Len(level) + 1) \div 2   BY <2>3, <2>4
    <3>2. RightOf(level, (i + 1) \div 2) \in Nat   BY <2>3, <3>1, NextLevelNodes
    <3> QED BY <2>5, <3>2 DEF level, i
  <2>6. CASE i % 2 # 1
    <3>1. i - 1 \in 1 .. Len(level)   BY <2>3, <2>4, <2>6
    <3>2. level[i - 1] \in Nat   BY <2>3, <3>1, ElementOfSeq
    <3> QED BY <2>6, <3>2 DEF level, i
  <2> QED BY <2>5, <2>6
<1>8. Height(s) \in Nat   BY <1>0, HeightDefined
<1> DEFINE sibling == [k \in 1 .. Height(s) |-> SiblingOf(Levels(s)[k - 1], position[k - 1])]
<1> HIDE DEF SiblingOf
<1>9. sibling \in Seq(Nat)   BY <1>7, <1>8
<1> QED BY <1>5, <1>9

\* del takes one member out and leaves the others, once each.
LEMMA Removed ==
  ASSUME NEW s \in Seq(Elements), Distinct(s), NEW i \in 1 .. Len(s)
  PROVE  RemoveAt(s, i) \in Seq(Elements) /\ Distinct(RemoveAt(s, i))
<1> DEFINE n == Len(s)
           r == [j \in 1 .. n - 1 |-> IF j < i THEN s[j] ELSE s[j + 1]]
<1>0. n \in Nat /\ i \in Nat /\ \A j \in 1 .. n : s[j] \in Elements
  BY LenProperties, ElementOfSeq
<1>1. RemoveAt(s, i) = r
  <2> DEFINE a == SubSeq(s, 1, i - 1)
             b == SubSeq(s, i + 1, n)
  <2>1. a \in Seq(Elements) /\ Len(a) = i - 1 /\ \A j \in 1 .. i - 1 : a[j] = s[j]
    OBVIOUS
  <2>2. b \in Seq(Elements) /\ Len(b) = n - i /\ \A j \in 1 .. n - i : b[j] = s[j + i]
    OBVIOUS
  <2>3. RemoveAt(s, i) = a \o b   BY DEF RemoveAt
  <2> HIDE DEF a, b
  <2>4. /\ a \o b \in Seq(Elements) /\ Len(a \o b) = n - 1
        /\ \A j \in 1 .. n - 1 : (a \o b)[j] = IF j <= i - 1 THEN a[j] ELSE b[j - (i - 1)]
    BY <1>0, <2>1, <2>2, ConcatProperties
  <2>5. \A j \in 1 .. n - 1 : (a \o b)[j] = r[j]
    <3> TAKE j \in 1 .. n - 1
    <3>1. CASE j < i   BY <1>0, <2>1, <2>4, <3>1
    <3>2. CASE ~ (j < i)
      <4>1. j - (i - 1) \in 1 .. n - i /\ j - (i - 1) + i = j + 1 /\ ~ (j <= i - 1)
        BY <1>0, <3>2
      <4> QED BY <2>2, <2>4, <3>2, <4>1
    <3> QED BY <3>1, <3>2
  <2>6. r \in Seq(Elements) /\ Len(r) = n - 1
    <3>1. \A j \in 1 .. n - 1 : j \in 1 .. n /\ j + 1 \in 1 .. n   BY <1>0
    <3> QED BY <1>0, <3>1
  <2> HIDE DEF r
  <2> QED BY <2>3, <2>4, <2>5, <2>6, SeqEqual
<1>2. \A j \in 1 .. n - 1 : j \in 1 .. n /\ j + 1 \in 1 .. n   BY <1>0
<1>3. r \in Seq(Elements) /\ Len(r) = n - 1   BY <1>0, <1>2
<1>4. Distinct(r)
  <2> SUFFICES ASSUME NEW j \in 1 .. n - 1, NEW k \in 1 .. n - 1, r[j] = r[k]
               PROVE  j = k
    BY <1>3 DEF Distinct
  <2> DEFINE jj == IF j < i THEN j ELSE j + 1
             kk == IF k < i THEN k ELSE k + 1
  <2>1. s[jj] = s[kk]   OBVIOUS
  <2>2. jj \in 1 .. n /\ kk \in 1 .. n   BY <1>2
  <2>3. jj = kk
    <3> HIDE DEF jj, kk
    <3> QED BY <2>1, <2>2 DEF Distinct
  <2> QED BY <1>0, <2>3
<1> QED BY <1>1, <1>3, <1>4

\* A new member is added behind the others, once.
LEMMA Added ==
  ASSUME NEW s \in Seq(Elements), Distinct(s), NEW e \in Elements, ~ Contains(s, e)
  PROVE  Append(s, e) \in Seq(Elements) /\ Distinct(Append(s, e))
<1>1. /\ Append(s, e) \in Seq(Elements) /\ Len(Append(s, e)) = Len(s) + 1 /\ Len(s) \in Nat
      /\ \A j \in 1 .. Len(s) + 1 : Append(s, e)[j] = IF j <= Len(s) THEN s[j] ELSE e
  BY LenProperties
<1>2. \A j \in 1 .. Len(s) : s[j] # e   BY DEF Contains
<1>3. ASSUME NEW j \in 1 .. Len(s) + 1, NEW k \in 1 .. Len(s) + 1,
             Append(s, e)[j] = Append(s, e)[k]
      PROVE  j = k
  <2>1. j \in 1 .. Len(s) \/ j = Len(s) + 1   BY <1>1
  <2>2. k \in 1 .. Len(s) \/ k = Len(s) + 1   BY <1>1
  <2>3. CASE j \in 1 .. Len(s) /\ k \in 1 .. Len(s)   BY <1>1, <1>3, <2>3 DEF Distinct
  <2>4. CASE j \in 1 .. Len(s) /\ k = Len(s) + 1   BY <1>1, <1>2, <1>3, <2>4
  <2>5. CASE k \in 1 .. Len(s) /\ j = Len(s) + 1   BY <1>1, <1>2, <1>3, <2>5
  <2> QED BY <2>1, <2>2, <2>3, <2>4, <2>5
<1> QED BY <1>1, <1>3 DEF Distinct

(* The members without repetitions, the root the one of the members, and of  *)
(* every proof given away the root and the siblings those of its members.    *)
AccumulatorIInv ==
  /\ leaves \in Seq(Elements) /\ Distinct(leaves)
  /\ root = RootOf(leaves)
  /\ \A p \in proofs :
       /\ p.members \in Seq(Elements) /\ p.members \in Nodes
       /\ p.root = RootOf(p.members)
       /\ p.proof \in Seq(Nat)

\* Members are nodes.
LEMMA MembersAreNodes ==
  ASSUME NEW s \in Seq(Elements), Distinct(s), s # <<>>
  PROVE  s \in Nodes
BY MerkleAssumption, SeqMonotonic DEF Nodes, MerkleAssumption

\* Every operation keeps the invariant.
LEMMA AccumulatorStep ==
  ASSUME CollisionFree, AccumulatorIInv, [AccumulatorNext]_accumulator
  PROVE  AccumulatorIInv'
<1>1. ASSUME NEW e \in Elements, add(e) PROVE AccumulatorIInv'
  BY <1>1, Added DEF AccumulatorIInv, add
<1>2. ASSUME NEW e \in Elements, remove(e) PROVE AccumulatorIInv'
  BY <1>2, Removed DEF AccumulatorIInv, remove
<1>3. ASSUME NEW e \in Elements, generateProof(e) PROVE AccumulatorIInv'
  <2>1. leaves' = leaves /\ root' = root   BY <1>3 DEF generateProof
  <2>2. SUFFICES ASSUME NEW p \in proofs', p \notin proofs
                 PROVE  /\ p.members \in Seq(Elements) /\ p.members \in Nodes
                        /\ p.root = RootOf(p.members)
                        /\ p.proof \in Seq(Nat)
    BY <2>1 DEF AccumulatorIInv
  <2>3. PICK index \in 1 .. Len(leaves) :
          p = [element |-> e, proof |-> Siblings(leaves, index), root |-> root,
               members |-> leaves]
    BY <1>3, <2>2 DEF generateProof
  <2>4. leaves # <<>>   BY <2>3, EmptySeq DEF AccumulatorIInv
  <2>5. leaves \in Nodes   BY <2>4, MembersAreNodes DEF AccumulatorIInv
  <2>6. Siblings(leaves, index) \in Seq(Nat)   BY <2>5, SiblingsAreNodes
  <2> QED BY <2>3, <2>5, <2>6 DEF AccumulatorIInv
<1>4. CASE UNCHANGED accumulator   BY <1>4 DEF accumulator, AccumulatorIInv
<1> QED BY <1>1, <1>2, <1>3, <1>4 DEF AccumulatorNext

\* Under the invariant a root stands for its members among trees of a height.
LEMMA RootCommitsInv ==
  ASSUME CollisionFree, AccumulatorIInv PROVE RootCommits
BY RootInjective DEF AccumulatorIInv, RootCommits

\* Under the invariant only nodes of the level are accepted.
LEMMA NoFalseMemberInv ==
  ASSUME CollisionFree, AccumulatorIInv PROVE NoFalseMember
BY VerifiedIsNode, MerkleAssumption DEF AccumulatorIInv, NoFalseMember, MerkleAssumption

\* rsp.py keeps root and members of the accumulator together.
THEOREM AccumulatorInvariant ==
  ASSUME CollisionFree PROVE AccumulatorSpec => []AccumulatorIInv
<1>1. AccumulatorInit => AccumulatorIInv   BY EmptySeq DEF AccumulatorInit, AccumulatorIInv, RootOf, Distinct
<1>2. AccumulatorIInv /\ [AccumulatorNext]_accumulator => AccumulatorIInv'   BY AccumulatorStep
<1> QED BY <1>1, <1>2, PTL DEF AccumulatorSpec

\* A root of _compute_root stands for one list of members among those of its
\* height, of any number and with any history.
THEOREM RootsCommit ==
  ASSUME CollisionFree PROVE AccumulatorSpec => []RootCommits
<1>1. AccumulatorIInv => RootCommits   BY RootCommitsInv
<1> QED BY <1>1, AccumulatorInvariant, PTL

\* verifyProof accepts an element only under the roots of trees in which it is
\* a node, at the level the length of the proof names, whatever the proof was
\* generated for.
THEOREM NoFalseMembers ==
  ASSUME CollisionFree PROVE AccumulatorSpec => []NoFalseMember
<1>1. AccumulatorIInv => NoFalseMember   BY NoFalseMemberInv
<1> QED BY <1>1, AccumulatorInvariant, PTL
=============================================================================
