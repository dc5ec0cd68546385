------------------------------- MODULE SmDpp -------------------------------
(***************************************************************************)
(* The SM-DP+ of osmo-smdpp.py: the session store rss and the five ES9+    *)
(* handlers that read and write it, with the eUICCs and LPAs that call     *)
(* them as an environment.                                                 *)
(*                                                                         *)
(* Klein runs each handler to completion on one thread, so a handler is    *)
(* one step.  rss is a shelve: rss[t] yields a copy, and what a handler    *)
(* assigns to its copy is lost unless it stores the copy back.  A handler  *)
(* that raises before its last store therefore leaves exactly what it had  *)
(* stored before.                                                          *)
(*                                                                         *)
(* Signatures are terms.  An eUICC response is a record that names its     *)
(* signer and what the signature covers; the SM-DP+'s smdpSignature2 is    *)
(* the record [over, nonce] (ECDSA signatures are randomised, so signing   *)
(* the same thing twice gives two signatures).  Requests and replies are   *)
(* sets that only grow: a message may be lost, delayed, reordered, or, by  *)
(* an LPA that retries, delivered again.                                   *)
(***************************************************************************)
EXTENDS Naturals

CONSTANTS
  Euiccs,         \* the eUICCs
  Card,           \* what each eUICC holds, see CardType
  MatchingIds,    \* names under which a UPP file may lie in upp_dir
  Versions,       \* contents a UPP file may have (their ICCIDs)
  CiPkids,        \* key identifiers of certificate issuers
  ServerCis,      \* the issuers whose certificates the SM-DP+ has loaded
  DpAuthCi,       \* the issuer of CERT.DPauth, its authority key identifier
  Expiries,       \* expiry times of authorisation tokens
  FIXED_EXPIRY,   \* the one the SM-DP+ puts into a session
  ZkMode,         \* option --zk
  DigitOnlyTids,  \* transactions whose hexadecimal id has no letter in it
  Misrouting,     \* may a response be delivered under another session's id,
                  \* and a reply to another client
  None,           \* Python's None
  MaxTid,         \* bound: sessions opened
  MaxFresh,       \* bound: signatures and one-time keys generated
  MaxRestarts,    \* bound: restarts of the SM-DP+
  MaxUppChanges   \* bound: changes of UPP files by the operator

Tids == 1 .. MaxTid

Pids == Euiccs

CredType == [h_pid : Pids, h_cert : Euiccs]
TokType == [h_pid : Pids, h_cert : Euiccs, expiry : Expiries]
BundleType ==
  [hpid : Pids, sigCred : CredType, authToken : TokType, accRoot : Pids,
   sigRoot : Pids, accProofRoot : Pids]

CardType ==
  [forSigning : SUBSET CiPkids, forVerification : SUBSET CiPkids,
   eumCi : CiPkids, chain : {"ok", "VerifyError", "InvalidSignature"},
   keyMatches : BOOLEAN, elig : BundleType \cup {None}]

ASSUME SmDppAssumption ==
  /\ MaxTid \in Nat /\ MaxFresh \in Nat /\ MaxRestarts \in Nat
  /\ MaxUppChanges \in Nat
  /\ ServerCis \subseteq CiPkids /\ DpAuthCi \in CiPkids
  /\ FIXED_EXPIRY \in Expiries
  /\ ZkMode \in BOOLEAN /\ Misrouting \in BOOLEAN
  /\ Card \in [Euiccs -> CardType]
  /\ DigitOnlyTids \subseteq Tids

-----------------------------------------------------------------------------
(* Messages *)

\* euiccSigned1 with euiccSignature1, ES10b.AuthenticateServer.
AuthBody ==
  [type : {"auth"}, euicc : Euiccs, tid : Tids, serverChallenge : Tids,
   matchingId : MatchingIds \cup {None}]

Sig2Type == [over : AuthBody, nonce : 1 .. MaxFresh]

\* euiccSigned2 with euiccSignature2, ES10b.PrepareDownload.
PrepBody ==
  [type : {"prep"}, euicc : Euiccs, tid : Tids, smdpSignature2 : Sig2Type,
   euiccOtpk : 1 .. MaxFresh]

\* euiccCancelSessionSigned with its signature, ES10b.CancelSession.
CancelBody ==
  [type : {"cancel"}, euicc : Euiccs, tid : Tids, smdpOidKnown : BOOLEAN]

\* profileInstallationResultData with euiccSignPIR.
ResultBody == [type : {"pir"}, euicc : Euiccs, tid : Tids]

BodyType == AuthBody \cup PrepBody \cup CancelBody \cup ResultBody

MetadataType == [profileName : MatchingIds, iccid : Versions]

InitReply == [func : {"init"}, tid : Tids, euicc : Euiccs]
AuthReply ==
  [func : {"auth"}, tid : Tids, smdpSignature2 : Sig2Type,
   profileMetadata : MetadataType]
RefusedReply == [func : {"refused"}, tid : Tids, euicc : Euiccs]
BppReply ==
  [func : {"bpp"}, tid : Tids, eid : Euiccs, profileMetadata : MetadataType,
   upp : Versions, euiccOtpk : 1 .. MaxFresh, smdpOtpk : 1 .. MaxFresh]
DoneReply == [func : {"notified", "cancelled"}, tid : Tids, euicc : Euiccs]

ReplyType ==
  InitReply \cup AuthReply \cup RefusedReply \cup BppReply \cup DoneReply

\* RspSessionState: the members a later request depends on.
Session ==
  [euicc_cert : Euiccs \cup {None}, eid : Euiccs \cup {None},
   matchingId : MatchingIds \cup {None},
   profileMetadata : MetadataType \cup {None},
   smdpSignature2 : Sig2Type \cup {None},
   euicc_otpk : 0 .. MaxFresh, smdp_ot : 0 .. MaxFresh,
   expiry : Expiries \cup {None}, L_spent : SUBSET TokType]

\* What a session offers: a profile, to an eUICC.
Offers == [euicc : Euiccs, profile : MetadataType]

\* None is not a value of any of the sorts that it completes.
ASSUME NoneAssumption ==
  /\ None \notin Euiccs /\ None \notin MatchingIds /\ None \notin Versions
  /\ None \notin Expiries /\ None \notin BundleType
  /\ None \notin MetadataType /\ None \notin Sig2Type /\ None \notin Session
  /\ None \notin Offers

VARIABLES
  rss,        \* RspSessionStore: transactionId -> session or None
  lastTid,    \* transactions opened so far
  fresh,      \* random draws made so far
  upp,        \* the files of upp_dir: matchingId -> content or None
  uppChanges, \* how often the operator changed a file
  expired,    \* has FIXED_EXPIRY passed
  restarts,   \* how often the SM-DP+ was restarted
  bodies,     \* responses the eUICCs have produced
  replies     \* what the SM-DP+ has answered

serverVars == <<rss, lastTid, fresh>>
worldVars == <<upp, uppChanges, expired, restarts>>
vars == <<rss, lastTid, fresh, upp, uppChanges, expired, restarts, bodies, replies>>

Live(t) == rss[t] # None

-----------------------------------------------------------------------------
(* initiateAuthentication *)

ci_get_cert_for_pkid(pkid) == pkid \in ServerCis

\* CERT.DPauth chains to an issuer the eUICC can verify with.
validate_certificate_chain_for_verification(pkids) ==
  \E pkid \in pkids : ci_get_cert_for_pkid(pkid) /\ pkid = DpAuthCi

\* The checks of the request; the ones on its syntax are left out, and so is
\* smdpAddress: an LPA gets the address from the same activation code.
IssuersSupported(e) ==
  /\ \/ Card[e].forVerification = {}
     \/ validate_certificate_chain_for_verification(Card[e].forVerification)
  /\ \E pkid \in Card[e].forSigning : ci_get_cert_for_pkid(pkid) /\ pkid = DpAuthCi

RspSessionState ==
  [euicc_cert |-> None, eid |-> None, matchingId |-> None,
   profileMetadata |-> None, smdpSignature2 |-> None, euicc_otpk |-> 0,
   smdp_ot |-> 0, expiry |-> None, L_spent |-> {}]

\* What --zk adds to a new session.  The accumulator L_spent is a new one.
setupMNOValues(ss) == [ss EXCEPT !.expiry = FIXED_EXPIRY, !.L_spent = {}]

\* uuid4 never repeats: lastTid + 1 was never used.  serverChallenge is drawn
\* in the same step, so the number of the session stands for it as well.
initiateAuthentication(e) ==
  /\ lastTid < MaxTid
  /\ IssuersSupported(e)
  /\ lastTid' = lastTid + 1
  /\ rss' = [rss EXCEPT ![lastTid + 1] =
               IF ZkMode THEN setupMNOValues(RspSessionState) ELSE RspSessionState]
  /\ replies' = replies \cup {[func |-> "init", tid |-> lastTid + 1, euicc |-> e]}
  /\ UNCHANGED <<fresh, worldVars, bodies>>

-----------------------------------------------------------------------------
(* authenticateClient *)

\* The chain eUICC - EUM - CI; --zk skips it.
CertificateChainVerifies(e) ==
  ZkMode \/ (Card[e].eumCi = DpAuthCi /\ Card[e].chain = "ok")

\* _ecdsa_verify of a signature the card made, with a certificate on file.
SignedBy(cert, e) == cert = e /\ Card[e].keyMatches

\* Faulty: the token is checked against the certificate the bundle names.
EligibilityVerifies_AnyCertificate(ss, e) ==
  LET elig == Card[e].elig IN
  /\ elig # None /\ ss.expiry # None /\ ~expired
  /\ elig.sigRoot = elig.accRoot
  /\ elig.authToken.expiry = ss.expiry
  /\ elig.accProofRoot = elig.accRoot

\* The eligibility bundle against the certificate and the session's expiry.
\* accProofRoot is the value verifyProof computes from hpid and accProof.
EligibilityVerifies(ss, e) ==
  LET elig == Card[e].elig IN
  /\ elig # None
  /\ ss.expiry # None
  /\ ~expired
  /\ elig.sigCred = [h_pid |-> elig.hpid, h_cert |-> e]
  /\ elig.sigRoot = elig.accRoot
  /\ elig.authToken = [h_pid |-> elig.hpid, h_cert |-> e, expiry |-> ss.expiry]
  /\ elig.accProofRoot = elig.accRoot

\* Faulty: the certificate is stored only with the rest (see EID_error.log).
KeepCertificate_NotStored(ss, b) == ss

\* Faulty: the EID is stored with it.
KeepCertificate_WithEid(ss, b) == [ss EXCEPT !.euicc_cert = b.euicc, !.eid = b.euicc]

\* The first store of the handler: the certificate is kept before it, or
\* anything else in the request, has been checked.
KeepCertificate(ss, b) == [ss EXCEPT !.euicc_cert = b.euicc]

\* Faulty: the file is not looked for.
AuthenticationVerifies_NoFile(t, b) ==
  /\ CertificateChainVerifies(b.euicc)
  /\ SignedBy(b.euicc, b.euicc)
  /\ ZkMode => EligibilityVerifies(rss[t], b.euicc)
  /\ b.serverChallenge = t
  /\ b.matchingId # None

\* Faulty: the challenge is not compared with the session's.
AuthenticationVerifies_AnyChallenge(t, b) ==
  /\ CertificateChainVerifies(b.euicc)
  /\ SignedBy(b.euicc, b.euicc)
  /\ ZkMode => EligibilityVerifies(rss[t], b.euicc)
  /\ b.matchingId # None
  /\ upp[b.matchingId] # None

AuthenticationVerifies(t, b) ==
  /\ CertificateChainVerifies(b.euicc)
  /\ SignedBy(b.euicc, b.euicc)
  /\ ZkMode => EligibilityVerifies(rss[t], b.euicc)
  /\ b.serverChallenge = t
  /\ b.matchingId # None
  /\ upp[b.matchingId] # None

\* The session the last store of the handler writes.
Authenticated(ss, b, md, sig2) ==
  [KeepCertificate(ss, b) EXCEPT
     !.eid = b.euicc, !.matchingId = b.matchingId, !.profileMetadata = md,
     !.smdpSignature2 = sig2,
     !.L_spent = IF ZkMode THEN @ \cup {Card[b.euicc].elig.authToken} ELSE @]

authenticateClient(t, b) ==
  LET md == [profileName |-> b.matchingId, iccid |-> upp[b.matchingId]]
      sig2 == [over |-> b, nonce |-> fresh + 1]
  IN
  /\ fresh < MaxFresh
  /\ Live(t)
  /\ AuthenticationVerifies(t, b)
  /\ fresh' = fresh + 1
  /\ rss' = [rss EXCEPT ![t] = Authenticated(rss[t], b, md, sig2)]
  /\ replies' = replies \cup
       {[func |-> "auth", tid |-> t, smdpSignature2 |-> sig2, profileMetadata |-> md]}
  /\ UNCHANGED <<lastTid, worldVars, bodies>>

\* Faulty: an unknown transactionId gets a session.
authenticateClientRefused_Creates(t, b) ==
  /\ Live(t) => ~AuthenticationVerifies(t, b)
  /\ rss' = [rss EXCEPT ![t] =
               KeepCertificate(IF Live(t) THEN rss[t] ELSE RspSessionState, b)]
  /\ replies' = replies \cup {[func |-> "refused", tid |-> t, euicc |-> b.euicc]}
  /\ UNCHANGED <<lastTid, fresh, worldVars, bodies>>

\* A check fails (ApiError, or an exception Klein turns into an HTTP 500).
authenticateClientRefused(t, b) ==
  /\ Live(t)
  /\ ~AuthenticationVerifies(t, b)
  /\ rss' = [rss EXCEPT ![t] = KeepCertificate(rss[t], b)]
  /\ replies' = replies \cup {[func |-> "refused", tid |-> t, euicc |-> b.euicc]}
  /\ UNCHANGED <<lastTid, fresh, worldVars, bodies>>

-----------------------------------------------------------------------------
(* getBoundProfilePackage, handleNotification, cancelSession *)

\* Faulty: euiccSignature2 is verified over euiccSigned2 alone.
PrepareDownloadVerifies_Signed2Only(t, b) ==
  /\ SignedBy(rss[t].euicc_cert, b.euicc)
  /\ rss[t].smdpSignature2 # None
  /\ b.tid = t

\* euiccSignature2 covers euiccSigned2 and the session's smdpSignature2; a
\* session without either certificate or smdpSignature2 makes the check raise.
PrepareDownloadVerifies(t, b) ==
  /\ SignedBy(rss[t].euicc_cert, b.euicc)
  /\ rss[t].smdpSignature2 # None
  /\ b.smdpSignature2 = rss[t].smdpSignature2
  /\ b.tid = t

\* Faulty: a repeated request gets the key of the first.
generate_private_key_Kept(t) == IF rss[t].smdp_ot # 0 THEN rss[t].smdp_ot ELSE fresh + 1

\* ot{PK,SK}.DP.ECKA of a request.
generate_private_key(t) == fresh + 1

\* The UPP file is read again, and only then is the session stored.
getBoundProfilePackage(t, b) ==
  /\ fresh < MaxFresh
  /\ Live(t)
  /\ PrepareDownloadVerifies(t, b)
  /\ upp[rss[t].matchingId] # None
  /\ fresh' = fresh + 1
  /\ rss' = [rss EXCEPT ![t] = [@ EXCEPT !.euicc_otpk = b.euiccOtpk, !.smdp_ot = generate_private_key(t)]]
  /\ replies' = replies \cup
       {[func |-> "bpp", tid |-> t, eid |-> rss[t].eid,
         profileMetadata |-> rss[t].profileMetadata,
         upp |-> upp[rss[t].matchingId], euiccOtpk |-> b.euiccOtpk,
         smdpOtpk |-> generate_private_key(t)]}
  /\ UNCHANGED <<lastTid, worldVars, bodies>>

\* b2h prints lower-case digits, the keys of rss are upper case.
b2hIsKey(t) == t \in DigitOnlyTids

Notified(t, e) == [func |-> "notified", tid |-> t, euicc |-> e]

\* profileInstallationResult; HTTP 204 also where no session is found.
handleNotification(b) ==
  /\ \/ /\ b2hIsKey(b.tid) /\ Live(b.tid)
        /\ SignedBy(rss[b.tid].euicc_cert, b.euicc)
        /\ rss' = [rss EXCEPT ![b.tid] = None]
     \/ /\ ~(b2hIsKey(b.tid) /\ Live(b.tid))
        /\ UNCHANGED rss
  /\ replies' = replies \cup {Notified(b.tid, b.euicc)}
  /\ UNCHANGED <<lastTid, fresh, worldVars, bodies>>

\* Faulty: the session is emptied, not removed.
cancelSession_Reset(t, b) ==
  /\ Live(t)
  /\ SignedBy(rss[t].euicc_cert, b.euicc)
  /\ b.smdpOidKnown
  /\ b.tid = t
  /\ rss' = [rss EXCEPT ![t] = RspSessionState]
  /\ replies' = replies \cup {[func |-> "cancelled", tid |-> t, euicc |-> b.euicc]}
  /\ UNCHANGED <<lastTid, fresh, worldVars, bodies>>

cancelSession(t, b) ==
  /\ Live(t)
  /\ SignedBy(rss[t].euicc_cert, b.euicc)
  /\ b.smdpOidKnown
  /\ b.tid = t
  /\ rss' = [rss EXCEPT ![t] = None]
  /\ replies' = replies \cup {[func |-> "cancelled", tid |-> t, euicc |-> b.euicc]}
  /\ UNCHANGED <<lastTid, fresh, worldVars, bodies>>

-----------------------------------------------------------------------------
(* The process of the SM-DP+ *)

\* main() does not pass --in-memory on, so the store is always the file.
StoreInMemory == FALSE

\* A restart between two requests.
Restart ==
  /\ restarts < MaxRestarts
  /\ restarts' = restarts + 1
  /\ rss' = IF StoreInMemory THEN [t \in Tids |-> None] ELSE rss
  /\ UNCHANGED <<lastTid, fresh, upp, uppChanges, expired, bodies, replies>>

\* Killed between the two stores of initiateAuthentication.
CrashInInitiateAuthentication(e) ==
  /\ restarts < MaxRestarts /\ lastTid < MaxTid
  /\ IssuersSupported(e)
  /\ restarts' = restarts + 1
  /\ lastTid' = lastTid + 1
  /\ rss' = IF StoreInMemory THEN [t \in Tids |-> None]
            ELSE [rss EXCEPT ![lastTid + 1] = RspSessionState]
  /\ UNCHANGED <<fresh, upp, uppChanges, expired, bodies, replies>>

\* Killed after the first store of authenticateClient.
CrashInAuthenticateClient(t, b) ==
  /\ restarts < MaxRestarts
  /\ Live(t)
  /\ restarts' = restarts + 1
  /\ rss' = IF StoreInMemory THEN [u \in Tids |-> None]
            ELSE [rss EXCEPT ![t] = KeepCertificate(rss[t], b)]
  /\ UNCHANGED <<lastTid, fresh, upp, uppChanges, expired, bodies, replies>>

-----------------------------------------------------------------------------
(* The environment: eUICCs behind LPAs, the operator, the clock *)

\* ES10b.AuthenticateServer: the eUICC that opened the session signs, for
\* the matchingId the user has entered, if any.
AuthenticateServer(r, m) ==
  /\ bodies' = bodies \cup
       {[type |-> "auth", euicc |-> r.euicc, tid |-> r.tid,
         serverChallenge |-> r.tid, matchingId |-> m]}
  /\ UNCHANGED <<serverVars, worldVars, replies>>

\* ES10b.PrepareDownload of the client e that was given the reply: it signs
\* whatever smdpSignature2 is in it, for the checks are still to be written.
PrepareDownload(r, e) ==
  /\ fresh < MaxFresh
  /\ fresh' = fresh + 1
  /\ bodies' = bodies \cup
       {[type |-> "prep", euicc |-> e, tid |-> r.tid,
         smdpSignature2 |-> r.smdpSignature2, euiccOtpk |-> fresh + 1]}
  /\ UNCHANGED <<rss, lastTid, worldVars, replies>>

\* ES10b.CancelSession.
CancelByUser(r, known) ==
  /\ bodies' = bodies \cup
       {[type |-> "cancel", euicc |-> r.euicc, tid |-> r.tid, smdpOidKnown |-> known]}
  /\ UNCHANGED <<serverVars, worldVars, replies>>

\* ES10b.LoadBoundProfilePackage: the eUICC derives the session keys from its
\* own one-time key and its own EID, so it opens only a BPP made for both.
LoadBoundProfilePackage(r, b) ==
  /\ b.tid = r.tid /\ b.euiccOtpk = r.euiccOtpk /\ b.euicc = r.eid
  /\ bodies' = bodies \cup {[type |-> "pir", euicc |-> b.euicc, tid |-> r.tid]}
  /\ UNCHANGED <<serverVars, worldVars, replies>>

\* The operator puts, replaces or removes a file in upp_dir.
ChangeUpp(m, v) ==
  /\ uppChanges < MaxUppChanges
  /\ upp[m] # v
  /\ upp' = [upp EXCEPT ![m] = v]
  /\ uppChanges' = uppChanges + 1
  /\ UNCHANGED <<serverVars, expired, restarts, bodies, replies>>

TokenExpires ==
  /\ ZkMode /\ ~expired
  /\ expired' = TRUE
  /\ UNCHANGED <<serverVars, upp, uppChanges, restarts, bodies, replies>>

-----------------------------------------------------------------------------
Sent(type) == {b \in bodies : b.type = type}
Answered(func) == {r \in replies : r.func = func}

\* The session ids an LPA may put next to a response.
Outer(b) == IF Misrouting THEN {r.tid : r \in Answered("init")} ELSE {b.tid}

\* The clients a reply of authenticateClient may be given to.
GivenTo(r) ==
  IF Misrouting THEN {i.euicc : i \in Answered("init")}
  ELSE {r.smdpSignature2.over.euicc}

Init ==
  /\ rss = [t \in Tids |-> None]
  /\ lastTid = 0 /\ fresh = 0
  /\ upp \in [MatchingIds -> Versions]
  /\ uppChanges = 0 /\ expired = FALSE /\ restarts = 0
  /\ bodies = {} /\ replies = {}

HandleRequest ==
  \/ \E e \in Euiccs : initiateAuthentication(e)
  \/ \E b \in Sent("auth") : \E t \in Outer(b) : authenticateClient(t, b)
  \/ \E b \in Sent("auth") : \E t \in Outer(b) : authenticateClientRefused(t, b)
  \/ \E b \in Sent("prep") : \E t \in Outer(b) : getBoundProfilePackage(t, b)
  \/ \E b \in Sent("cancel") : \E t \in Outer(b) : cancelSession(t, b)
  \/ \E b \in Sent("pir") : handleNotification(b)

Crash ==
  \/ Restart
  \/ \E e \in Euiccs : CrashInInitiateAuthentication(e)
  \/ \E b \in Sent("auth") : \E t \in Outer(b) : CrashInAuthenticateClient(t, b)

Environment ==
  \/ \E r \in Answered("init") : \E m \in MatchingIds \cup {None} : AuthenticateServer(r, m)
  \/ \E r \in Answered("auth") : \E e \in GivenTo(r) : PrepareDownload(r, e)
  \/ \E r \in Answered("init") : \E known \in BOOLEAN : CancelByUser(r, known)
  \/ \E r \in Answered("bpp") : \E b \in Sent("prep") : LoadBoundProfilePackage(r, b)
  \/ \E m \in MatchingIds : \E v \in Versions \cup {None} : ChangeUpp(m, v)
  \/ TokenExpires

Next == HandleRequest \/ Crash \/ Environment

Spec == Init /\ [][Next]_vars

\* A cancelSession that an LPA keeps trying to deliver is handled at last.
CancelBodyOf(t, e) ==
  [type |-> "cancel", euicc |-> e, tid |-> t, smdpOidKnown |-> TRUE]

DeliverCancel(t, e) == CancelBodyOf(t, e) \in bodies /\ cancelSession(t, CancelBodyOf(t, e))

FairSpec ==
  Spec /\ \A t \in Tids : \A e \in Euiccs : WF_vars(DeliverCancel(t, e))

-----------------------------------------------------------------------------
(* Properties *)

\* The type invariant: every member of a stored session, every message and
\* every counter stays in its sort.
TypeOK ==
  /\ rss \in [Tids -> Session \cup {None}]
  /\ lastTid \in 0 .. MaxTid /\ fresh \in 0 .. MaxFresh
  /\ upp \in [MatchingIds -> Versions \cup {None}]
  /\ uppChanges \in 0 .. MaxUppChanges /\ restarts \in 0 .. MaxRestarts
  /\ expired \in BOOLEAN
  /\ bodies \subseteq BodyType
  /\ replies \subseteq ReplyType

\* A profile package is bound for what was agreed to, and for no other:
\* getBoundProfilePackage answers with the metadata that went with the very
\* smdpSignature2 signed in the PrepareDownload it answers, for the one-time
\* key of that and the EID of the eUICC that smdpSignature2 was made for,
\* however often authenticateClient was repeated in the meantime with other
\* matchingIds.  Where replies reach only their client, it is this eUICC that
\* has signed; where the operator has not touched the UPP files, the package
\* is the one the metadata describe.
BppAsAgreed ==
  \A r \in Answered("bpp") :
    /\ \E b \in Sent("prep"), a \in Answered("auth") :
         /\ b.tid = r.tid /\ b.euiccOtpk = r.euiccOtpk
         /\ ~Misrouting => b.euicc = r.eid
         /\ a.tid = r.tid /\ a.smdpSignature2 = b.smdpSignature2
         /\ a.smdpSignature2.over.euicc = r.eid
         /\ a.profileMetadata = r.profileMetadata
         /\ a.smdpSignature2.over.matchingId = r.profileMetadata.profileName
         /\ \A c \in Answered("auth") : c.smdpSignature2 = a.smdpSignature2 => c = a
    /\ uppChanges = 0 => r.upp = r.profileMetadata.iccid

\* Whom the SM-DP+ may serve: an eUICC whose certificate chains to the issuer
\* of CERT.DPauth, or, with --zk, one whose eligibility bundle the operator
\* made for its own certificate and for the expiry of the session.
MayBeServed(e) ==
  /\ Card[e].keyMatches
  /\ ~ZkMode => Card[e].eumCi = DpAuthCi /\ Card[e].chain = "ok"
  /\ ZkMode =>
       /\ Card[e].elig # None
       /\ Card[e].elig.authToken =
            [h_pid |-> Card[e].elig.hpid, h_cert |-> e, expiry |-> FIXED_EXPIRY]
       /\ Card[e].elig.sigCred = [h_pid |-> Card[e].elig.hpid, h_cert |-> e]
       /\ Card[e].elig.accProofRoot = Card[e].elig.sigRoot

\* No eUICC but one that may be served ever installs a profile package.  It is
\* judged by the client that opens a package, not by what the SM-DP+ noted of
\* it: authenticateClient keeps the certificate of a request before it checks
\* it, and getBoundProfilePackage takes an euiccSignature2 made with the
\* certificate kept last, also that of a refused client, and binds to its
\* one-time key.  What keeps such a package closed is the EID it is bound
\* under, which must stay that of the request that was accepted: the property
\* is about clients that derive the session keys with their own EID, as
\* decode does.
OnlyAdmissibleServed == \A b \in Sent("pir") : MayBeServed(b.euicc)

\* The members of a stored session belong together: the EID, the matchingId
\* and the metadata are those of the request smdpSignature2 was made over,
\* which was made for this session, whatever refused requests, crashes and
\* other sessions' responses came in between.
SessionCoherent ==
  \A t \in Tids : Live(t) /\ rss[t].smdpSignature2 # None =>
    LET over == rss[t].smdpSignature2.over IN
    /\ over.tid = t
    /\ rss[t].eid = over.euicc
    /\ rss[t].matchingId = over.matchingId
    /\ rss[t].profileMetadata.profileName = over.matchingId
    /\ \E a \in Answered("auth") :
         /\ a.tid = t /\ a.smdpSignature2 = rss[t].smdpSignature2
         /\ a.profileMetadata = rss[t].profileMetadata

\* Every BPP has a one-time key of its own, also when getBoundProfilePackage
\* is repeated for the same response.
OneTimeKeys ==
  \A r1, r2 \in Answered("bpp") : r1.smdpOtpk = r2.smdpOtpk => r1 = r2

\* The facts about the rest of the state on which the above rest: sessions
\* are opened in order, what is drawn is new, a client authenticates for the
\* session it opened and prepares the download it was given, a session or a
\* package names an eUICC only if it may be served, and metadata are those of
\* the file while the files stay as they were.
SessionsOpened == \A t \in Tids : Live(t) => t <= lastTid

DrawsNew ==
  /\ \A a \in Answered("auth") : a.smdpSignature2.nonce <= fresh
  /\ \A r \in Answered("bpp") : r.smdpOtpk <= fresh
  /\ \A a, c \in Answered("auth") :
       a.smdpSignature2.nonce = c.smdpSignature2.nonce => a = c

ResponsesOwn ==
  /\ \A b \in Sent("auth") : b.tid = b.serverChallenge
  /\ ~Misrouting => \A b \in Sent("prep") : b.euicc = b.smdpSignature2.over.euicc

SessionsAdmissible ==
  \A t \in Tids : Live(t) =>
    /\ rss[t].expiry \in {None, FIXED_EXPIRY}
    /\ rss[t].smdpSignature2 # None => MayBeServed(rss[t].eid)

PackagesAdmissible == \A r \in Answered("bpp") : MayBeServed(r.eid)

MetadataCurrent ==
  uppChanges = 0 =>
    \A t \in Tids : Live(t) /\ rss[t].smdpSignature2 # None =>
      rss[t].profileMetadata.iccid = upp[rss[t].matchingId]

IInv ==
  /\ TypeOK
  /\ SessionsOpened /\ DrawsNew /\ ResponsesOwn
  /\ SessionCoherent /\ SessionsAdmissible /\ PackagesAdmissible /\ MetadataCurrent
  /\ BppAsAgreed /\ OnlyAdmissibleServed /\ OneTimeKeys

\* A session that has ended stays ended: a late or repeated request neither
\* brings it back nor obtains another package for it.
StaysEnded ==
  \A t \in Tids : t <= lastTid /\ ~Live(t) =>
    /\ ~Live(t)'
    /\ {r \in Answered("bpp")' : r.tid = t} = {r \in Answered("bpp") : r.tid = t}

EndedForGood == [][StaysEnded]_vars

\* The session of an eUICC whose authenticateClient was refused can still be
\* cancelled: its certificate was kept, so cancelSession can verify the
\* eUICC's signature (the case of EID_error.log).
CancelAfterRefusal ==
  \A t \in Tids : \A e \in Euiccs :
    (/\ Card[e].keyMatches
     /\ [func |-> "refused", tid |-> t, euicc |-> e] \in replies
     /\ CancelBodyOf(t, e) \in bodies) ~> ~Live(t)
=============================================================================
