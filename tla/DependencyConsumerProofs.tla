---------------------- MODULE DependencyConsumerProofs ----------------------
(***************************************************************************)
(* What holds of DependencyConsumer for any number of requests, hosts,     *)
(* apps, builds and redeployments, and any declared set.                   *)
(***************************************************************************)
EXTENDS DependencyConsumer, TLAPS

(***************************************************************************)
(* The pinned set                                                          *)
(***************************************************************************)

\* ParsePinnedSet never loses a declaration: what it accepts, in either form,
\* is what the owner declared.
THEOREM ParseKeepsDeclaration ==
  ASSUME NEW d \in Doc, ~ParsePinnedSet(d).err
  PROVE  ParsePinnedSet(d).entries = Declared(d)
  <1>1. CASE d.form = "array"
    <2>1. d.entries # None
      BY <1>1, ConsumerAssumption DEF Doc
    <2> QED
      BY <1>1, <2>1 DEF ParsePinnedSet, Declared, ParsedSet
  <1>2. CASE d.form = "object"
    BY <1>2 DEF ParsePinnedSet, Declared, ParsedSet, ParseError
  <1>3. CASE d.form \in {"unset", "null"}
    <2>1. d.entries = None
      BY <1>3 DEF Doc
    <2> QED
      BY <1>3, <2>1 DEF ParsePinnedSet, Declared, ParsedSet
  <1>4. CASE d.form = "malformed"
    BY <1>4 DEF ParsePinnedSet, ParseError
  <1> QED
    BY <1>1, <1>2, <1>3, <1>4 DEF Doc

LEMMA DeclaredIds == ASSUME NEW d \in Doc PROVE Declared(d) \subseteq Endpoint
  BY ConsumerAssumption DEF Doc, Declared, Endpoint, Id

(***************************************************************************)
(* Type correctness                                                        *)
(***************************************************************************)

LEMMA ReplyTypes ==
  /\ \A status \in {403, 500, 502} : Error(status) \in ReplyType
  /\ \A status \in {200, 403} : Forwarded(status) \in ReplyType
  /\ NoReply \in ReplyType
  BY DEF Error, Forwarded, NoReply, ReplyType, Enforced

LEMMA ReplyFields ==
  /\ \A status : /\ Error(status).kind = "error" /\ Error(status).status = status
                 /\ Error(status).verified = FALSE
  /\ \A status : /\ Forwarded(status).kind = "answer" /\ Forwarded(status).status = status
                 /\ Forwarded(status).verified = Enforced
  /\ NoReply.kind = "none"
  BY DEF Error, Forwarded, NoReply

LEMMA NoCertificate == NoCert \in Certificate
  BY DEF Certificate

LEMMA PresentedType ==
  ASSUME TypeOK, NEW h \in Host, NEW r \in Req, NEW c \in Presented(h, r)
  PROVE  c \in Certificate
  <1>1. ASSUME NEW g \in Host, AppOf[g] # None, NEW n \in Req
        PROVE  /\ Minted(g, n) \in Certificate
               /\ [Minted(g, n) EXCEPT !.binder = Elsewhere] \in Certificate
    <2>1. AppOf[g] \in App /\ build[g] \in Build
      BY <1>1, ConsumerAssumption DEF TypeOK
    <2> QED
      BY <2>1 DEF Minted, Certificate
  <1> QED
    <2>1. c = NoCert \/ \E g \in Host, n \in Req :
            AppOf[g] # None /\ c \in {Minted(g, n), [Minted(g, n) EXCEPT !.binder = Elsewhere]}
      BY DEF Presented
    <2> QED
        BY <1>1, <2>1, NoCertificate

\* Of all a host may present, only its own certificate is bound to the session.
LEMMA OwnCertificate ==
  ASSUME NEW h \in Host, NEW r \in Req, NEW c \in Presented(h, r), c.binder = r
  PROVE  c = Minted(h, r)
  <1>1. NoCert.binder # r
    BY ConsumerAssumption DEF NoCert
  <1>2. \A g \in Host, n \in Req : [Minted(g, n) EXCEPT !.binder = Elsewhere].binder = Elsewhere
    BY DEF Minted
  <1>3. Elsewhere # r
    BY ConsumerAssumption
  <1>4. \/ c = NoCert
        \/ c = Minted(h, r)
        \/ \E g \in Host, n \in Req : c = [Minted(g, n) EXCEPT !.binder = Elsewhere]
    BY DEF Presented
  <1> QED
    BY <1>1, <1>2, <1>3, <1>4

LEMMA Sessions ==
  /\ NoConn \in Session
  /\ \A s \in Session : /\ [s EXCEPT !.alive = FALSE] \in Session
                        /\ [s EXCEPT !.alive = FALSE].peer = s.peer
                        /\ [s EXCEPT !.alive = FALSE].cert = s.cert
  BY NoCertificate DEF Session, NoConn

LEMMA InitType == Init => TypeOK
  <1> SUFFICES ASSUME Init PROVE TypeOK
    OBVIOUS
  <1>1. 0 \in 0 .. MaxRedeploys
    BY ConsumerAssumption
  <1> QED
    BY <1>1, ReplyTypes, Sessions DEF Init, TypeOK

LEMMA NextType == TypeOK /\ [Next]_vars => TypeOK'
  <1> SUFFICES ASSUME TypeOK, [Next]_vars PROVE TypeOK'
    OBVIOUS
  <1> USE DEF config
  <1>1. ASSUME NEW r \in Req, Prepare(r) PROVE TypeOK'
    <2>1. PICK url \in Url \cup {None} :
            LET to == ProviderHostPort(url) IN
            \/ Reply(r, Error(500)) /\ UNCHANGED <<target, identity>>
            \/ /\ target' = [target EXCEPT ![r] = to.host]
               /\ \E has \in {FALSE, managerURL} : identity' = [identity EXCEPT ![r] = has]
               /\ pc' = [pc EXCEPT ![r] = "connect"]
               /\ UNCHANGED reply
      BY <1>1 DEF Prepare
    <2>2. ProviderHostPort(url).host \in Host
      BY ConsumerAssumption DEF TypeOK, ProviderHostPort
    <2>3. pc[r] = "asked" /\ UNCHANGED <<config, build, redeploys, conn, given, resp>>
      BY <1>1 DEF Prepare
    <2>4. CASE Reply(r, Error(500)) /\ UNCHANGED <<target, identity>>
      BY <2>3, <2>4, ReplyTypes DEF TypeOK, Reply
    <2>5. ASSUME target' = [target EXCEPT ![r] = ProviderHostPort(url).host],
                 NEW has \in BOOLEAN, identity' = [identity EXCEPT ![r] = has],
                 pc' = [pc EXCEPT ![r] = "connect"], UNCHANGED reply
          PROVE  TypeOK'
      BY <2>2, <2>3, <2>5 DEF TypeOK
    <2>6. {FALSE, managerURL} \subseteq BOOLEAN
      BY DEF TypeOK
    <2> QED
      BY <2>1, <2>4, <2>5, <2>6
  <1>2. ASSUME NEW r \in Req, Connect(r) PROVE TypeOK'
    <2>1. pc[r] = "connect" /\ UNCHANGED <<config, build, redeploys, target, identity, given, resp>>
      BY <1>2 DEF Connect
    <2>2. CASE Reply(r, Error(502)) /\ UNCHANGED conn
      BY <2>1, <2>2, ReplyTypes DEF TypeOK, Reply
    <2>3. ASSUME NEW c \in Presented(target[r], r),
                 conn' = [conn EXCEPT ![r] = [peer |-> Identity(target[r]), cert |-> c,
                                              client |-> ClientCertificate(r), alive |-> TRUE]],
                 pc' = [pc EXCEPT ![r] = "inspect"], UNCHANGED reply
          PROVE  TypeOK'
      <3>1. target[r] \in Host
        BY <2>1 DEF TypeOK
      <3>2. Identity(target[r]) \in Endpoint
        BY <3>1, ConsumerAssumption DEF TypeOK, Identity, Endpoint
      <3>3. c \in Certificate
        BY <3>1, PresentedType
      <3>4. ClientCertificate(r) \in Req \cup {None}
        BY DEF ClientCertificate
      <3>5. [peer |-> Identity(target[r]), cert |-> c,
             client |-> ClientCertificate(r), alive |-> TRUE] \in Session
        BY <3>2, <3>3, <3>4 DEF Session
      <3>6. conn' \in [Req -> Session] /\ conn'[r].peer \in Endpoint
        BY <2>3, <3>2, <3>5 DEF TypeOK
      <3>7. \A q \in Req : pc'[q] \in {"inspect", "forward", "sent"} => conn'[q].peer \in Endpoint
        BY <2>3, <3>6 DEF TypeOK
      <3> QED
        BY <2>1, <2>3, <3>6, <3>7 DEF TypeOK
    <2> QED
      BY <1>2, <2>2, <2>3 DEF Connect
  <1>3. ASSUME NEW r \in Req, Inspect(r) PROVE TypeOK'
    <2>1. pc[r] = "inspect"
          /\ UNCHANGED <<config, build, redeploys, target, identity, conn, given, resp>>
      BY <1>3 DEF Inspect
    <2>2. \/ Reply(r, Error(502)) \/ Reply(r, Error(403))
          \/ pc' = [pc EXCEPT ![r] = "forward"] /\ UNCHANGED reply
      BY <1>3 DEF Inspect
    <2>3. CASE Reply(r, Error(502)) \/ Reply(r, Error(403))
      BY <2>1, <2>3, ReplyTypes DEF TypeOK, Reply
    <2>4. CASE pc' = [pc EXCEPT ![r] = "forward"] /\ UNCHANGED reply
      BY <2>1, <2>4 DEF TypeOK
    <2> QED
      BY <2>2, <2>3, <2>4
  <1>4. ASSUME NEW r \in Req, Forward(r) PROVE TypeOK'
    <2>1. pc[r] = "forward"
          /\ UNCHANGED <<config, build, redeploys, target, identity, conn, resp>>
      BY <1>4 DEF Forward
    <2>2. CASE Reply(r, Error(502)) /\ UNCHANGED given
      BY <2>1, <2>2, ReplyTypes DEF TypeOK, Reply
    <2>3. CASE given' = [given EXCEPT ![r] = conn[r].peer] /\ pc' = [pc EXCEPT ![r] = "sent"]
               /\ UNCHANGED reply
      <3>1. conn[r].peer \in Endpoint
        BY <2>1 DEF TypeOK, Session
      <3> QED
        BY <2>1, <2>3, <3>1 DEF TypeOK
    <2> QED
      BY <1>4, <2>2, <2>3 DEF Forward
  <1>5. ASSUME NEW r \in Req, Answer(r) PROVE TypeOK'
    <2>1. pc[r] = "sent"
          /\ UNCHANGED <<config, build, redeploys, target, identity, conn, given, resp>>
      BY <1>5 DEF Answer
    <2>2. \E how \in ReplyType : Reply(r, how)
      BY <1>5, ReplyTypes DEF TypeOK, Answer
    <2> QED
      BY <2>1, <2>2 DEF TypeOK, Reply
  <1>6. ASSUME NEW r \in Req, Infer(r) PROVE TypeOK'
    BY <1>6 DEF TypeOK, Infer
  <1>7. ASSUME NEW h \in Host, Redeploy(h) PROVE TypeOK'
    <2>1. build' \in [Host -> Build] /\ redeploys' \in 0 .. MaxRedeploys
      BY <1>7, ConsumerAssumption DEF TypeOK, Redeploy
    <2>2. \A r \in Req : conn'[r] \in Session /\ conn'[r].peer = conn[r].peer
      <3>1. \A r \in Req : conn'[r] \in {conn[r], [conn[r] EXCEPT !.alive = FALSE]}
        BY <1>7 DEF Redeploy
      <3>2. \A r \in Req : conn[r] \in Session
        BY DEF TypeOK
      <3> QED
        BY <3>1, <3>2, Sessions
    <2>3. conn' \in [Req -> Session]
      BY <1>7, <2>2 DEF Redeploy
    <2> QED
      BY <1>7, <2>1, <2>2, <2>3 DEF TypeOK, Redeploy
  <1>8. CASE UNCHANGED vars
    BY <1>8 DEF TypeOK, vars
  <1> QED
    BY <1>1, <1>2, <1>3, <1>4, <1>5, <1>6, <1>7, <1>8 DEF Next, Handler

\* Every variable keeps its type; a handler past its preparation has a provider
\* and one past the handshake a session.
THEOREM TypeCorrect == Spec => []TypeOK
  BY InitType, NextType, PTL DEF Spec

(***************************************************************************)
(* Where a prompt can go                                                   *)
(***************************************************************************)

\* A certificate bound to a session is the certificate of the enclave at the
\* other end of it.
BoundCert(r) ==
  conn[r].cert.binder = r =>
    conn[r].peer = [app |-> conn[r].cert.app, build |-> conn[r].cert.build]

\* PromptOnlyToDeclared is decided in Inspect and acted on in Forward, with
\* redeployments in between; what carries it across is what Inspect has
\* established about the peer of the session, which no redeployment changes.
Vetted(r) ==
  /\ pc[r] \in {"connect", "inspect", "forward", "sent"} => ~ParsePinnedSet(doc).err
  /\ pc[r] = "forward" => conn[r].peer \in Trusted
  /\ given[r] # Nobody => given[r] \in Trusted /\ pc[r] \in {"sent", "done"}
  /\ pc[r] = "sent" => given[r] # Nobody
  /\ pc[r] = "done" <=> reply[r].kind # "none"

VettedInv == \A r \in Req : BoundCert(r) /\ Vetted(r)

LEMMA VettedImplies == VettedInv => PromptOnlyToDeclared
  BY DEF VettedInv, Vetted, PromptOnlyToDeclared

LEMMA InitVetted == Init => VettedInv
  <1> SUFFICES ASSUME Init, NEW r \in Req PROVE BoundCert(r) /\ Vetted(r)
    BY DEF VettedInv
  <1>1. conn[r].cert.binder # r
    BY ConsumerAssumption DEF Init, NoConn, NoCert
  <1>2. pc[r] = "asked" /\ given[r] = Nobody /\ reply[r].kind = "none"
    BY ReplyFields DEF Init
  <1> QED
    BY <1>1, <1>2 DEF BoundCert, Vetted

\* Once the document has been read, the pinned set is the declared set, and there was
\* one to read.
LEMMA PinnedDeclared ==
  ASSUME TypeOK, ~ParsePinnedSet(doc).err
  PROVE  Pinned = Declared(doc) /\ ~Unreadable
  <1>1. Pinned = Declared(doc)
    BY ParseKeepsDeclaration DEF TypeOK, Pinned
  <1>2. ~Unreadable
    BY DEF Unreadable, ParsePinnedSet, ParseError
  <1> QED
    BY <1>1, <1>2

\* A step of the handler of r leaves every other request alone.
Others(r) == \A q \in Req \ {r} :
  /\ pc'[q] = pc[q] /\ conn'[q] = conn[q] /\ given'[q] = given[q] /\ reply'[q] = reply[q]

LEMMA VettedStep ==
  ASSUME VettedInv, NEW r \in Req, Others(r), UNCHANGED doc, BoundCert(r)', Vetted(r)'
  PROVE  VettedInv'
  <1> SUFFICES ASSUME NEW q \in Req PROVE BoundCert(q)' /\ Vetted(q)'
    BY DEF VettedInv
  <1>1. CASE q = r
    BY <1>1
  <1>2. CASE q # r
    BY <1>2 DEF VettedInv, BoundCert, Vetted, Others, Trusted, Unreadable
  <1> QED
    BY <1>1, <1>2

\* An error before the prompt is out.
LEMMA VettedRefused ==
  ASSUME TypeOK, VettedInv, NEW r \in Req, pc[r] \notin {"sent", "done"},
         NEW status \in {403, 500, 502}, Reply(r, Error(status)), UNCHANGED <<doc, conn, given>>
  PROVE  VettedInv'
  <1>1. Others(r) /\ pc'[r] = "done" /\ reply'[r] = Error(status)
    BY DEF TypeOK, Reply, Others
  <1>2. BoundCert(r)' /\ Vetted(r)'
    BY <1>1, ReplyFields DEF VettedInv, BoundCert, Vetted
  <1> QED
    BY <1>1, <1>2, VettedStep

LEMMA NextVetted == TypeOK /\ VettedInv /\ [Next]_vars => VettedInv'
  <1> SUFFICES ASSUME TypeOK, VettedInv, [Next]_vars PROVE VettedInv'
    OBVIOUS
  <1> USE DEF config
  <1>0. \A r \in Req : BoundCert(r) /\ Vetted(r)
    BY DEF VettedInv
  <1>1. ASSUME NEW r \in Req, Prepare(r) PROVE VettedInv'
    <2>1. pc[r] = "asked" /\ UNCHANGED <<doc, conn, given>>
      BY <1>1 DEF Prepare
    <2>2. CASE Reply(r, Error(500))
      BY <2>1, <2>2, VettedRefused
    <2>3. CASE pc' = [pc EXCEPT ![r] = "connect"] /\ UNCHANGED reply /\ ~ParsePinnedSet(doc).err
      <3>1. Others(r) /\ pc'[r] = "connect"
        BY <2>1, <2>3 DEF TypeOK, Others
      <3>2. BoundCert(r)' /\ Vetted(r)'
        BY <1>0, <2>1, <2>3, <3>1 DEF BoundCert, Vetted
      <3> QED
        BY <2>1, <3>1, <3>2, VettedStep
    <2> QED
      BY <1>1, <2>2, <2>3 DEF Prepare
  <1>2. ASSUME NEW r \in Req, Connect(r) PROVE VettedInv'
    <2>1. pc[r] = "connect" /\ UNCHANGED <<doc, given>>
      BY <1>2 DEF Connect
    <2>2. CASE Reply(r, Error(502)) /\ UNCHANGED conn
      BY <2>1, <2>2, VettedRefused
    <2>3. ASSUME NEW c \in Presented(target[r], r),
                 conn' = [conn EXCEPT ![r] = [peer |-> Identity(target[r]), cert |-> c,
                                              client |-> ClientCertificate(r), alive |-> TRUE]],
                 pc' = [pc EXCEPT ![r] = "inspect"], UNCHANGED reply
          PROVE  VettedInv'
      <3>1. /\ Others(r) /\ pc'[r] = "inspect"
            /\ conn'[r].cert = c /\ conn'[r].peer = Identity(target[r])
        BY <2>1, <2>3 DEF TypeOK, Others
      <3>2. c.binder = r => c = Minted(target[r], r)
        <4>1. target[r] \in Host
          BY <2>1 DEF TypeOK
        <4> QED
          BY <2>3, <4>1, OwnCertificate
      <3>3. BoundCert(r)'
        BY <3>1, <3>2 DEF BoundCert, Minted, Identity
      <3>4. Vetted(r)'
        BY <1>0, <2>1, <2>3, <3>1 DEF Vetted
      <3> QED
        BY <2>1, <3>1, <3>3, <3>4, VettedStep
    <2> QED
      BY <1>2, <2>2, <2>3 DEF Connect
  <1>3. ASSUME NEW r \in Req, Inspect(r) PROVE VettedInv'
    <2>1. pc[r] = "inspect" /\ UNCHANGED <<doc, conn, given>>
      BY <1>3 DEF Inspect
    <2>2. CASE Reply(r, Error(502)) \/ Reply(r, Error(403))
      BY <2>1, <2>2, VettedRefused
    <2>3. CASE /\ Enforced => CertBound(conn[r].cert, r) /\ VerifyPeer(conn[r].cert, Pinned)
               /\ pc' = [pc EXCEPT ![r] = "forward"] /\ UNCHANGED reply
      <3>1. Others(r) /\ pc'[r] = "forward"
        BY <2>1, <2>3 DEF TypeOK, Others
      <3>2. Pinned = Declared(doc) /\ ~Unreadable
        BY <1>0, <2>1, PinnedDeclared DEF Vetted
      <3>3. conn[r].peer \in Endpoint
        BY <2>1 DEF TypeOK
      <3>4. conn[r].peer \in Trusted
        BY <1>0, <2>3, <3>2, <3>3 DEF Enforced, Trusted, CertBound, VerifyPeer, BoundCert
      <3>5. BoundCert(r)' /\ Vetted(r)'
        BY <1>0, <2>1, <2>3, <3>1, <3>4 DEF BoundCert, Vetted, Trusted, Unreadable
      <3> QED
        BY <2>1, <3>1, <3>5, VettedStep
    <2> QED
      BY <1>3, <2>2, <2>3 DEF Inspect
  <1>4. ASSUME NEW r \in Req, Forward(r) PROVE VettedInv'
    <2>1. pc[r] = "forward" /\ UNCHANGED <<doc, conn>>
      BY <1>4 DEF Forward
    <2>2. CASE Reply(r, Error(502)) /\ UNCHANGED given
      BY <2>1, <2>2, VettedRefused
    <2>3. CASE given' = [given EXCEPT ![r] = conn[r].peer] /\ pc' = [pc EXCEPT ![r] = "sent"]
               /\ UNCHANGED reply
      <3>1. Others(r) /\ pc'[r] = "sent" /\ given'[r] = conn[r].peer
        BY <2>1, <2>3 DEF TypeOK, Others
      <3>2. conn[r].peer \in Trusted /\ conn[r].peer # Nobody
        BY <1>0, <2>1, ConsumerAssumption DEF TypeOK, Vetted, Endpoint, Nobody
      <3>3. BoundCert(r)' /\ Vetted(r)'
        BY <1>0, <2>1, <2>3, <3>1, <3>2 DEF BoundCert, Vetted, Trusted, Unreadable
      <3> QED
        BY <2>1, <3>1, <3>3, VettedStep
    <2> QED
      BY <1>4, <2>2, <2>3 DEF Forward
  <1>5. ASSUME NEW r \in Req, Answer(r) PROVE VettedInv'
    <2>1. pc[r] = "sent" /\ UNCHANGED <<doc, conn, given>>
      BY <1>5 DEF Answer
    <2>2. PICK how : Reply(r, how) /\ how.kind # "none"
      BY <1>5, ReplyFields DEF Answer
    <2>3. Others(r) /\ pc'[r] = "done" /\ reply'[r] = how
      BY <2>1, <2>2 DEF TypeOK, Reply, Others
    <2>4. BoundCert(r)' /\ Vetted(r)'
      BY <1>0, <2>1, <2>2, <2>3 DEF BoundCert, Vetted, Trusted, Unreadable
    <2> QED
      BY <2>1, <2>3, <2>4, VettedStep
  <1>6. ASSUME NEW r \in Req, Infer(r) PROVE VettedInv'
    BY <1>6 DEF Infer, VettedInv, BoundCert, Vetted, Trusted, Unreadable
  <1>7. ASSUME NEW h \in Host, Redeploy(h) PROVE VettedInv'
    <2>1. \A r \in Req : conn'[r].peer = conn[r].peer /\ conn'[r].cert = conn[r].cert
      <3>1. \A r \in Req : conn'[r] \in {conn[r], [conn[r] EXCEPT !.alive = FALSE]}
        BY <1>7 DEF Redeploy
      <3>2. \A r \in Req : conn[r] \in Session
        BY DEF TypeOK
      <3> QED
        BY <3>1, <3>2, Sessions
    <2>2. UNCHANGED <<doc, pc, given, reply>>
      BY <1>7 DEF Redeploy
    <2> QED
      BY <2>1, <2>2 DEF VettedInv, BoundCert, Vetted, Trusted, Unreadable
  <1>8. CASE UNCHANGED vars
    BY <1>8 DEF vars, VettedInv, BoundCert, Vetted, Trusted, Unreadable
  <1> QED
    BY <1>1, <1>2, <1>3, <1>4, <1>5, <1>6, <1>7, <1>8 DEF Next, Handler

\* Whatever certificates are presented, whatever is redeployed and however the
\* requests interleave, a prompt reaches only an enclave the owner declared.
THEOREM PromptsVetted == Spec => []PromptOnlyToDeclared
  BY TypeCorrect, InitVetted, NextVetted, VettedImplies, PTL DEF Spec

(***************************************************************************)
(* What a caller may conclude from the answer                              *)
(***************************************************************************)

\* A handler answers with what the provider said, on the session it presented its
\* identity in, under the pinned set it has read.
Answered(r) ==
  /\ pc[r] \in {"inspect", "forward", "sent"} => conn[r].client = ClientCertificate(r)
  /\ resp[r] # None => pc[r] \in {"sent", "done"}
  /\ resp[r] # None /\ resp[r] = 403 => ~identity[r]
  /\ reply[r].kind = "error" /\ reply[r].status \in {403, 500} => given[r] = Nobody
  /\ reply[r].kind = "answer" =>
       /\ given[r] # Nobody
       /\ resp[r] # None /\ resp[r] = reply[r].status
       /\ reply[r].verified = Enforced
       /\ ~ParsePinnedSet(doc).err

AnsweredInv == \A r \in Req : Answered(r)

LEMMA InitAnswered == Init => AnsweredInv
  BY ReplyFields DEF Init, AnsweredInv, Answered

LEMMA AnsweredStep ==
  ASSUME AnsweredInv, NEW r \in Req, Others(r), UNCHANGED doc, Answered(r)',
         \A q \in Req \ {r} : resp'[q] = resp[q] /\ identity'[q] = identity[q]
  PROVE  AnsweredInv'
  <1> SUFFICES ASSUME NEW q \in Req, q # r PROVE Answered(q)'
    BY DEF AnsweredInv
  <1> QED
    BY DEF AnsweredInv, Answered, Others, ClientCertificate, Enforced, Pinned

\* An error before the prompt is out.
LEMMA AnsweredRefused ==
  ASSUME TypeOK, VettedInv, AnsweredInv, NEW r \in Req, pc[r] \notin {"sent", "done"},
         NEW status \in {403, 500, 502}, Reply(r, Error(status)),
         UNCHANGED <<doc, conn, given, resp, identity>>
  PROVE  AnsweredInv'
  <1>1. Others(r) /\ pc'[r] = "done" /\ reply'[r] = Error(status)
    BY DEF TypeOK, Reply, Others
  <1>2. given[r] = Nobody
    BY DEF VettedInv, Vetted
  <1>3. Answered(r)'
    BY <1>1, <1>2, ReplyFields DEF AnsweredInv, Answered
  <1> QED
    BY <1>1, <1>3, AnsweredStep

LEMMA NextAnswered == TypeOK /\ VettedInv /\ AnsweredInv /\ [Next]_vars => AnsweredInv'
  <1> SUFFICES ASSUME TypeOK, VettedInv, AnsweredInv, [Next]_vars PROVE AnsweredInv'
    OBVIOUS
  <1> USE DEF config
  <1>0. \A r \in Req : Answered(r) /\ Vetted(r)
    BY DEF AnsweredInv, VettedInv
  <1>1. ASSUME NEW r \in Req, Prepare(r) PROVE AnsweredInv'
    <2>1. pc[r] = "asked" /\ UNCHANGED <<doc, conn, given, resp>>
      BY <1>1 DEF Prepare
    <2>2. CASE Reply(r, Error(500)) /\ UNCHANGED identity
      BY <2>1, <2>2, AnsweredRefused
    <2>3. CASE /\ pc' = [pc EXCEPT ![r] = "connect"] /\ UNCHANGED reply
               /\ \E has : identity' = [identity EXCEPT ![r] = has]
      <3>1. Others(r) /\ pc'[r] = "connect" /\ \A q \in Req \ {r} : identity'[q] = identity[q]
        BY <2>1, <2>3 DEF TypeOK, Others
      <3>2. resp[r] = None /\ reply[r].kind = "none"
        BY <1>0, <2>1 DEF Answered, Vetted
      <3>3. Answered(r)'
        BY <2>1, <2>3, <3>1, <3>2 DEF Answered
      <3> QED
        BY <2>1, <3>1, <3>3, AnsweredStep
    <2> QED
      BY <1>1, <2>2, <2>3 DEF Prepare
  <1>2. ASSUME NEW r \in Req, Connect(r) PROVE AnsweredInv'
    <2>1. pc[r] = "connect" /\ UNCHANGED <<doc, given, resp, identity>>
      BY <1>2 DEF Connect
    <2>2. CASE Reply(r, Error(502)) /\ UNCHANGED conn
      BY <2>1, <2>2, AnsweredRefused
    <2>3. ASSUME NEW c,
                 conn' = [conn EXCEPT ![r] = [peer |-> Identity(target[r]), cert |-> c,
                                              client |-> ClientCertificate(r), alive |-> TRUE]],
                 pc' = [pc EXCEPT ![r] = "inspect"], UNCHANGED reply
          PROVE  AnsweredInv'
      <3>1. Others(r) /\ pc'[r] = "inspect" /\ conn'[r].client = ClientCertificate(r)
        BY <2>1, <2>3 DEF TypeOK, Others
      <3>2. Answered(r)'
        BY <1>0, <2>1, <2>3, <3>1 DEF Answered, Vetted, ClientCertificate
      <3> QED
        BY <2>1, <3>1, <3>2, AnsweredStep
    <2> QED
      BY <1>2, <2>2, <2>3 DEF Connect
  <1>3. ASSUME NEW r \in Req, Inspect(r) PROVE AnsweredInv'
    <2>1. pc[r] = "inspect" /\ UNCHANGED <<doc, conn, given, resp, identity>>
      BY <1>3 DEF Inspect
    <2>2. CASE Reply(r, Error(502)) \/ Reply(r, Error(403))
      BY <2>1, <2>2, AnsweredRefused
    <2>3. CASE pc' = [pc EXCEPT ![r] = "forward"] /\ UNCHANGED reply
      <3>1. Others(r) /\ pc'[r] = "forward"
        BY <2>1, <2>3 DEF TypeOK, Others
      <3>2. Answered(r)'
        BY <1>0, <2>1, <2>3, <3>1 DEF Answered, Vetted, ClientCertificate
      <3> QED
        BY <2>1, <3>1, <3>2, AnsweredStep
    <2> QED
      BY <1>3, <2>2, <2>3 DEF Inspect
  <1>4. ASSUME NEW r \in Req, Forward(r) PROVE AnsweredInv'
    <2>1. pc[r] = "forward" /\ UNCHANGED <<doc, conn, resp, identity>>
      BY <1>4 DEF Forward
    <2>2. CASE Reply(r, Error(502)) /\ UNCHANGED given
      BY <2>1, <2>2, AnsweredRefused
    <2>3. CASE given' = [given EXCEPT ![r] = conn[r].peer] /\ pc' = [pc EXCEPT ![r] = "sent"]
               /\ UNCHANGED reply
      <3>1. Others(r) /\ pc'[r] = "sent"
        BY <2>1, <2>3 DEF TypeOK, Others
      <3>2. Answered(r)'
        BY <1>0, <2>1, <2>3, <3>1 DEF Answered, Vetted, ClientCertificate
      <3> QED
        BY <2>1, <3>1, <3>2, AnsweredStep
    <2> QED
      BY <1>4, <2>2, <2>3 DEF Forward
  <1>5. ASSUME NEW r \in Req, Answer(r) PROVE AnsweredInv'
    <2>1. pc[r] = "sent" /\ UNCHANGED <<doc, conn, given, resp, identity>>
      BY <1>5 DEF Answer
    <2>2. given[r] # Nobody /\ ~ParsePinnedSet(doc).err
      BY <1>0, <2>1 DEF Vetted
    <2>3. ASSUME NEW how, Reply(r, how) PROVE Others(r) /\ pc'[r] = "done" /\ reply'[r] = how
      BY <2>1, <2>3 DEF TypeOK, Reply, Others
    <2>4. CASE resp[r] # None /\ Reply(r, Forwarded(resp[r]))
      <3>1. Others(r) /\ pc'[r] = "done" /\ reply'[r] = Forwarded(resp[r])
        BY <2>3, <2>4
      <3>2. Answered(r)'
        BY <1>0, <2>1, <2>2, <2>4, <3>1, ReplyFields DEF Answered, Enforced, Pinned
      <3> QED
        BY <2>1, <3>1, <3>2, AnsweredStep
    <2>5. CASE Reply(r, Error(502))
      <3>1. Others(r) /\ pc'[r] = "done" /\ reply'[r] = Error(502)
        BY <2>3, <2>5
      <3>2. Answered(r)'
        BY <1>0, <2>1, <3>1, ReplyFields DEF Answered
      <3> QED
        BY <2>1, <3>1, <3>2, AnsweredStep
    <2> QED
      BY <1>5, <2>4, <2>5 DEF Answer
  <1>6. ASSUME NEW r \in Req, Infer(r) PROVE AnsweredInv'
    <2>1. /\ pc[r] = "sent" /\ resp[r] = None
          /\ UNCHANGED <<doc, pc, identity, conn, given, reply>>
          /\ resp' = [resp EXCEPT ![r] = IF Admits(r) THEN 200 ELSE 403]
      BY <1>6 DEF Infer
    <2>2. Others(r) /\ \A q \in Req \ {r} : resp'[q] = resp[q]
      BY <2>1 DEF TypeOK, Others
    <2>3. resp'[r] = 403 => ~identity[r]
      <3>1. resp'[r] = IF Admits(r) THEN 200 ELSE 403
        BY <2>1 DEF TypeOK
      <3>2. conn[r].client = ClientCertificate(r)
        BY <1>0, <2>1 DEF Answered
      <3> QED
        BY <3>1, <3>2 DEF Admits, ClientCertificate
    <2>4. Answered(r)'
      BY <1>0, <2>1, <2>3 DEF Answered, Vetted, ClientCertificate
    <2> QED
      BY <2>1, <2>2, <2>4, AnsweredStep
  <1>7. ASSUME NEW h \in Host, Redeploy(h) PROVE AnsweredInv'
    <2>1. \A r \in Req : conn'[r].client = conn[r].client
      <3>1. \A r \in Req : conn'[r] \in {conn[r], [conn[r] EXCEPT !.alive = FALSE]}
        BY <1>7 DEF Redeploy
      <3>2. \A r \in Req : conn[r] \in Session
        BY DEF TypeOK
      <3>3. \A s \in Session : [s EXCEPT !.alive = FALSE].client = s.client
        BY NoCertificate DEF Session
      <3> QED
        BY <3>1, <3>2, <3>3
    <2>2. UNCHANGED <<doc, pc, given, reply, resp, identity>>
      BY <1>7 DEF Redeploy
    <2> QED
      BY <2>1, <2>2 DEF AnsweredInv, Answered, ClientCertificate, Enforced, Pinned
  <1>8. CASE UNCHANGED vars
    BY <1>8 DEF vars, AnsweredInv, Answered, ClientCertificate, Enforced, Pinned
  <1> QED
    BY <1>1, <1>2, <1>3, <1>4, <1>5, <1>6, <1>7, <1>8 DEF Next, Handler

LEMMA AnswersInvariant == Spec => [](TypeOK /\ VettedInv /\ AnsweredInv)
  BY TypeCorrect, InitVetted, NextVetted, InitAnswered, NextAnswered, PTL DEF Spec

\* Whoever is refused with 403 or 500 by the consumer has released nothing.
THEOREM RefusalsRelease == Spec => []RefusalReleasesNothing
  <1>1. AnsweredInv => RefusalReleasesNothing
    BY DEF AnsweredInv, Answered, RefusalReleasesNothing
  <1> QED
    BY <1>1, AnswersInvariant, PTL

\* egress_verified is true exactly of answers that come from a declared enclave.
THEOREM EgressTruthful == Spec => []EgressVerifiedTruthful
  <1>1. TypeOK /\ VettedInv /\ AnsweredInv => EgressVerifiedTruthful
    <2> SUFFICES ASSUME TypeOK, VettedInv, AnsweredInv, NEW r \in Req, reply[r].kind = "answer"
                 PROVE  /\ reply[r].verified = (Declared(doc) # {})
                        /\ reply[r].verified => given[r] \in Declared(doc)
                        /\ resp[r] = reply[r].status
      BY DEF EgressVerifiedTruthful
    <2>1. Answered(r) /\ Vetted(r)
      BY DEF AnsweredInv, VettedInv
    <2>2. Pinned = Declared(doc) /\ ~Unreadable
      BY <2>1, PinnedDeclared DEF Answered
    <2> QED
      BY <2>1, <2>2 DEF Answered, Vetted, Enforced, Trusted
  <1> QED
    BY <1>1, AnswersInvariant, PTL

\* A provider that pins its callers forwards a refusal only to a consumer without
\* an identity: the certificate is always the one minted for the session.
THEOREM IdentitiesAccepted == Spec => []IdentityAccepted
  <1>1. AnsweredInv => IdentityAccepted
    BY ReplyFields DEF AnsweredInv, Answered, IdentityAccepted
  <1> QED
    BY <1>1, AnswersInvariant, PTL

(***************************************************************************)
(* The promise is kept                                                     *)
(***************************************************************************)

Phases == [r \in Req |-> PhaseOf(r)]

LEMMA InitPromise == TypeOK /\ Init => Promise!Init
  <1> SUFFICES ASSUME TypeOK, Init PROVE Promise!Init
    OBVIOUS
  <1>1. Trusted \in SUBSET Endpoint
    BY DeclaredIds DEF TypeOK, Trusted
  <1>2. \A r \in Req : PhaseOf(r) = "pending"
    BY ReplyFields DEF Init, PhaseOf
  <1>3. given = [r \in Req |-> Nobody]
    BY DEF Init
  <1> QED
    BY <1>1, <1>2, <1>3 DEF Promise!Init

\* A step of the handler of r moves r from one phase to another.
LEMMA PhaseMoves ==
  ASSUME NEW r \in Req, Others(r), PhaseOf(r)' # PhaseOf(r)
  PROVE  Phases' = [Phases EXCEPT ![r] = PhaseOf(r)']
  BY DEF Others, Phases, PhaseOf

LEMMA PhaseStutters ==
  ASSUME UNCHANGED <<doc, given, reply>>
  PROVE  UNCHANGED <<Trusted, Phases, given>>
  BY DEF Trusted, Unreadable, Phases, PhaseOf

\* An error before the prompt is out is a refusal.
LEMMA StepRefuses ==
  ASSUME TypeOK, VettedInv, NEW r \in Req, pc[r] \notin {"sent", "done"},
         NEW status \in {403, 500, 502}, Reply(r, Error(status)), UNCHANGED <<doc, conn, given>>
  PROVE  Promise!Next
  <1>1. Others(r) /\ reply'[r] = Error(status)
    BY DEF TypeOK, Reply, Others
  <1>2. given[r] = Nobody /\ reply[r].kind = "none"
    BY DEF VettedInv, Vetted
  <1>3. PhaseOf(r) = "pending" /\ PhaseOf(r)' = "refused"
    BY <1>1, <1>2, ReplyFields DEF PhaseOf
  <1>4. Phases' = [Phases EXCEPT ![r] = "refused"]
    BY <1>1, <1>3, PhaseMoves
  <1>5. UNCHANGED <<Trusted, given>>
    BY DEF Trusted, Unreadable
  <1> QED
    BY <1>3, <1>4, <1>5 DEF Promise!Next, Promise!Refuse, Promise!Moves, Phases

LEMMA NextPromise ==
  TypeOK /\ VettedInv /\ [Next]_vars => [Promise!Next]_<<Trusted, Phases, given>>
  <1> SUFFICES ASSUME TypeOK, VettedInv, [Next]_vars, ~ UNCHANGED <<Trusted, Phases, given>>
               PROVE  Promise!Next
    OBVIOUS
  <1> USE DEF config
  <1>0. \A r \in Req : Vetted(r)
    BY DEF VettedInv
  <1>1. ASSUME NEW r \in Req, Prepare(r) PROVE Promise!Next
    BY <1>1, StepRefuses, PhaseStutters DEF Prepare
  <1>2. ASSUME NEW r \in Req, Connect(r) PROVE Promise!Next
    BY <1>2, StepRefuses, PhaseStutters DEF Connect
  <1>3. ASSUME NEW r \in Req, Inspect(r) PROVE Promise!Next
    BY <1>3, StepRefuses, PhaseStutters DEF Inspect
  <1>4. ASSUME NEW r \in Req, Forward(r) PROVE Promise!Next
    <2>1. pc[r] = "forward" /\ UNCHANGED <<doc, conn>>
      BY <1>4 DEF Forward
    <2>2. CASE Reply(r, Error(502)) /\ UNCHANGED given
      BY <2>1, <2>2, StepRefuses
    <2>3. CASE given' = [given EXCEPT ![r] = conn[r].peer] /\ pc' = [pc EXCEPT ![r] = "sent"]
               /\ UNCHANGED reply
      <3>1. Others(r) /\ given'[r] = conn[r].peer
        BY <2>1, <2>3 DEF TypeOK, Others
      <3>2. /\ conn[r].peer \in Trusted /\ conn[r].peer # Nobody
            /\ given[r] = Nobody /\ reply[r].kind = "none"
        BY <1>0, <2>1, ConsumerAssumption DEF TypeOK, Vetted, Endpoint, Nobody
      <3>3. PhaseOf(r) = "pending" /\ PhaseOf(r)' = "released"
        BY <2>3, <3>1, <3>2 DEF PhaseOf
      <3>4. Phases' = [Phases EXCEPT ![r] = "released"]
        BY <3>1, <3>3, PhaseMoves
      <3>5. UNCHANGED Trusted
        BY <2>1 DEF Trusted, Unreadable
      <3> QED
        BY <2>3, <3>2, <3>3, <3>4, <3>5 DEF Promise!Next, Promise!Release, Promise!Moves, Phases
    <2> QED
      BY <1>4, <2>2, <2>3 DEF Forward
  <1>5. ASSUME NEW r \in Req, Answer(r) PROVE Promise!Next
    <2>1. pc[r] = "sent" /\ UNCHANGED <<doc, conn, given>>
      BY <1>5 DEF Answer
    <2>2. PICK how : Reply(r, how) /\ how.kind \in {"answer", "error"}
      BY <1>5, ReplyFields DEF Answer
    <2>3. Others(r) /\ reply'[r] = how
      BY <2>1, <2>2 DEF TypeOK, Reply, Others
    <2>4. given[r] # Nobody /\ reply[r].kind = "none"
      BY <1>0, <2>1 DEF Vetted
    <2>5. PhaseOf(r) = "released" /\ PhaseOf(r)' \in {"answered", "lost"}
      BY <2>1, <2>2, <2>3, <2>4 DEF PhaseOf
    <2>6. Phases' = [Phases EXCEPT ![r] = PhaseOf(r)']
      BY <2>3, <2>5, PhaseMoves
    <2>7. UNCHANGED <<Trusted, given>>
      BY <2>1 DEF Trusted, Unreadable
    <2> QED
      BY <2>5, <2>6, <2>7 DEF Promise!Next, Promise!Answer, Promise!Lose, Promise!Moves, Phases
  <1>6. ASSUME NEW r \in Req, Infer(r) PROVE FALSE
    BY <1>6, PhaseStutters DEF Infer
  <1>7. ASSUME NEW h \in Host, Redeploy(h) PROVE FALSE
    BY <1>7, PhaseStutters DEF Redeploy
  <1>8. CASE UNCHANGED vars
    BY <1>8, PhaseStutters DEF vars
  <1> QED
    BY <1>1, <1>2, <1>3, <1>4, <1>5, <1>6, <1>7, <1>8 DEF Next, Handler

\* handleAsk implements GuardedForward: a prompt is refused without leaving the
\* consumer, or is released once, to a trusted peer, before it is answered.
THEOREM KeepsPromise == Spec => PromiseKept
  <1>1. Spec => [](TypeOK /\ VettedInv)
    BY TypeCorrect, InitVetted, NextVetted, PTL DEF Spec
  <1> QED
    BY <1>1, InitType, InitPromise, NextPromise, PTL
    DEF Spec, PromiseKept, Promise!Spec, Promise!gvars, Phases
=============================================================================
