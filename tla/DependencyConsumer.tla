------------------------- MODULE DependencyConsumer -------------------------
(***************************************************************************)
(* container-app-dependency-consumer: handleAsk (main.go) and the pinned   *)
(* set it enforces (depcheck.go), in front of the provider's /infer        *)
(* (container-app-dependency-provider/main.go).  net/http runs a handler   *)
(* per request, so several /ask are in flight at once; a provider may be   *)
(* redeployed between any two steps.                                       *)
(*                                                                         *)
(* Abstraction: the identity a certificate carries is its app-id and its   *)
(* build (measurement and required OIDs together).  A request opens one    *)
(* TLS session under one fresh 32-byte nonce, so the request itself stands *)
(* for both its nonce and its channel binder; Elsewhere stands for the     *)
(* binder of a session that is not a request of this consumer.             *)
(*                                                                         *)
(* External: the RA-TLS SDK, the enclave manager, and the runtime that     *)
(* terminates RA-TLS in front of the provider.                             *)
(***************************************************************************)
EXTENDS Naturals

CONSTANTS
  Req,          \* /ask requests
  Host,         \* network endpoints a request can be pointed at
  App, Build,   \* app-ids, and builds of an app
  AppOf,        \* AppOf[h]: the app whose enclave answers at h, or None
  Url,          \* provider addresses: a host, and a port that parses or not
  DefaultHost,  \* defaultProviderURL
  Declarations, \* sets of identities an owner may declare
  Elsewhere,    \* a channel binder of some other session
  None,         \* no app, no build, no certificate, no value
  MaxRedeploys  \* bound: redeployments of providers

Id == [app : App, build : Build]

ASSUME ConsumerAssumption ==
  /\ AppOf \in [Host -> App \cup {None}]
  /\ None \notin App \cup Build \cup Req \cup [app : App \cup {None}, build : Build]
  /\ Elsewhere \notin Req
  /\ Url \subseteq [host : Host, port : {"ok", "bad"}] /\ None \notin Url
  /\ DefaultHost \in Host
  /\ Declarations \subseteq SUBSET Id /\ None \notin Declarations
  /\ MaxRedeploys \in Nat

\* Who can really be at the other end of a session.
Endpoint == [app : App \cup {None}, build : Build]
Nobody == None

(***************************************************************************)
(* Configuration: the environment variables, read but never written        *)
(***************************************************************************)

\* PRIVASYS_ATTESTED_DEPENDENCIES as a document: its outermost JSON shape and
\* the entries under it (None: an object without an "entries" array).
Doc ==
  [form : {"unset", "null", "malformed"}, entries : {None}]
    \cup [form : {"object"}, entries : Declarations \cup {None}]
    \cup [form : {"array"}, entries : Declarations]

\* What the owner declared, in whichever of the two accepted forms.
Declared(doc) == IF doc.entries = None THEN {} ELSE doc.entries

VARIABLES
  doc,        \* the pinned set the platform injected
  managerURL, \* whether PRIVASYS_MANAGER_URL is injected
  envURL,     \* PROVIDER_URL
  requires,   \* whether the providers' runtime pins its allowed callers
  build,      \* build[h]: the build now running at h
  redeploys,  \* how often a provider has been redeployed
  pc,         \* pc[r]: where the handler of r is
  target,     \* target[r]: the host r was resolved to
  identity,   \* identity[r]: whether r has a GetClientCertificate
  conn,       \* conn[r]: the RA-TLS session of r
  given,      \* given[r]: the endpoint that has r's prompt
  resp,       \* resp[r]: the provider's HTTP response
  reply       \* reply[r]: what r's caller was told

config == <<doc, managerURL, envURL, requires>>
vars == <<doc, managerURL, envURL, requires, build, redeploys,
          pc, target, identity, conn, given, resp, reply>>

Identity(h) == [app |-> AppOf[h], build |-> build[h]]

(***************************************************************************)
(* depcheck.go                                                             *)
(***************************************************************************)

ParseError == [err |-> TRUE, entries |-> {}]
ParsedSet(entries) == [err |-> FALSE, entries |-> entries]

\* Mutant: the error of the second decode is dropped with its value.
ParsePinnedSetLenient(d) ==
  IF d.form = "object" /\ d.entries # None THEN ParsedSet(d.entries) ELSE ParsedSet({})

\* ParsePinnedSet: an empty value is the empty set; an object is taken when its
\* entries are not nil; everything else must decode as a bare array, which
\* `null` does, to no entries.
ParsePinnedSet(d) ==
  IF d.form = "unset" THEN ParsedSet({})
  ELSE IF d.form = "object" /\ d.entries # None THEN ParsedSet(d.entries)
  ELSE IF d.form = "array" THEN ParsedSet(d.entries)
  ELSE IF d.form = "null" THEN ParsedSet({})
  ELSE ParseError

Pinned == ParsePinnedSet(doc).entries

\* enforceEgress, main.go.
Enforced == Pinned # {}

(***************************************************************************)
(* The SDK, as handleAsk uses it                                           *)
(***************************************************************************)

NoCert == [app |-> None, build |-> None, nonce |-> None, binder |-> None]

\* The certificate an enclave mints for session r: it commits to r's nonce and
\* to r's channel binder.
Minted(h, r) == [app |-> AppOf[h], build |-> build[h], nonce |-> r, binder |-> r]

\* What a host may present in session r: none; if it is an enclave its own; and
\* a genuine certificate minted in another session, even one for r's nonce.
Presented(h, r) ==
  {NoCert}
    \cup {Minted(g, r) : g \in {h} \cap {e \in Host : AppOf[e] # None}}
    \cup {[Minted(g, n) EXCEPT !.binder = Elsewhere] :
            g \in {e \in Host : AppOf[e] # None}, n \in Req}

\* Mutant: the quote is checked against the nonce but not against the session.
CertBoundNonceOnly(c, r) == c.nonce = r

\* VerifyRaTlsCertBound with this request's nonce and channel binder.
CertBound(c, r) == c.nonce = r /\ c.binder = r

\* VerifyPeer: the entry of the peer's app-id, with a matching measurement.
VerifyPeer(c, entries) == [app |-> c.app, build |-> c.build] \in entries

NoConn == [peer |-> Nobody, cert |-> NoCert, client |-> None, alive |-> FALSE]

\* Mutant: the client certificate of an earlier session is presented again.
ClientCertificateCached(r) == IF identity[r] THEN Elsewhere ELSE None

\* GetClientCertificate: minted during the handshake for this session's binder.
ClientCertificate(r) == IF identity[r] THEN r ELSE None

(***************************************************************************)
(* handleAsk                                                               *)
(***************************************************************************)

NoReply == [kind |-> "none", status |-> 0, verified |-> FALSE]
Error(status) == [kind |-> "error", status |-> status, verified |-> FALSE]
Forwarded(status) == [kind |-> "answer", status |-> status, verified |-> Enforced]

Reply(r, how) ==
  /\ pc' = [pc EXCEPT ![r] = "done"]
  /\ reply' = [reply EXCEPT ![r] = how]

\* Mutant: without an override and an environment there is no provider.
ProviderHostPortNoDefault(url) ==
  IF url # None THEN url
  ELSE IF envURL # None THEN envURL
  ELSE [host |-> None, port |-> "ok"]

\* providerHostPort: the body's URL, else the environment's, else the default.
ProviderHostPort(url) ==
  IF url # None THEN url
  ELSE IF envURL # None THEN envURL
  ELSE [host |-> DefaultHost, port |-> "ok"]

\* Up to the connection nothing leaves the handler: resolve the provider, read
\* the pinned set, draw a nonce, each of which may end in a 500 (drawing fails in
\* any configuration), and ask the manager for a client identity, whose absence is
\* logged and otherwise ignored.
Prepare(r) ==
  /\ pc[r] = "asked"
  /\ \/ Reply(r, Error(500)) /\ UNCHANGED <<target, identity>>
     \/ \E url \in Url \cup {None} :
          LET to == ProviderHostPort(url) IN
          /\ to.port = "ok" /\ ~ParsePinnedSet(doc).err
          /\ target' = [target EXCEPT ![r] = to.host]
          /\ \E has \in {FALSE, managerURL} : identity' = [identity EXCEPT ![r] = has]
          /\ pc' = [pc EXCEPT ![r] = "connect"]
          /\ UNCHANGED reply
  /\ UNCHANGED <<config, build, redeploys, conn, given, resp>>

\* ratls.Connect: the handshake, or its failure.
Connect(r) ==
  /\ pc[r] = "connect"
  /\ \/ /\ \E c \in Presented(target[r], r) :
             conn' = [conn EXCEPT ![r] = [peer |-> Identity(target[r]), cert |-> c,
                                          client |-> ClientCertificate(r), alive |-> TRUE]]
        /\ pc' = [pc EXCEPT ![r] = "inspect"]
        /\ UNCHANGED reply
     \/ Reply(r, Error(502)) /\ UNCHANGED conn
  /\ UNCHANGED <<config, build, redeploys, target, identity, given, resp>>

\* Mutant: the pin is checked on the answer, after the prompt has been sent.
InspectAfterSending(r) ==
  /\ pc[r] = "inspect"
  /\ given' = [given EXCEPT ![r] = conn[r].peer]
  /\ IF Enforced /\ ~(CertBound(conn[r].cert, r) /\ VerifyPeer(conn[r].cert, Pinned))
     THEN Reply(r, Error(403))
     ELSE pc' = [pc EXCEPT ![r] = "forward"] /\ UNCHANGED reply
  /\ UNCHANGED <<config, build, redeploys, target, identity, conn, resp>>

\* Mutant: a host that has been vetted for one request is not vetted again.
InspectOnce(r) ==
  LET vetted == \E q \in Req : q # r /\ target[q] = target[r] /\ reply[q].verified IN
  /\ pc[r] = "inspect"
  /\ \/ /\ ~vetted /\ Enforced
        /\ ~(CertBound(conn[r].cert, r) /\ VerifyPeer(conn[r].cert, Pinned))
        /\ Reply(r, Error(403))
     \/ /\ \/ vetted \/ ~Enforced
           \/ CertBound(conn[r].cert, r) /\ VerifyPeer(conn[r].cert, Pinned)
        /\ pc' = [pc EXCEPT ![r] = "forward"]
        /\ UNCHANGED reply
  /\ UNCHANGED <<config, build, redeploys, target, identity, conn, given, resp>>

\* The checks between the handshake and the first application byte.  The quote
\* is also confirmed by the attestation servers, which may be out of reach.
Inspect(r) ==
  LET c == conn[r].cert IN
  /\ pc[r] = "inspect"
  /\ \/ c = NoCert /\ Reply(r, Error(502))
     \/ c # NoCert /\ Enforced /\ Reply(r, Error(502))
     \/ c # NoCert /\ Enforced /\ CertBound(c, r) /\ ~VerifyPeer(c, Pinned) /\ Reply(r, Error(403))
     \/ /\ c # NoCert
        /\ Enforced => CertBound(c, r) /\ VerifyPeer(c, Pinned)
        /\ pc' = [pc EXCEPT ![r] = "forward"]
        /\ UNCHANGED reply
  /\ UNCHANGED <<config, build, redeploys, target, identity, conn, given, resp>>

\* client.HTTPDo, the request: the bytes reach the other end of the session, or
\* the session is found dead and nothing is sent.
Forward(r) ==
  /\ pc[r] = "forward"
  /\ \/ /\ conn[r].alive
        /\ given' = [given EXCEPT ![r] = conn[r].peer]
        /\ pc' = [pc EXCEPT ![r] = "sent"]
        /\ UNCHANGED reply
     \/ Reply(r, Error(502)) /\ UNCHANGED given
  /\ UNCHANGED <<config, build, redeploys, target, identity, conn, resp>>

\* client.HTTPDo, the response: forwarded with its status, or lost after the
\* provider may have acted on the prompt.
Answer(r) ==
  /\ pc[r] = "sent"
  /\ \/ resp[r] # None /\ Reply(r, Forwarded(resp[r]))
     \/ Reply(r, Error(502))
  /\ UNCHANGED <<config, build, redeploys, target, identity, conn, given, resp>>

(***************************************************************************)
(* The provider                                                            *)
(***************************************************************************)

\* External: the runtime in front of an enclave that pins its callers admits a
\* client certificate bound to the session it arrives on, and no other.
Admits(r) == requires /\ conn[r].peer.app # None => conn[r].client = r

\* /infer, behind the runtime: refused with 403, or processed with 200.
Infer(r) ==
  /\ pc[r] = "sent"
  /\ resp[r] = None
  /\ conn[r].alive
  /\ resp' = [resp EXCEPT ![r] = IF Admits(r) THEN 200 ELSE 403]
  /\ UNCHANGED <<config, build, redeploys, pc, target, identity, conn, given, reply>>

\* External: a host is redeployed; the sessions to the old build are gone.
Redeploy(h) ==
  /\ redeploys < MaxRedeploys
  /\ redeploys' = redeploys + 1
  /\ \E b \in Build \ {build[h]} : build' = [build EXCEPT ![h] = b]
  /\ conn' = [r \in Req |-> IF target[r] = h THEN [conn[r] EXCEPT !.alive = FALSE] ELSE conn[r]]
  /\ UNCHANGED <<config, pc, target, identity, given, resp, reply>>

(***************************************************************************)
(* Specification                                                           *)
(***************************************************************************)

Init ==
  /\ doc \in Doc
  /\ managerURL \in BOOLEAN
  /\ envURL \in Url \cup {None}
  /\ requires \in BOOLEAN
  /\ build \in [Host -> Build]
  /\ redeploys = 0
  /\ pc = [r \in Req |-> "asked"]
  /\ target = [r \in Req |-> None]
  /\ identity = [r \in Req |-> FALSE]
  /\ conn = [r \in Req |-> NoConn]
  /\ given = [r \in Req |-> Nobody]
  /\ resp = [r \in Req |-> None]
  /\ reply = [r \in Req |-> NoReply]

Handler(r) == Prepare(r) \/ Connect(r) \/ Inspect(r) \/ Forward(r) \/ Answer(r)

Next ==
  \/ \E r \in Req : Handler(r) \/ Infer(r)
  \/ \E h \in Host : Redeploy(h)

Spec == Init /\ [][Next]_vars

(***************************************************************************)
(* Properties                                                              *)
(***************************************************************************)

Certificate ==
  [app : App, build : Build, nonce : Req, binder : Req \cup {Elsewhere}] \cup {NoCert}
Session ==
  [peer : Endpoint \cup {Nobody}, cert : Certificate, client : Req \cup {None}, alive : BOOLEAN]
ReplyType ==
  [kind : {"none", "error", "answer"}, status : {0, 200, 403, 500, 502}, verified : BOOLEAN]

\* Types; a handler that is past its preparation has a provider, and one past
\* the handshake a session.
TypeOK ==
  /\ doc \in Doc /\ managerURL \in BOOLEAN /\ requires \in BOOLEAN
  /\ envURL \in Url \cup {None}
  /\ build \in [Host -> Build] /\ redeploys \in 0 .. MaxRedeploys
  /\ pc \in [Req -> {"asked", "connect", "inspect", "forward", "sent", "done"}]
  /\ target \in [Req -> Host \cup {None}]
  /\ identity \in [Req -> BOOLEAN]
  /\ conn \in [Req -> Session]
  /\ given \in [Req -> Endpoint \cup {Nobody}]
  /\ resp \in [Req -> {None, 200, 403}]
  /\ reply \in [Req -> ReplyType]
  /\ \A r \in Req : pc[r] \notin {"asked", "done"} => target[r] \in Host
  /\ \A r \in Req : pc[r] \in {"inspect", "forward", "sent"} => conn[r].peer \in Endpoint

\* A document that is neither of the two accepted forms nor says that there is none:
\* JSON that does not decode, or an object without an "entries" array.
Unreadable == doc.form = "malformed" \/ (doc.form = "object" /\ doc.entries = None)

\* Who may be given a prompt: what the owner declared, or anyone when nothing is
\* declared (handleAsk skips the egress check then), and nobody when what the owner
\* declared cannot be read.
Trusted ==
  IF Unreadable THEN {} ELSE IF Declared(doc) = {} THEN Endpoint ELSE Declared(doc)

\* A prompt only ever reaches an enclave the owner declared, in either form of
\* the document, and nobody when the document does not decode, which is not the same
\* as declaring nothing: not a host relaying another session's certificate, not an
\* undeclared app, not a build that replaced the declared one between the checks
\* and the call or between two calls (handleAsk, depcheck.go).
PromptOnlyToDeclared == \A r \in Req : given[r] # Nobody => given[r] \in Trusted

\* A caller told 500, or 403 by the consumer itself, may take it that no peer
\* has the prompt: the checks come before the first application byte.
RefusalReleasesNothing ==
  \A r \in Req : reply[r].kind = "error" /\ reply[r].status \in {403, 500} => given[r] = Nobody

\* egress_verified says whether the answer comes from an enclave the owner
\* declared; it is false only where the owner declared nothing.
EgressVerifiedTruthful ==
  \A r \in Req : reply[r].kind = "answer" =>
    /\ reply[r].verified = (Declared(doc) # {})
    /\ reply[r].verified => given[r] \in Declared(doc)
    /\ resp[r] = reply[r].status

\* Mutual leg: a provider that pins its callers turns a request away only when
\* the manager gave the consumer no identity; the certificate presented is the
\* one minted for this very session, however many sessions are open.
IdentityAccepted ==
  \A r \in Req : reply[r] = Forwarded(403) => ~identity[r]

\* The phase of a request, as its caller and the peer it was sent to know it.
PhaseOf(r) ==
  IF given[r] = Nobody
  THEN IF reply[r].kind = "none" THEN "pending" ELSE "refused"
  ELSE IF reply[r].kind = "none" THEN "released"
  ELSE IF reply[r].kind = "error" THEN "lost" ELSE "answered"

Promise == INSTANCE GuardedForward WITH
  Peer <- Endpoint, trusted <- Trusted, phase <- [r \in Req |-> PhaseOf(r)], holder <- given

\* handleAsk keeps the promise of GuardedForward for every request at once.
PromiseKept == Promise!Spec
=============================================================================
