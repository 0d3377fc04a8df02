--------------------------- MODULE RelyingParties ---------------------------
(***************************************************************************)
(* The relying parties the suite registers with the platform (suite.go,    *)
(* Env.client and Env.confidentialClient; platform.go, ListClients and     *)
(* RegisterClient).  Several runs of the suite may share the account, each *)
(* with a cache of its own that ends with it; a call may fail, and the     *)
(* answer to a registration may be lost.                                   *)
(*                                                                         *)
(* Abstraction: a name "qa-<label>-<hash of the whitelist>" is the pair of *)
(* its label and its whitelist.                                            *)
(***************************************************************************)
EXTENDS Naturals, FiniteSets

CONSTANTS
  Run,        \* runs of the suite that share an account
  Client,     \* client ids the platform hands out
  Label,      \* labels of cases
  Whitelist,  \* whitelists cases ask for, or an edit can leave behind
  None,
  MaxFaults,  \* bound: failed calls, lost answers, runs killed
  MaxDrifts   \* bound: whitelists edited on the platform

Want == [label : Label, attrs : Whitelist]

\* What a relying party can be called, and what the platform keeps of one.
NameType == [label : Label \cup {None}, hash : Whitelist \cup {None}]
PartyType == [name : NameType, attrs : Whitelist]

ASSUME RelyingAssumption ==
  /\ IsFiniteSet(Run) /\ IsFiniteSet(Client)
  /\ None \notin Client \cup Label \cup Whitelist \cup Want \cup PartyType
  /\ MaxFaults \in Nat /\ MaxDrifts \in Nat

VARIABLES
  registered,  \* platform: registered[c], the relying party with id c, or None
  cache,       \* cache[r]: Env.clients of run r, by name
  pc,          \* pc[r]: the next call of run r
  want,        \* want[r]: the label and whitelist the running case asks for
  got,         \* got[r]: the *OAuthClient the running case holds
  listFails,   \* how many ListClients calls have failed
  faults,      \* how many faults have happened
  drifts       \* how many whitelists have been edited

vars == <<registered, cache, pc, want, got, listFails, faults, drifts>>

\* Mutant: the name leaves the whitelist out.
NameByLabel(w) == [label |-> w.label, hash |-> None]

\* The name of the relying party for an exact whitelist.
Name(w) == [label |-> w.label, hash |-> w.attrs]

\* What a confidential client is called: a random suffix that matches nothing.
Unique == [label |-> None, hash |-> None]

Names == {Name(w) : w \in Want}

\* A relying party on the platform, and the copy of it a run holds.
Party(name, attrs) == [name |-> name, attrs |-> attrs]
OAuthClient(c, attrs, secret) == [id |-> c, attrs |-> attrs, secret |-> secret]
NoClient == OAuthClient(None, None, FALSE)

Fault == faults < MaxFaults /\ faults' = faults + 1

\* The case goes on with a client: to sign-ins, or to an exchange of a code.
Holds(r, client, stage) ==
  /\ got' = [got EXCEPT ![r] = client]
  /\ pc' = [pc EXCEPT ![r] = stage]
  /\ UNCHANGED want

\* The case is over: it has asserted what it came for, or a call has failed.
CaseOver(r) ==
  /\ got' = [got EXCEPT ![r] = NoClient]
  /\ pc' = [pc EXCEPT ![r] = "idle"]
  /\ want' = [want EXCEPT ![r] = None]

(***************************************************************************)
(* Env.client                                                              *)
(***************************************************************************)

\* A case asks for a relying party with a whitelist: the cache first.
NeedClient(r) ==
  /\ pc[r] = "idle"
  /\ \E w \in Want :
       /\ want' = [want EXCEPT ![r] = w]
       /\ got' = [got EXCEPT ![r] = cache[r][Name(w)]]
       /\ pc' = [pc EXCEPT ![r] = IF cache[r][Name(w)] = NoClient THEN "list" ELSE "holds"]
  /\ UNCHANGED <<registered, cache, listFails, faults, drifts>>

Existing(r) == {c \in Client : registered[c] # None /\ registered[c].name = Name(want[r])}

\* Mutant: what an earlier run registered is not looked for.
ListClientsIgnored(r) ==
  /\ pc[r] = "list"
  /\ pc' = [pc EXCEPT ![r] = "register"]
  /\ UNCHANGED <<registered, cache, want, got, listFails, faults, drifts>>

\* ListClients: the first of that name, without its secret, is reused; an error
\* is treated as an account without it.
ListClients(r) ==
  /\ pc[r] = "list"
  /\ \/ \E c \in Existing(r) :
          LET found == OAuthClient(c, registered[c].attrs, FALSE) IN
          /\ cache' = [cache EXCEPT ![r][Name(want[r])] = found]
          /\ Holds(r, found, "holds")
          /\ UNCHANGED <<listFails, faults>>
     \/ /\ Existing(r) = {}
        /\ pc' = [pc EXCEPT ![r] = "register"]
        /\ UNCHANGED <<cache, want, got, listFails, faults>>
     \/ /\ Fault
        /\ listFails' = listFails + 1
        /\ pc' = [pc EXCEPT ![r] = "register"]
        /\ UNCHANGED <<cache, want, got>>
  /\ UNCHANGED <<registered, drifts>>

\* A registration the platform carries out; its answer can be lost.
Free == {c \in Client : registered[c] = None}
Registered(r, name, stage, c) ==
  /\ registered' = [registered EXCEPT ![c] = Party(name, want[r].attrs)]
  /\ \/ Holds(r, OAuthClient(c, want[r].attrs, TRUE), stage) /\ UNCHANGED faults
     \/ Fault /\ CaseOver(r)

\* Mutant: the error of a registration is not looked at.
NotRegisteredIgnored(r) ==
  /\ Fault \/ (Free = {} /\ UNCHANGED faults)
  /\ pc' = [pc EXCEPT ![r] = "holds"]
  /\ UNCHANGED <<registered, want, got>>

\* A registration it does not: lost, or refused by an account with no id left.
NotRegistered(r) ==
  /\ Fault \/ (Free = {} /\ UNCHANGED faults)
  /\ CaseOver(r)
  /\ UNCHANGED registered

\* RegisterClient, and the cache when it is answered.
RegisterClient(r) ==
  /\ pc[r] = "register"
  /\ NotRegistered(r) \/ \E c \in Free : Registered(r, Name(want[r]), "holds", c)
  /\ cache' = IF pc'[r] = "holds" THEN [cache EXCEPT ![r][Name(want[r])] = got'[r]] ELSE cache
  /\ UNCHANGED <<listFails, drifts>>

(***************************************************************************)
(* Env.confidentialClient                                                  *)
(***************************************************************************)

\* Mutant: a case that exchanges a code reuses a client like any other.
NeedSecretReused(r) ==
  /\ pc[r] = "idle"
  /\ \E w \in Want : want' = [want EXCEPT ![r] = w]
  /\ \E c \in Client :
       /\ registered[c] # None
       /\ got' = [got EXCEPT ![r] = OAuthClient(c, registered[c].attrs, FALSE)]
  /\ pc' = [pc EXCEPT ![r] = "exchanges"]
  /\ UNCHANGED <<registered, cache, listFails, faults, drifts>>

\* A case that exchanges a code needs the secret, which only a registration
\* returns: it never looks for a client it has.
NeedSecret(r) ==
  /\ pc[r] = "idle"
  /\ \E w \in Want : want' = [want EXCEPT ![r] = w]
  /\ pc' = [pc EXCEPT ![r] = "registerFresh"]
  /\ UNCHANGED <<registered, cache, got, listFails, faults, drifts>>

\* Mutant: the client of an exchange is called what a later case will look for.
RegisterFreshNamed(r) ==
  /\ pc[r] = "registerFresh"
  /\ NotRegistered(r) \/ \E c \in Free : Registered(r, Name(want[r]), "exchanges", c)
  /\ UNCHANGED <<cache, listFails, drifts>>

RegisterFresh(r) ==
  /\ pc[r] = "registerFresh"
  /\ NotRegistered(r) \/ \E c \in Free : Registered(r, Unique, "exchanges", c)
  /\ UNCHANGED <<cache, listFails, drifts>>

(***************************************************************************)
(* Runs and the platform                                                   *)
(***************************************************************************)

EndCase(r) ==
  /\ pc[r] \in {"holds", "exchanges"}
  /\ CaseOver(r)
  /\ UNCHANGED <<registered, cache, listFails, faults, drifts>>

\* The run ends, or is killed, and another begins with an empty cache.
NextRun(r) ==
  /\ (pc[r] = "idle" /\ UNCHANGED faults) \/ Fault
  /\ CaseOver(r)
  /\ cache' = [cache EXCEPT ![r] = [n \in Names |-> NoClient]]
  /\ UNCHANGED <<registered, listFails, drifts>>

\* External: somebody edits a relying party's whitelist, as the migration onto
\* `_id` keys did.
Drift(c) ==
  /\ drifts < MaxDrifts
  /\ registered[c] # None
  /\ \E attrs \in Whitelist \ {registered[c].attrs} :
       registered' = [registered EXCEPT ![c].attrs = attrs]
  /\ drifts' = drifts + 1
  /\ UNCHANGED <<cache, pc, want, got, listFails, faults>>

(***************************************************************************)
(* Specification                                                           *)
(***************************************************************************)

Init ==
  /\ registered = [c \in Client |-> None]
  /\ cache = [r \in Run |-> [n \in Names |-> NoClient]]
  /\ pc = [r \in Run |-> "idle"]
  /\ want = [r \in Run |-> None]
  /\ got = [r \in Run |-> NoClient]
  /\ listFails = 0
  /\ faults = 0
  /\ drifts = 0

Next ==
  \/ \E r \in Run :
       \/ NeedClient(r) \/ ListClients(r) \/ RegisterClient(r)
       \/ NeedSecret(r) \/ RegisterFresh(r) \/ EndCase(r) \/ NextRun(r)
  \/ \E c \in Client : Drift(c)

Spec == Init /\ [][Next]_vars

(***************************************************************************)
(* Properties                                                              *)
(***************************************************************************)

ClientType == [id : Client, attrs : Whitelist, secret : BOOLEAN]

\* Every variable has its type, and a run knows what it asks for from the moment
\* it asks until its case is over.
TypeOK ==
  /\ registered \in [Client -> PartyType \cup {None}]
  /\ \A c \in Client : registered[c] # None => registered[c].name \in Names \cup {Unique}
  /\ cache \in [Run -> [Names -> ClientType \cup {NoClient}]]
  /\ pc \in [Run -> {"idle", "list", "register", "registerFresh", "holds", "exchanges"}]
  /\ want \in [Run -> Want \cup {None}]
  /\ got \in [Run -> ClientType \cup {NoClient}]
  /\ \A r \in Run : /\ want[r] = None <=> pc[r] = "idle"
                    /\ got[r] # NoClient <=> pc[r] \in {"holds", "exchanges"}
  /\ listFails \in 0..faults
  /\ faults \in 0..MaxFaults
  /\ drifts \in 0..MaxDrifts

\* A case that has a relying party asserts things about its ceiling, so it must
\* be the whitelist the case asked for, on the platform and not only in the run's
\* copy of it: Env.client may find it in the cache, on the account or register it,
\* while other runs do the same.
ExactCeiling ==
  drifts = 0 =>
    \A r \in Run : got[r] # NoClient =>
      /\ registered[got[r].id] # None
      /\ registered[got[r].id].attrs = want[r].attrs

\* The reuse of suite.go:79-83 does keep the pile down: however many runs there
\* are, one after the other, an account never has more relying parties of a name
\* than runs that were at it at once, and one for each time the list could not be
\* read.  A registration whose answer is lost adds nothing: it is found next time.
PileBounded ==
  \A n \in Names :
    Cardinality({c \in Client : registered[c] # None /\ registered[c].name = n})
      <= Cardinality(Run) + listFails

\* A case that exchanges a code has the secret of its relying party, and no other
\* case has that relying party, in hand or in a cache: the platform shows a secret
\* once, and Env.client must not hand out what Env.confidentialClient registered.
SecretOfItsOwn ==
  \A r \in Run : pc[r] = "exchanges" =>
    /\ got[r].secret
    /\ \A s \in Run : /\ s # r => got[s].id # got[r].id
                      /\ \A n \in Names : cache[s][n].id # got[r].id

\* What the platform keeps of a relying party, by the order it was opened for.
Opened(x) ==
  IF x = None THEN [order |-> None, ceiling |-> None]
  ELSE [order |-> IF x.name = Unique THEN None ELSE [label |-> x.name.label, attrs |-> x.name.hash],
        ceiling |-> x.attrs]

\* What a run works with: alone if it has the secret to exchange a code with.
Leased(r) ==
  IF got[r] = NoClient THEN [party |-> None, order |-> None, alone |-> FALSE]
  ELSE [party |-> got[r].id, order |-> want[r], alone |-> pc[r] = "exchanges" /\ got[r].secret]

\* The relying parties are what PartyLeases says of them: whatever runs overlap, fail
\* or lose an answer, a case is handed one opened for its own label and whitelist, and
\* one that is opened to exchange a code is handed out in that very step or never.
Promise == INSTANCE PartyLeases WITH
  Order <- Want, Ceiling <- Whitelist,
  party <- [c \in Client |-> Opened(registered[c])], lease <- [r \in Run |-> Leased(r)]

LeasesKept == Promise!Spec

\* What suite.go:84-86 says of Env.client: a client whose ceiling has drifted is
\* never silently reused.  The list it reads carries the whitelist of every client,
\* and it compares names only.
DriftedNeverReused ==
  [][\A r \in Run : pc[r] = "list" /\ pc'[r] = "holds" => got'[r].attrs = want[r].attrs]_vars
=============================================================================
