------------------------ MODULE RelyingPartiesProofs ------------------------
(***************************************************************************)
(* What holds of RelyingParties for any number of runs, clients, labels    *)
(* and whitelists.                                                         *)
(***************************************************************************)
EXTENDS RelyingParties, FiniteSetTheorems, TLAPS

(***************************************************************************)
(* Names, parties and copies of them                                       *)
(***************************************************************************)

LEMMA NameFacts ==
  /\ Names \subseteq NameType /\ Unique \in NameType /\ Unique \notin Names
  /\ \A w \in Want : Name(w) \in Names /\ Name(w).hash = w.attrs /\ w.attrs \in Whitelist /\ w # None
  <1>1. \A w \in Want : w.label \in Label /\ w.attrs \in Whitelist /\ w # None
    BY RelyingAssumption DEF Want
  <1>2. \A w \in Want : Name(w) \in NameType /\ Name(w).hash = w.attrs /\ Name(w) # Unique
    BY <1>1, RelyingAssumption DEF Name, NameType, Unique
  <1>3. Unique \in NameType
    BY DEF Unique, NameType
  <1> QED
    BY <1>1, <1>2, <1>3 DEF Names

LEMMA PartyFacts ==
  ASSUME NEW n \in Names \cup {Unique}, NEW a \in Whitelist
  PROVE  /\ Party(n, a) \in PartyType
         /\ Party(n, a) # None
         /\ Party(n, a).name = n
         /\ Party(n, a).attrs = a
  BY NameFacts, RelyingAssumption DEF Party, PartyType

LEMMA ClientFacts ==
  /\ NoClient \notin ClientType /\ NoClient.id = None
  /\ \A x \in ClientType : x.id \in Client /\ x.attrs \in Whitelist /\ x # NoClient
  /\ \A c \in Client, a \in Whitelist, s \in BOOLEAN :
       /\ OAuthClient(c, a, s) \in ClientType
       /\ OAuthClient(c, a, s).id = c
       /\ OAuthClient(c, a, s).secret = s
  BY RelyingAssumption DEF ClientType, NoClient, OAuthClient

(***************************************************************************)
(* Type correctness                                                        *)
(***************************************************************************)

PC == {"idle", "list", "register", "registerFresh", "holds", "exchanges"}

\* The part of TypeOK about one run.
RunOK(r) ==
  /\ want[r] = None <=> pc[r] = "idle"
  /\ got[r] # NoClient <=> pc[r] \in {"holds", "exchanges"}

LEMMA TypeUnfold ==
  TypeOK <=>
    /\ registered \in [Client -> PartyType \cup {None}]
    /\ \A c \in Client : registered[c] # None => registered[c].name \in Names \cup {Unique}
    /\ cache \in [Run -> [Names -> ClientType \cup {NoClient}]]
    /\ pc \in [Run -> PC]
    /\ want \in [Run -> Want \cup {None}]
    /\ got \in [Run -> ClientType \cup {NoClient}]
    /\ \A r \in Run : RunOK(r)
    /\ listFails \in 0..faults
    /\ faults \in 0..MaxFaults
    /\ drifts \in 0..MaxDrifts
  BY DEF TypeOK, RunOK, PC

LEMMA FaultType ==
  ASSUME TypeOK, Fault \/ UNCHANGED faults
  PROVE  /\ faults' \in 0..MaxFaults /\ faults' >= faults /\ 0..faults \subseteq 0..faults'
         /\ Fault => \A k \in 0..faults : k + 1 \in 0..faults'
  BY RelyingAssumption, TypeUnfold DEF Fault

\* What the end of a case and the hold of a client do to the run.
LEMMA CaseOverType ==
  ASSUME TypeOK, NEW r \in Run, CaseOver(r)
  PROVE  /\ pc' \in [Run -> PC] /\ want' \in [Run -> Want \cup {None}]
         /\ got' \in [Run -> ClientType \cup {NoClient}]
         /\ \A s \in Run : RunOK(s)'
         /\ pc'[r] = "idle" /\ got'[r] = NoClient /\ want'[r] = None
         /\ \A s \in Run \ {r} : pc'[s] = pc[s] /\ got'[s] = got[s] /\ want'[s] = want[s]
  BY TypeUnfold DEF CaseOver, RunOK, PC

LEMMA HoldsType ==
  ASSUME TypeOK, NEW r \in Run, NEW x \in ClientType, NEW stage \in {"holds", "exchanges"},
         Holds(r, x, stage), pc[r] # "idle"
  PROVE  /\ pc' \in [Run -> PC] /\ want' \in [Run -> Want \cup {None}]
         /\ got' \in [Run -> ClientType \cup {NoClient}]
         /\ \A s \in Run : RunOK(s)'
         /\ pc'[r] = stage /\ got'[r] = x /\ want' = want
         /\ \A s \in Run \ {r} : pc'[s] = pc[s] /\ got'[s] = got[s]
  BY TypeUnfold, ClientFacts DEF Holds, RunOK, PC

\* A registration leaves a party of the name asked for and ends the case or holds it.
LEMMA RegisteredType ==
  ASSUME TypeOK, NEW r \in Run, NEW n \in Names \cup {Unique}, NEW stage \in {"holds", "exchanges"},
         NEW c \in Free, want[r] \in Want, Registered(r, n, stage, c)
  PROVE  /\ registered' \in [Client -> PartyType \cup {None}]
         /\ \A d \in Client : registered'[d] # None => registered'[d].name \in Names \cup {Unique}
         /\ registered'[c] # None /\ registered'[c].name = n /\ registered'[c].attrs = want[r].attrs
         /\ \A d \in Client \ {c} : registered'[d] = registered[d]
         /\ faults' \in 0..MaxFaults /\ faults' >= faults
         /\ c \in Client /\ registered[c] = None
  <1>1. c \in Client /\ registered[c] = None /\ want[r].attrs \in Whitelist
    BY NameFacts DEF Free
  <1>2. registered' = [registered EXCEPT ![c] = Party(n, want[r].attrs)]
    BY DEF Registered
  <1>3. /\ Party(n, want[r].attrs) \in PartyType /\ Party(n, want[r].attrs) # None
        /\ Party(n, want[r].attrs).name = n /\ Party(n, want[r].attrs).attrs = want[r].attrs
    BY <1>1, PartyFacts
  <1>4. faults' \in 0..MaxFaults /\ faults' >= faults
    BY FaultType DEF Registered
  <1> QED
    BY <1>1, <1>2, <1>3, <1>4, TypeUnfold

\* What a registration does to the run that made it.
LEMMA RegisteredRun ==
  ASSUME TypeOK, NEW r \in Run, NEW n \in Names \cup {Unique}, NEW stage \in {"holds", "exchanges"},
         NEW c \in Free, want[r] \in Want, pc[r] # "idle", Registered(r, n, stage, c)
  PROVE  /\ pc' \in [Run -> PC] /\ want' \in [Run -> Want \cup {None}]
         /\ got' \in [Run -> ClientType \cup {NoClient}]
         /\ \A s \in Run : RunOK(s)'
         /\ \A s \in Run \ {r} : pc'[s] = pc[s] /\ got'[s] = got[s] /\ want'[s] = want[s]
         /\ \/ /\ pc'[r] = stage /\ want'[r] = want[r]
               /\ got'[r] \in ClientType /\ got'[r].id = c /\ got'[r].secret
            \/ pc'[r] = "idle" /\ got'[r] = NoClient /\ want'[r] = None
  <1>1. /\ OAuthClient(c, want[r].attrs, TRUE) \in ClientType
        /\ OAuthClient(c, want[r].attrs, TRUE).id = c /\ OAuthClient(c, want[r].attrs, TRUE).secret = TRUE
    BY NameFacts, ClientFacts DEF Free
  <1>2. CASE Holds(r, OAuthClient(c, want[r].attrs, TRUE), stage)
    BY <1>1, <1>2, HoldsType
  <1>3. CASE CaseOver(r)
    BY <1>3, CaseOverType
  <1> QED
    BY <1>2, <1>3 DEF Registered

LEMMA NotRegisteredType ==
  ASSUME TypeOK, NEW r \in Run, NotRegistered(r)
  PROVE  CaseOver(r) /\ registered' = registered /\ faults' \in 0..MaxFaults /\ faults' >= faults
  BY FaultType DEF NotRegistered

LEMMA InitType == Init => TypeOK
  BY RelyingAssumption, ClientFacts DEF Init, TypeOK

LEMMA NextType == TypeOK /\ [Next]_vars => TypeOK'
  <1> SUFFICES ASSUME TypeOK, [Next]_vars PROVE TypeOK'
    OBVIOUS
  <1>u. TypeOK' <=>
          /\ registered' \in [Client -> PartyType \cup {None}]
          /\ \A c \in Client : registered'[c] # None => registered'[c].name \in Names \cup {Unique}
          /\ cache' \in [Run -> [Names -> ClientType \cup {NoClient}]]
          /\ pc' \in [Run -> PC]
          /\ want' \in [Run -> Want \cup {None}]
          /\ got' \in [Run -> ClientType \cup {NoClient}]
          /\ \A r \in Run : RunOK(r)'
          /\ listFails' \in 0..faults'
          /\ faults' \in 0..MaxFaults
          /\ drifts' \in 0..MaxDrifts
    BY DEF TypeOK, RunOK, PC
  <1>1. ASSUME NEW r \in Run, NeedClient(r) PROVE TypeOK'
    <2>1. PICK w \in Want :
            /\ want' = [want EXCEPT ![r] = w]
            /\ got' = [got EXCEPT ![r] = cache[r][Name(w)]]
            /\ pc' = [pc EXCEPT ![r] = IF cache[r][Name(w)] = NoClient THEN "list" ELSE "holds"]
      BY <1>1 DEF NeedClient
    <2>2. cache[r][Name(w)] \in ClientType \cup {NoClient}
      BY NameFacts, TypeUnfold
    <2>3. /\ want' \in [Run -> Want \cup {None}] /\ got' \in [Run -> ClientType \cup {NoClient}]
          /\ pc' \in [Run -> PC] /\ \A s \in Run : RunOK(s)'
      BY <2>1, <2>2, TypeUnfold, NameFacts DEF RunOK, PC
    <2> QED
      BY <1>1, <1>u, <2>3, TypeUnfold DEF NeedClient
  <1>2. ASSUME NEW r \in Run, ListClients(r) PROVE TypeOK'
    <2>0. want[r] \in Want /\ Name(want[r]) \in Names /\ pc[r] = "list"
      BY <1>2, TypeUnfold, NameFacts DEF ListClients, RunOK
    <2>1. ASSUME NEW c \in Existing(r),
                 cache' = [cache EXCEPT ![r][Name(want[r])] = OAuthClient(c, registered[c].attrs, FALSE)],
                 Holds(r, OAuthClient(c, registered[c].attrs, FALSE), "holds"),
                 UNCHANGED <<listFails, faults>>
          PROVE  TypeOK'
      <3>1. OAuthClient(c, registered[c].attrs, FALSE) \in ClientType
        BY TypeUnfold, ClientFacts DEF Existing, PartyType
      <3>2. cache' \in [Run -> [Names -> ClientType \cup {NoClient}]]
        BY <2>0, <2>1, <3>1, TypeUnfold
      <3> QED
        BY <1>2, <1>u, <2>0, <2>1, <3>1, <3>2, HoldsType, TypeUnfold DEF ListClients
    <2>2. ASSUME pc' = [pc EXCEPT ![r] = "register"], UNCHANGED <<cache, want, got>>,
                 \/ listFails' = listFails /\ faults' = faults
                 \/ Fault /\ listFails' = listFails + 1
          PROVE  TypeOK'
      <3>1. pc' \in [Run -> PC] /\ \A s \in Run : RunOK(s)'
        BY <2>0, <2>2, TypeUnfold DEF RunOK, PC
      <3>2. listFails' \in 0..faults' /\ faults' \in 0..MaxFaults
        BY <2>2, FaultType, TypeUnfold
      <3> QED
        BY <1>2, <1>u, <2>2, <3>1, <3>2, TypeUnfold DEF ListClients
    <2> QED
      BY <1>2, <2>1, <2>2 DEF ListClients
  <1>3. ASSUME NEW r \in Run, RegisterClient(r) PROVE TypeOK'
    <2>0. want[r] \in Want /\ Name(want[r]) \in Names /\ pc[r] # "idle"
      BY <1>3, TypeUnfold, NameFacts DEF RegisterClient, RunOK
    <2>1. CASE NotRegistered(r)
      <3>1. cache' = cache
        BY <1>3, <2>1, NotRegisteredType, CaseOverType DEF RegisterClient
      <3> QED
        BY <1>3, <1>u, <2>1, <3>1, NotRegisteredType, CaseOverType, TypeUnfold DEF RegisterClient
    <2>2. ASSUME NEW c \in Free, Registered(r, Name(want[r]), "holds", c) PROVE TypeOK'
      <3>1. cache' \in [Run -> [Names -> ClientType \cup {NoClient}]]
        <4>1. got'[r] \in ClientType \cup {NoClient}
          BY <2>0, <2>2, RegisteredRun
        <4> QED
          BY <1>3, <2>0, <4>1, TypeUnfold DEF RegisterClient
      <3>2. listFails' \in 0..faults'
        BY <1>3, <2>0, <2>2, RegisteredType, TypeUnfold DEF RegisterClient
      <3>3. drifts' \in 0..MaxDrifts
        BY <1>3, TypeUnfold DEF RegisterClient
      <3> QED
        BY <1>u, <2>0, <2>2, <3>1, <3>2, <3>3, RegisteredType, RegisteredRun
    <2> QED
      BY <1>3, <2>1, <2>2 DEF RegisterClient
  <1>4. ASSUME NEW r \in Run, NeedSecret(r) PROVE TypeOK'
    <2>1. /\ want' \in [Run -> Want \cup {None}] /\ pc' \in [Run -> PC]
          /\ \A s \in Run : RunOK(s)'
      BY <1>4, TypeUnfold, NameFacts DEF NeedSecret, RunOK, PC
    <2> QED
      BY <1>4, <1>u, <2>1, TypeUnfold DEF NeedSecret
  <1>5. ASSUME NEW r \in Run, RegisterFresh(r) PROVE TypeOK'
    <2>0. want[r] \in Want /\ pc[r] # "idle"
      BY <1>5, TypeUnfold DEF RegisterFresh, RunOK
    <2>1. CASE NotRegistered(r)
      BY <1>5, <1>u, <2>1, NotRegisteredType, CaseOverType, TypeUnfold DEF RegisterFresh
    <2>2. ASSUME NEW c \in Free, Registered(r, Unique, "exchanges", c) PROVE TypeOK'
      <3>1. UNCHANGED <<cache, listFails, drifts>>
        BY <1>5 DEF RegisterFresh
      <3>2. faults' \in 0..MaxFaults /\ faults' >= faults
        BY <2>0, <2>2, RegisteredType
      <3>3. listFails' \in 0..faults'
        BY <3>1, <3>2, TypeUnfold
      <3> QED
        BY <1>u, <2>0, <2>2, <3>1, <3>3, RegisteredType, RegisteredRun, TypeUnfold
    <2> QED
      BY <1>5, <2>1, <2>2 DEF RegisterFresh
  <1>6. ASSUME NEW r \in Run, EndCase(r) PROVE TypeOK'
    BY <1>6, <1>u, CaseOverType, TypeUnfold DEF EndCase
  <1>7. ASSUME NEW r \in Run, NextRun(r) PROVE TypeOK'
    <2>1. cache' \in [Run -> [Names -> ClientType \cup {NoClient}]]
      BY <1>7, TypeUnfold DEF NextRun
    <2>2. listFails' \in 0..faults' /\ faults' \in 0..MaxFaults
      BY <1>7, FaultType DEF NextRun, TypeOK
    <2> QED
      BY <1>7, <1>u, <2>1, <2>2, CaseOverType, TypeUnfold DEF NextRun
  <1>8. ASSUME NEW c \in Client, Drift(c) PROVE TypeOK'
    <2>1. PICK attrs \in Whitelist : registered' = [registered EXCEPT ![c].attrs = attrs]
      BY <1>8 DEF Drift
    <2>2. registered[c] \in PartyType /\ registered[c] # None
      BY <1>8, TypeUnfold DEF Drift
    <2>3. /\ [registered[c] EXCEPT !.attrs = attrs] \in PartyType
          /\ [registered[c] EXCEPT !.attrs = attrs].name = registered[c].name
      BY <2>2 DEF PartyType
    <2>4. /\ registered' \in [Client -> PartyType \cup {None}]
          /\ \A d \in Client : registered'[d] # None => registered'[d].name \in Names \cup {Unique}
      BY <2>1, <2>2, <2>3, TypeUnfold
    <2>5. drifts' \in 0..MaxDrifts
      BY <1>8, RelyingAssumption DEF Drift, TypeOK
    <2>6. UNCHANGED <<cache, pc, want, got, listFails, faults>>
      BY <1>8 DEF Drift
    <2>7. \A s \in Run : RunOK(s)'
      BY <2>6, TypeUnfold DEF RunOK
    <2> QED
      BY <1>u, <2>4, <2>5, <2>6, <2>7, TypeUnfold
  <1>9. CASE UNCHANGED vars
    BY <1>9 DEF vars, TypeOK
  <1> QED
    BY <1>1, <1>2, <1>3, <1>4, <1>5, <1>6, <1>7, <1>8, <1>9 DEF Next

\* The types of RelyingParties, and what a run knows at each of its calls.
THEOREM TypeCorrect == Spec => []TypeOK
  BY InitType, NextType, PTL DEF Spec

(***************************************************************************)
(* Whose client is it?                                                     *)
(***************************************************************************)

Named(c, n) == registered[c] # None /\ registered[c].name = n

HeldOK(r) ==
  /\ pc[r] = "holds" => Named(got[r].id, Name(want[r]))
  /\ pc[r] = "exchanges" => Named(got[r].id, Unique) /\ got[r].secret

CacheOK(r) == \A n \in Names : cache[r][n] # NoClient => Named(cache[r][n].id, n)

\* A client registered for an exchange is in one run's hands.
Apart ==
  \A r, s \in Run :
    pc[r] = "exchanges" /\ pc[s] = "exchanges" /\ got[r].id = got[s].id => r = s

\* What a name says of the whitelist, and what an exchange was registered with.
Ceilings ==
  drifts = 0 =>
    /\ \A c \in Client : registered[c] # None /\ registered[c].name # Unique =>
         registered[c].attrs = registered[c].name.hash
    /\ \A r \in Run : pc[r] = "exchanges" => registered[got[r].id].attrs = want[r].attrs

IInv ==
  /\ TypeOK
  /\ \A r \in Run : HeldOK(r) /\ CacheOK(r)
  /\ Apart
  /\ Ceilings

\* Clients keep their names, and without an edit they stay as they are.
LEMMA ClientsKept ==
  ASSUME TypeOK, [Next]_vars
  PROVE  /\ \A c \in Client : registered[c] # None =>
              registered'[c] # None /\ registered'[c].name = registered[c].name
         /\ drifts' = 0 => drifts = 0 /\ \A c \in Client : registered[c] # None => registered'[c] = registered[c]
  <1>1. ASSUME NEW r \in Run, RegisterClient(r) PROVE
               /\ \A c \in Client : registered[c] # None => registered'[c] = registered[c]
               /\ drifts' = drifts
    <2>0. want[r] \in Want /\ Name(want[r]) \in Names
      BY <1>1, TypeUnfold, NameFacts DEF RegisterClient, RunOK
    <2> QED
      BY <1>1, <2>0, RegisteredType DEF RegisterClient, NotRegistered
  <1>2. ASSUME NEW r \in Run, RegisterFresh(r) PROVE
               /\ \A c \in Client : registered[c] # None => registered'[c] = registered[c]
               /\ drifts' = drifts
    <2>0. want[r] \in Want
      BY <1>2, TypeUnfold DEF RegisterFresh, RunOK
    <2> QED
      BY <1>2, <2>0, RegisteredType DEF RegisterFresh, NotRegistered
  <1>3. ASSUME NEW c \in Client, Drift(c) PROVE
               /\ \A d \in Client : registered[d] # None =>
                    registered'[d] # None /\ registered'[d].name = registered[d].name
               /\ drifts' # 0
    <2>1. PICK attrs \in Whitelist : registered' = [registered EXCEPT ![c].attrs = attrs]
      BY <1>3 DEF Drift
    <2>2. registered[c] \in PartyType /\ registered[c] # None
      BY <1>3, TypeUnfold DEF Drift
    <2>3. /\ [registered[c] EXCEPT !.attrs = attrs] \in PartyType
          /\ [registered[c] EXCEPT !.attrs = attrs].name = registered[c].name
      BY <2>2 DEF PartyType
    <2>4. drifts' # 0
      BY <1>3, TypeUnfold DEF Drift
    <2> QED
      BY <2>1, <2>2, <2>3, <2>4, TypeUnfold, RelyingAssumption
  <1>4. ASSUME NEW r \in Run, \/ NeedClient(r) \/ ListClients(r) \/ NeedSecret(r)
                             \/ EndCase(r) \/ NextRun(r)
        PROVE  UNCHANGED <<registered, drifts>>
    BY <1>4 DEF NeedClient, ListClients, NeedSecret, EndCase, NextRun
  <1>5. CASE UNCHANGED vars
    BY <1>5 DEF vars
  <1> QED
    BY <1>1, <1>2, <1>3, <1>4, <1>5 DEF Next

\* What stays as it was stays as it should be.
LEMMA OthersOK ==
  ASSUME TypeOK, TypeOK', [Next]_vars, NEW s \in Run, HeldOK(s),
         pc'[s] = pc[s], got'[s] = got[s], want'[s] = want[s]
  PROVE  HeldOK(s)'
  BY ClientsKept, TypeUnfold, ClientFacts DEF HeldOK, Named, RunOK

LEMMA CachesOK ==
  ASSUME TypeOK, [Next]_vars, NEW s \in Run, CacheOK(s), cache'[s] = cache[s]
  PROVE  CacheOK(s)'
  BY ClientsKept, TypeUnfold, ClientFacts DEF CacheOK, Named

LEMMA NamesStep ==
  ASSUME TypeOK, TypeOK', [Next]_vars, \A s \in Run : HeldOK(s) /\ CacheOK(s)
  PROVE  \A s \in Run : HeldOK(s)' /\ CacheOK(s)'
  <1>1. ASSUME NEW r \in Run, NeedClient(r) PROVE \A s \in Run : HeldOK(s)' /\ CacheOK(s)'
    <2>1. \A s \in Run : CacheOK(s)'
      BY <1>1, CachesOK DEF NeedClient
    <2>2. \A s \in Run \ {r} : HeldOK(s)'
      BY <1>1, OthersOK, TypeUnfold DEF NeedClient
    <2>3. HeldOK(r)'
      BY <1>1, TypeUnfold, NameFacts DEF NeedClient, HeldOK, CacheOK, Named
    <2> QED
      BY <2>1, <2>2, <2>3
  <1>2. ASSUME NEW r \in Run, ListClients(r) PROVE \A s \in Run : HeldOK(s)' /\ CacheOK(s)'
    <2>0. want[r] \in Want /\ Name(want[r]) \in Names /\ pc[r] = "list"
      BY <1>2, TypeUnfold, NameFacts DEF ListClients, RunOK
    <2>1. ASSUME NEW c \in Existing(r),
                 cache' = [cache EXCEPT ![r][Name(want[r])] = OAuthClient(c, registered[c].attrs, FALSE)],
                 Holds(r, OAuthClient(c, registered[c].attrs, FALSE), "holds")
          PROVE  \A s \in Run : HeldOK(s)' /\ CacheOK(s)'
      <3>1. /\ OAuthClient(c, registered[c].attrs, FALSE).id = c /\ c \in Client
            /\ OAuthClient(c, registered[c].attrs, FALSE) \in ClientType
            /\ Named(c, Name(want[r]))
        BY TypeUnfold, ClientFacts DEF Existing, PartyType, Named
      <3>2. Named(c, Name(want[r]))'
        BY <1>2, <2>0, <2>1, <3>1 DEF ListClients, Named, Holds
      <3>3. HeldOK(r)'
        BY <2>0, <2>1, <3>1, <3>2, HoldsType DEF HeldOK, Named
      <3>4. CacheOK(r)'
        BY <1>2, <2>0, <2>1, <3>1, TypeUnfold DEF CacheOK, Named, ListClients
      <3>5. \A s \in Run \ {r} : HeldOK(s)' /\ CacheOK(s)'
        BY <2>0, <2>1, <3>1, HoldsType, OthersOK, CachesOK, TypeUnfold
      <3> QED
        BY <3>3, <3>4, <3>5
    <2>2. ASSUME pc' = [pc EXCEPT ![r] = "register"], UNCHANGED <<cache, want, got>>
          PROVE  \A s \in Run : HeldOK(s)' /\ CacheOK(s)'
      <3>1. HeldOK(r)'
        BY <2>0, <2>2, TypeUnfold DEF HeldOK
      <3>2. \A s \in Run \ {r} : HeldOK(s)'
        BY <2>2, OthersOK, TypeUnfold
      <3> QED
        BY <2>2, <3>1, <3>2, CachesOK
    <2> QED
      BY <1>2, <2>1, <2>2 DEF ListClients
  <1>3. ASSUME NEW r \in Run, RegisterClient(r) PROVE \A s \in Run : HeldOK(s)' /\ CacheOK(s)'
    <2>0. want[r] \in Want /\ Name(want[r]) \in Names /\ pc[r] # "idle"
      BY <1>3, TypeUnfold, NameFacts DEF RegisterClient, RunOK
    <2>1. CASE NotRegistered(r)
      <3>1. cache' = cache
        BY <1>3, <2>1, NotRegisteredType, CaseOverType DEF RegisterClient
      <3>2. HeldOK(r)' /\ \A s \in Run \ {r} : HeldOK(s)'
        BY <2>1, NotRegisteredType, CaseOverType, OthersOK DEF HeldOK
      <3> QED
        BY <3>1, <3>2, CachesOK
    <2>2. ASSUME NEW c \in Free, Registered(r, Name(want[r]), "holds", c)
          PROVE  \A s \in Run : HeldOK(s)' /\ CacheOK(s)'
      <3>1. \A s \in Run \ {r} : HeldOK(s)'
        BY <2>0, <2>2, RegisteredRun, OthersOK
      <3>2. HeldOK(r)'
        BY <2>0, <2>2, RegisteredRun, RegisteredType DEF HeldOK, Named
      <3>3. \A s \in Run \ {r} : CacheOK(s)'
        BY <1>3, CachesOK, TypeUnfold DEF RegisterClient
      <3>4. CASE pc'[r] = "holds"
        <4>1. cache' = [cache EXCEPT ![r][Name(want[r])] = got'[r]]
          BY <1>3, <3>4 DEF RegisterClient
        <4>2. Named(got[r].id, Name(want[r]))'
          BY <2>0, <2>2, <3>4, RegisteredRun, RegisteredType DEF Named
        <4>3. ASSUME NEW n \in Names, n # Name(want[r]), cache'[r][n] # NoClient
              PROVE  Named(cache[r][n].id, n)'
          BY <2>0, <4>1, <4>3, ClientsKept, TypeUnfold, ClientFacts DEF CacheOK, Named
        <4>4. ASSUME NEW n \in Names, n = Name(want[r])
              PROVE  Named(cache[r][n].id, n)'
          <5>1. cache'[r][n] = got'[r]
            BY <2>0, <4>1, <4>4, TypeUnfold
          <5>2. want'[r] = want[r]
            BY <2>0, <2>2, <3>4, RegisteredRun
          <5> QED
            BY <4>2, <4>4, <5>1, <5>2 DEF Named
        <4>5. CacheOK(r)'
          BY <4>3, <4>4 DEF CacheOK
        <4> QED
          BY <3>1, <3>2, <3>3, <4>5
      <3>5. CASE pc'[r] # "holds"
        <4>1. cache' = cache
          BY <1>3, <3>5 DEF RegisterClient
        <4> QED
          BY <3>1, <3>2, <4>1, CachesOK
      <3> QED
        BY <3>4, <3>5
    <2> QED
      BY <1>3, <2>1, <2>2 DEF RegisterClient
  <1>4. ASSUME NEW r \in Run, NeedSecret(r) PROVE \A s \in Run : HeldOK(s)' /\ CacheOK(s)'
    <2>1. HeldOK(r)'
      BY <1>4, TypeUnfold DEF NeedSecret, HeldOK
    <2>2. \A s \in Run \ {r} : HeldOK(s)'
      BY <1>4, OthersOK, TypeUnfold DEF NeedSecret
    <2> QED
      BY <1>4, <2>1, <2>2, CachesOK DEF NeedSecret
  <1>5. ASSUME NEW r \in Run, RegisterFresh(r) PROVE \A s \in Run : HeldOK(s)' /\ CacheOK(s)'
    <2>0. want[r] \in Want /\ pc[r] # "idle"
      BY <1>5, TypeUnfold DEF RegisterFresh, RunOK
    <2>1. CASE NotRegistered(r)
      <3>1. HeldOK(r)' /\ \A s \in Run \ {r} : HeldOK(s)'
        BY <2>1, NotRegisteredType, CaseOverType, OthersOK DEF HeldOK
      <3> QED
        BY <1>5, <3>1, CachesOK DEF RegisterFresh
    <2>2. ASSUME NEW c \in Free, Registered(r, Unique, "exchanges", c)
          PROVE  \A s \in Run : HeldOK(s)' /\ CacheOK(s)'
      <3>1. \A s \in Run \ {r} : HeldOK(s)'
        BY <2>0, <2>2, RegisteredRun, OthersOK
      <3>2. HeldOK(r)'
        BY <2>0, <2>2, RegisteredRun, RegisteredType DEF HeldOK, Named
      <3> QED
        BY <1>5, <3>1, <3>2, CachesOK DEF RegisterFresh
    <2> QED
      BY <1>5, <2>1, <2>2 DEF RegisterFresh
  <1>6. ASSUME NEW r \in Run, EndCase(r) PROVE \A s \in Run : HeldOK(s)' /\ CacheOK(s)'
    <2>1. HeldOK(r)' /\ \A s \in Run \ {r} : HeldOK(s)'
      BY <1>6, CaseOverType, OthersOK DEF EndCase, HeldOK
    <2> QED
      BY <1>6, <2>1, CachesOK DEF EndCase
  <1>7. ASSUME NEW r \in Run, NextRun(r) PROVE \A s \in Run : HeldOK(s)' /\ CacheOK(s)'
    <2>1. HeldOK(r)' /\ \A s \in Run \ {r} : HeldOK(s)'
      BY <1>7, CaseOverType, OthersOK DEF NextRun, HeldOK
    <2>2. CacheOK(r)'
      BY <1>7, TypeUnfold DEF NextRun, CacheOK
    <2>3. \A s \in Run \ {r} : CacheOK(s)'
      BY <1>7, CachesOK, TypeUnfold DEF NextRun
    <2> QED
      BY <2>1, <2>2, <2>3
  <1>8. CASE (\E c \in Client : Drift(c)) \/ UNCHANGED vars
    BY <1>8, OthersOK, CachesOK DEF Drift, vars
  <1> QED
    BY <1>1, <1>2, <1>3, <1>4, <1>5, <1>6, <1>7, <1>8 DEF Next

LEMMA ApartStep ==
  ASSUME TypeOK, TypeOK', [Next]_vars, \A s \in Run : HeldOK(s), Apart
  PROVE  Apart'
  <1>1. ASSUME NEW r \in Run, RegisterFresh(r) PROVE Apart'
    <2>0. want[r] \in Want /\ pc[r] # "idle"
      BY <1>1, TypeUnfold DEF RegisterFresh, RunOK
    <2>1. CASE NotRegistered(r)
      BY <2>1, NotRegisteredType, CaseOverType DEF Apart
    <2>2. ASSUME NEW c \in Free, Registered(r, Unique, "exchanges", c) PROVE Apart'
      <3>1. \A s \in Run : pc[s] = "exchanges" => got[s].id # c
        BY DEF HeldOK, Named, Free
      <3> QED
        BY <2>0, <2>2, <3>1, RegisteredRun DEF Apart
    <2> QED
      BY <1>1, <2>1, <2>2 DEF RegisterFresh
  <1>2. ASSUME NEW r \in Run, RegisterClient(r) PROVE Apart'
    <2>0. want[r] \in Want /\ Name(want[r]) \in Names /\ pc[r] # "idle"
      BY <1>2, TypeUnfold, NameFacts DEF RegisterClient, RunOK
    <2>1. CASE NotRegistered(r)
      BY <2>1, NotRegisteredType, CaseOverType DEF Apart
    <2>2. ASSUME NEW c \in Free, Registered(r, Name(want[r]), "holds", c) PROVE Apart'
      BY <2>0, <2>2, RegisteredRun DEF Apart
    <2> QED
      BY <1>2, <2>1, <2>2 DEF RegisterClient
  <1>3. ASSUME NEW r \in Run, NeedClient(r) \/ NeedSecret(r) PROVE Apart'
    <2>1. \A s \in Run : pc'[s] = "exchanges" => pc[s] = "exchanges" /\ got'[s] = got[s]
      BY <1>3, TypeUnfold DEF NeedClient, NeedSecret
    <2> QED
      BY <2>1 DEF Apart
  <1>4. ASSUME NEW r \in Run, ListClients(r) PROVE Apart'
    <2>1. \A s \in Run : pc'[s] = "exchanges" => pc[s] = "exchanges" /\ got'[s] = got[s]
      BY <1>4, TypeUnfold DEF ListClients, Holds
    <2> QED
      BY <2>1 DEF Apart
  <1>5. ASSUME NEW r \in Run, EndCase(r) \/ NextRun(r) PROVE Apart'
    BY <1>5, CaseOverType DEF EndCase, NextRun, Apart
  <1>6. CASE (\E c \in Client : Drift(c)) \/ UNCHANGED vars
    BY <1>6 DEF Drift, vars, Apart
  <1> QED
    BY <1>1, <1>2, <1>3, <1>4, <1>5, <1>6 DEF Next

\* No run asks for more than its name says, and an exchange has what it asked for.
LEMMA CeilingsStep ==
  ASSUME TypeOK, TypeOK', [Next]_vars, \A s \in Run : HeldOK(s), Ceilings
  PROVE  Ceilings'
  <1> SUFFICES ASSUME drifts' = 0 PROVE Ceilings'
    BY DEF Ceilings
  <1>0. /\ drifts = 0
        /\ \A c \in Client : registered[c] # None => registered'[c] = registered[c]
    BY ClientsKept
  <1>a. /\ \A c \in Client : registered[c] # None /\ registered[c].name # Unique =>
             registered[c].attrs = registered[c].name.hash
        /\ \A r \in Run : pc[r] = "exchanges" => registered[got[r].id].attrs = want[r].attrs
    BY <1>0 DEF Ceilings
  <1>b. \A r \in Run : pc[r] = "exchanges" => registered[got[r].id] # None /\ got[r].id \in Client
    BY TypeUnfold, ClientFacts DEF HeldOK, Named, RunOK
  <1>1. ASSUME NEW r \in Run, NEW n \in Names \cup {Unique}, NEW stage \in {"holds", "exchanges"},
               NEW c \in Free, want[r] \in Want, pc[r] # "idle", Registered(r, n, stage, c),
               n # Unique => n.hash = want[r].attrs
        PROVE  Ceilings'
    <2>1. \A d \in Client : registered'[d] # None /\ registered'[d].name # Unique =>
            registered'[d].attrs = registered'[d].name.hash
      BY <1>1, <1>a, RegisteredType
    <2>2. ASSUME NEW s \in Run, pc'[s] = "exchanges"
          PROVE  registered'[got'[s].id].attrs = want'[s].attrs
      BY <1>0, <1>1, <1>a, <1>b, <2>2, RegisteredType, RegisteredRun
    <2> QED
      BY <2>1, <2>2 DEF Ceilings
  <1>2. ASSUME NEW r \in Run, RegisterClient(r) PROVE Ceilings'
    <2>0. /\ want[r] \in Want /\ Name(want[r]) \in Names /\ pc[r] # "idle"
          /\ Name(want[r]).hash = want[r].attrs
      BY <1>2, TypeUnfold, NameFacts DEF RegisterClient, RunOK
    <2>1. CASE NotRegistered(r)
      BY <1>0, <1>a, <2>1, NotRegisteredType, CaseOverType DEF Ceilings
    <2> QED
      BY <1>1, <1>2, <2>0, <2>1 DEF RegisterClient
  <1>3. ASSUME NEW r \in Run, RegisterFresh(r) PROVE Ceilings'
    <2>0. want[r] \in Want /\ pc[r] # "idle"
      BY <1>3, TypeUnfold DEF RegisterFresh, RunOK
    <2>1. CASE NotRegistered(r)
      BY <1>0, <1>a, <2>1, NotRegisteredType, CaseOverType DEF Ceilings
    <2> QED
      BY <1>1, <1>3, <2>0, <2>1 DEF RegisterFresh
  <1>4. ASSUME NEW r \in Run, NeedClient(r) \/ NeedSecret(r) PROVE Ceilings'
    <2>1. /\ registered' = registered
          /\ \A s \in Run : pc'[s] = "exchanges" =>
               pc[s] = "exchanges" /\ got'[s] = got[s] /\ want'[s] = want[s]
      BY <1>4, TypeUnfold DEF NeedClient, NeedSecret
    <2> QED
      BY <1>a, <2>1 DEF Ceilings
  <1>5. ASSUME NEW r \in Run, ListClients(r) PROVE Ceilings'
    <2>1. /\ registered' = registered
          /\ \A s \in Run : pc'[s] = "exchanges" =>
               pc[s] = "exchanges" /\ got'[s] = got[s] /\ want'[s] = want[s]
      BY <1>5, TypeUnfold DEF ListClients, Holds
    <2> QED
      BY <1>a, <2>1 DEF Ceilings
  <1>6. ASSUME NEW r \in Run, EndCase(r) \/ NextRun(r) PROVE Ceilings'
    BY <1>6, <1>a, CaseOverType DEF EndCase, NextRun, Ceilings
  <1>7. CASE UNCHANGED vars
    BY <1>7, <1>a DEF vars, Ceilings
  <1>8. ASSUME NEW c \in Client, Drift(c) PROVE FALSE
    BY <1>8, <1>0, TypeUnfold DEF Drift
  <1> QED
    BY <1>2, <1>3, <1>4, <1>5, <1>6, <1>7, <1>8 DEF Next

LEMMA InvInductive ==
  /\ Init => IInv
  /\ IInv /\ [Next]_vars => IInv'
  <1>1. Init => IInv
    BY InitType, ClientFacts DEF Init, IInv, HeldOK, CacheOK, Apart, Ceilings
  <1>2. ASSUME IInv, [Next]_vars PROVE IInv'
    <2>1. TypeOK' /\ TypeOK /\ (\A s \in Run : HeldOK(s) /\ CacheOK(s)) /\ Apart /\ Ceilings
      BY <1>2, NextType DEF IInv
    <2>2. \A s \in Run : HeldOK(s)' /\ CacheOK(s)'
      BY <1>2, <2>1, NamesStep
    <2>3. Apart' /\ Ceilings'
      BY <1>2, <2>1, ApartStep, CeilingsStep
    <2> QED
      BY <2>1, <2>2, <2>3 DEF IInv
  <1> QED
    BY <1>1, <1>2

LEMMA Invariant == Spec => []IInv
  BY InvInductive, PTL DEF Spec

\* A case holds a client with the ceiling it asked for, as long as nobody edits
\* whitelists: the name of a client says what it was registered with, and a client
\* is only found under the name of what a case wants.
THEOREM CeilingsExact == Spec => []ExactCeiling
  <1>1. IInv => ExactCeiling
    <2> SUFFICES ASSUME IInv, drifts = 0, NEW r \in Run, got[r] # NoClient
                 PROVE  registered[got[r].id] # None /\ registered[got[r].id].attrs = want[r].attrs
      BY DEF ExactCeiling
    <2>1. TypeOK /\ HeldOK(r) /\ Ceilings
      BY DEF IInv
    <2>2. got[r].id \in Client /\ want[r] \in Want
      BY <2>1, TypeUnfold, ClientFacts DEF RunOK
    <2>3. CASE pc[r] = "holds"
      BY <2>1, <2>2, <2>3, NameFacts DEF HeldOK, Named, Ceilings
    <2>4. CASE pc[r] = "exchanges"
      BY <2>1, <2>2, <2>4 DEF HeldOK, Named, Ceilings
    <2> QED
      BY <2>1, <2>3, <2>4, TypeUnfold DEF RunOK
  <1> QED
    BY <1>1, Invariant, PTL

\* A case that exchanges a code has a secret, and its client is nobody else's.
THEOREM SecretsOwn == Spec => []SecretOfItsOwn
  <1>1. IInv => SecretOfItsOwn
    <2> SUFFICES ASSUME IInv, NEW r \in Run, pc[r] = "exchanges"
                 PROVE  /\ got[r].secret
                        /\ \A s \in Run : /\ s # r => got[s].id # got[r].id
                                          /\ \A n \in Names : cache[s][n].id # got[r].id
      BY DEF SecretOfItsOwn
    <2>1. TypeOK /\ Apart /\ \A s \in Run : HeldOK(s) /\ CacheOK(s)
      BY DEF IInv
    <2>2. got[r].secret /\ Named(got[r].id, Unique) /\ got[r].id \in Client
      BY <2>1, TypeUnfold, ClientFacts DEF HeldOK, RunOK
    <2>3. None \notin Client
      BY RelyingAssumption
    <2>4. ASSUME NEW s \in Run, s # r PROVE got[s].id # got[r].id
      <3>1. CASE pc[s] = "exchanges"
        BY <2>1, <2>4, <3>1 DEF Apart
      <3>2. CASE pc[s] = "holds"
        <4>1. Named(got[s].id, Name(want[s])) /\ Name(want[s]) # Unique
          BY <2>1, <3>2, TypeUnfold, NameFacts DEF HeldOK, RunOK
        <4> QED
          BY <2>2, <4>1 DEF Named
      <3>3. CASE pc[s] \notin {"holds", "exchanges"}
        BY <2>1, <2>2, <2>3, <3>3, TypeUnfold, ClientFacts DEF RunOK
      <3> QED
        BY <3>1, <3>2, <3>3
    <2>5. ASSUME NEW s \in Run, NEW n \in Names PROVE cache[s][n].id # got[r].id
      BY <2>1, <2>2, <2>3, <2>5, NameFacts, ClientFacts DEF CacheOK, Named
    <2> QED
      BY <2>2, <2>4, <2>5
  <1> QED
    BY <1>1, Invariant, PTL

(***************************************************************************)
(* Leases are kept                                                         *)
(***************************************************************************)

\* What PartyLeases calls party and lease.
Parties == [c \in Client |-> Opened(registered[c])]
Held == [r \in Run |-> Leased(r)]

LEMMA OpenedFacts ==
  /\ Opened(None) = Promise!NoParty
  /\ \A a \in Whitelist : /\ Opened(Party(Unique, a)) = [order |-> None, ceiling |-> a]
                          /\ \A w \in Want : Opened(Party(Name(w), a)) = [order |-> w, ceiling |-> a]
  /\ \A x \in PartyType : /\ Opened(x).ceiling \in Whitelist /\ Opened(x) # Promise!NoParty
                          /\ \A w \in Want : x.name = Name(w) => Opened(x).order = w
  <1>1. Opened(None) = Promise!NoParty
    BY DEF Opened, Promise!NoParty
  <1>2. \A w \in Want : /\ Name(w) # Unique
                        /\ w = [label |-> Name(w).label, attrs |-> Name(w).hash]
    BY NameFacts DEF Want, Name
  <1>3. ASSUME NEW x \in PartyType
        PROVE  /\ x.name = Unique => Opened(x) = [order |-> None, ceiling |-> x.attrs]
               /\ \A w \in Want : x.name = Name(w) => Opened(x) = [order |-> w, ceiling |-> x.attrs]
               /\ Opened(x).ceiling = x.attrs /\ x.attrs \in Whitelist
    <2>1. x # None /\ x.attrs \in Whitelist
      BY RelyingAssumption DEF PartyType
    <2> QED
      BY <1>2, <2>1 DEF Opened
  <1>4. ASSUME NEW a \in Whitelist, NEW n \in Names \cup {Unique}
        PROVE  Party(n, a) \in PartyType /\ Party(n, a).name = n /\ Party(n, a).attrs = a
    BY PartyFacts
  <1>5. \A x \in PartyType : Opened(x) # Promise!NoParty
    BY <1>3, RelyingAssumption DEF Promise!NoParty
  <1>6. \A x \in PartyType, w \in Want : x.name = Name(w) => Opened(x).order = w
    BY <1>3
  <1>7. ASSUME NEW a \in Whitelist PROVE Opened(Party(Unique, a)) = [order |-> None, ceiling |-> a]
    BY <1>3, <1>4
  <1>8. ASSUME NEW a \in Whitelist, NEW w \in Want
        PROVE  Opened(Party(Name(w), a)) = [order |-> w, ceiling |-> a]
    BY <1>3, <1>4, NameFacts
  <1> QED
    BY <1>1, <1>3, <1>5, <1>6, <1>7, <1>8

LEMMA LeasedFacts ==
  ASSUME TypeOK, NEW r \in Run
  PROVE  pc[r] \notin {"holds", "exchanges"} => Held[r] = Promise!NoLease
  BY TypeUnfold DEF RunOK, Held, Leased, Promise!NoLease

\* A step of one run changes its lease only.
LEMMA LeaseOfOthers ==
  ASSUME NEW r \in Run, \A s \in Run \ {r} : pc'[s] = pc[s] /\ got'[s] = got[s] /\ want'[s] = want[s]
  PROVE  Held' = [Held EXCEPT ![r] = Leased(r)']
  BY DEF Held, Leased

LEMMA LeaseSame ==
  ASSUME TypeOK, TypeOK', NEW r \in Run,
         \A s \in Run \ {r} : pc'[s] = pc[s] /\ got'[s] = got[s] /\ want'[s] = want[s],
         got[r] = NoClient, got'[r] = NoClient
  PROVE  Held' = Held
  BY DEF Held, Leased

\* The end of a case gives back what it had, if anything.
LEMMA StepReturns ==
  ASSUME TypeOK, NEW r \in Run, CaseOver(r), registered' = registered
  PROVE  Promise!Next
  <1>1. Leased(r)' = Promise!NoLease
    BY CaseOverType DEF Leased, Promise!NoLease
  <1>2. Held' = [Held EXCEPT ![r] = Promise!NoLease]
    BY <1>1, CaseOverType, LeaseOfOthers
  <1>3. Parties' = Parties
    BY DEF Parties
  <1>4. Promise!Return(r)
    BY <1>2, <1>3 DEF Promise!Return, Held, Parties
  <1> QED
    BY <1>4 DEF Promise!Next

\* A case is given a party of the name of its order.
LEMMA StepShares ==
  ASSUME TypeOK, NEW r \in Run, NEW c \in Client, NEW w \in Want, Named(c, Name(w)),
         pc[r] \notin {"holds", "exchanges"}, registered' = registered,
         \A s \in Run \ {r} : pc'[s] = pc[s] /\ got'[s] = got[s] /\ want'[s] = want[s],
         got'[r] \in ClientType, got'[r].id = c, want'[r] = w, pc'[r] = "holds"
  PROVE  Promise!Next
  <1>1. Parties[c].order = w
    BY OpenedFacts, TypeUnfold DEF Parties, Named
  <1>2. Leased(r)' = [party |-> c, order |-> w, alone |-> FALSE]
    BY ClientFacts DEF Leased
  <1>3. Held[r] = Promise!NoLease
    BY LeasedFacts
  <1>4. Held' = [Held EXCEPT ![r] = [party |-> c, order |-> w, alone |-> FALSE]]
    BY <1>2, LeaseOfOthers
  <1>5. Parties' = Parties
    BY DEF Parties
  <1>6. Promise!Share(r, c, w)
    BY <1>1, <1>3, <1>4, <1>5 DEF Promise!Share, Promise!Leases, Parties, Held
  <1> QED
    BY <1>6 DEF Promise!Next

\* A registration opens a party, for the case that asked if it hears of it.
LEMMA StepOpens ==
  ASSUME TypeOK, TypeOK', NEW r \in Run, NEW n, NEW stage, NEW c \in Free, Registered(r, n, stage, c),
         want[r] \in Want, pc[r] \in {"register", "registerFresh"},
         \/ n = Name(want[r]) /\ stage = "holds"
         \/ n = Unique /\ stage = "exchanges"
  PROVE  Promise!Next
  <1> DEFINE w == want[r]
             order == IF n = Unique THEN None ELSE w
             alone == stage = "exchanges"
  <1>0. /\ w \in Want /\ Name(w) \in Names /\ Name(w) # Unique /\ w.attrs \in Whitelist
        /\ n \in Names \cup {Unique} /\ stage \in {"holds", "exchanges"} /\ pc[r] # "idle"
        /\ n = Unique <=> stage = "exchanges"
    BY NameFacts
  <1>1. c \in Client /\ registered[c] = None
        /\ registered' = [registered EXCEPT ![c] = Party(n, w.attrs)]
    BY DEF Free, Registered
  <1>2. Opened(Party(n, w.attrs)) = [order |-> order, ceiling |-> w.attrs]
    BY <1>0, OpenedFacts
  <1>3. Parties[c] = Promise!NoParty
    BY <1>1, OpenedFacts DEF Parties
  <1>4. Parties' = [Parties EXCEPT ![c] = Opened(Party(n, w.attrs))]
    BY <1>1, TypeUnfold DEF Parties
  <1>5. Promise!Opens(c, order, w.attrs)
    BY <1>2, <1>3, <1>4 DEF Promise!Opens, Parties
  <1>6. \A s \in Run \ {r} : pc'[s] = pc[s] /\ got'[s] = got[s] /\ want'[s] = want[s]
    BY <1>0, RegisteredRun
  <1>7. CASE pc'[r] = stage /\ want'[r] = w /\ got'[r] \in ClientType /\ got'[r].id = c /\ got'[r].secret
    <2>1. Leased(r)' = [party |-> c, order |-> w, alone |-> alone]
      BY <1>0, <1>7, ClientFacts DEF Leased
    <2>2. Held[r] = Promise!NoLease
      BY LeasedFacts
    <2>3. Held' = [Held EXCEPT ![r] = [party |-> c, order |-> w, alone |-> alone]]
      BY <1>6, <2>1, LeaseOfOthers
    <2>4. Promise!Leases(r, c, w, alone)
      BY <2>2, <2>3 DEF Promise!Leases, Held
    <2>5. Promise!OpenShared(r, c, w) \/ Promise!OpenAlone(r, c, w)
      BY <1>0, <1>5, <2>4 DEF Promise!OpenShared, Promise!OpenAlone
    <2> QED
      BY <1>0, <1>1, <2>5 DEF Promise!Next
  <1>8. CASE got'[r] = NoClient
    <2>1. got[r] = NoClient
      BY TypeUnfold DEF RunOK
    <2>2. Held' = Held
      BY <1>6, <1>8, <2>1, LeaseSame
    <2>3. Promise!OpenShared(r, c, w) \/ Promise!OpenAlone(r, c, w)
      BY <1>0, <1>5, <2>2 DEF Promise!OpenShared, Promise!OpenAlone, Held
    <2> QED
      BY <1>0, <1>1, <2>3 DEF Promise!Next
  <1> QED
    BY <1>0, <1>7, <1>8, RegisteredRun

LEMMA NextLease ==
  ASSUME TypeOK, TypeOK', \A r \in Run : HeldOK(r) /\ CacheOK(r), [Next]_vars
  PROVE  [Promise!Next]_<<Parties, Held>>
  <1> SUFFICES ASSUME ~ UNCHANGED <<Parties, Held>> PROVE Promise!Next
    OBVIOUS
  <1>1. ASSUME NEW r \in Run, NeedClient(r) PROVE Promise!Next
    <2>1. PICK w \in Want :
            /\ want' = [want EXCEPT ![r] = w]
            /\ got' = [got EXCEPT ![r] = cache[r][Name(w)]]
            /\ pc' = [pc EXCEPT ![r] = IF cache[r][Name(w)] = NoClient THEN "list" ELSE "holds"]
      BY <1>1 DEF NeedClient
    <2>2. /\ pc[r] = "idle" /\ registered' = registered
          /\ \A s \in Run \ {r} : pc'[s] = pc[s] /\ got'[s] = got[s] /\ want'[s] = want[s]
          /\ want'[r] = w /\ got'[r] = cache[r][Name(w)]
      BY <1>1, <2>1, TypeUnfold DEF NeedClient
    <2>3. cache[r][Name(w)] \in ClientType \cup {NoClient} /\ Name(w) \in Names
      BY NameFacts, TypeUnfold
    <2>4. CASE cache[r][Name(w)] = NoClient
      <3>1. got[r] = NoClient /\ got'[r] = NoClient
        BY <2>2, <2>4, TypeUnfold DEF RunOK
      <3>2. Held' = Held
        BY <2>2, <3>1, LeaseSame
      <3> QED
        BY <2>2, <3>2 DEF Parties
    <2>5. CASE cache[r][Name(w)] # NoClient
      <3>1. pc'[r] = "holds"
        BY <2>1, <2>5, TypeUnfold
      <3>2. Named(cache[r][Name(w)].id, Name(w)) /\ cache[r][Name(w)].id \in Client
        BY <2>3, <2>5, ClientFacts DEF CacheOK
      <3> QED
        BY <2>2, <2>3, <2>5, <3>1, <3>2, StepShares
    <2> QED
      BY <2>4, <2>5
  <1>2. ASSUME NEW r \in Run, ListClients(r) PROVE Promise!Next
    <2>0. want[r] \in Want /\ pc[r] = "list" /\ registered' = registered /\ got[r] = NoClient
      BY <1>2, TypeUnfold DEF ListClients, RunOK
    <2>1. ASSUME NEW c \in Existing(r),
                 Holds(r, OAuthClient(c, registered[c].attrs, FALSE), "holds")
          PROVE  Promise!Next
      <3> DEFINE found == OAuthClient(c, registered[c].attrs, FALSE)
      <3>1. c \in Client /\ Named(c, Name(want[r])) /\ found \in ClientType /\ found.id = c
        BY TypeUnfold, ClientFacts DEF Existing, PartyType, Named
      <3> HIDE DEF found
      <3>2. /\ pc'[r] = "holds" /\ got'[r] = found /\ want' = want
            /\ \A s \in Run \ {r} : pc'[s] = pc[s] /\ got'[s] = got[s]
        BY <2>0, <2>1, <3>1, HoldsType DEF found
      <3> QED
        BY <2>0, <3>1, <3>2, StepShares
    <2>2. CASE pc' = [pc EXCEPT ![r] = "register"] /\ UNCHANGED <<want, got>>
      <3>1. \A s \in Run \ {r} : pc'[s] = pc[s] /\ got'[s] = got[s] /\ want'[s] = want[s]
        BY <2>2, TypeUnfold
      <3>2. Held' = Held
        BY <2>0, <2>2, <3>1, LeaseSame
      <3> QED
        BY <2>0, <3>2 DEF Parties
    <2> QED
      BY <1>2, <2>1, <2>2 DEF ListClients
  <1>3. ASSUME NEW r \in Run, RegisterClient(r) \/ RegisterFresh(r) PROVE Promise!Next
    <2>1. pc[r] \in {"register", "registerFresh"} /\ want[r] \in Want
      BY <1>3, TypeUnfold DEF RegisterClient, RegisterFresh, RunOK
    <2>2. CASE NotRegistered(r)
      BY <2>2, NotRegisteredType, StepReturns
    <2>3. CASE \E c \in Free : Registered(r, Name(want[r]), "holds", c)
      BY <2>1, <2>3, StepOpens
    <2>4. CASE \E c \in Free : Registered(r, Unique, "exchanges", c)
      BY <2>1, <2>4, StepOpens
    <2> QED
      BY <1>3, <2>2, <2>3, <2>4 DEF RegisterClient, RegisterFresh
  <1>4. ASSUME NEW r \in Run, NeedSecret(r) PROVE Promise!Next
    <2>1. /\ \A s \in Run \ {r} : pc'[s] = pc[s] /\ got'[s] = got[s] /\ want'[s] = want[s]
          /\ got[r] = NoClient /\ got' = got /\ registered' = registered
      BY <1>4, TypeUnfold DEF NeedSecret, RunOK
    <2>2. Held' = Held
      BY <2>1, LeaseSame
    <2> QED
      BY <2>1, <2>2 DEF Parties
  <1>5. ASSUME NEW r \in Run, EndCase(r) \/ NextRun(r) PROVE Promise!Next
    BY <1>5, StepReturns DEF EndCase, NextRun
  <1>6. ASSUME NEW c \in Client, Drift(c) PROVE Promise!Next
    <2>1. PICK attrs \in Whitelist : registered' = [registered EXCEPT ![c].attrs = attrs]
      BY <1>6 DEF Drift
    <2>2. registered[c] \in PartyType /\ registered[c] # None
      BY <1>6, TypeUnfold DEF Drift
    <2> DEFINE edited == [registered[c] EXCEPT !.attrs = attrs]
    <2>3. edited \in PartyType /\ edited.name = registered[c].name /\ edited.attrs = attrs
      BY <2>2 DEF PartyType
    <2>4. registered' = [registered EXCEPT ![c] = edited]
      BY <2>1, TypeUnfold
    <2> HIDE DEF edited
    <2>5. Opened(edited) = [Opened(registered[c]) EXCEPT !.ceiling = attrs]
      BY <2>2, <2>3, RelyingAssumption DEF Opened
    <2>6. Parties' = [Parties EXCEPT ![c] = Opened(edited)] /\ Parties[c] = Opened(registered[c])
      BY <2>4, TypeUnfold DEF Parties
    <2>7. Parties' = [Parties EXCEPT ![c].ceiling = attrs]
      BY <2>5, <2>6
    <2>8. Parties[c] # Promise!NoParty
      BY <2>2, <2>6, OpenedFacts
    <2>9. Held' = Held
      BY <1>6 DEF Drift, Held, Leased
    <2>10. Promise!Edit(c)
      BY <2>7, <2>8, <2>9 DEF Promise!Edit, Parties, Held
    <2> QED
      BY <2>10 DEF Promise!Next
  <1>7. CASE UNCHANGED vars
    BY <1>7 DEF vars, Parties, Held, Leased
  <1> QED
    BY <1>1, <1>2, <1>3, <1>4, <1>5, <1>6, <1>7 DEF Next

\* The suite's relying parties implement PartyLeases: a case is handed one opened for
\* its own order, or one opened for it alone in the step that opens it.
THEOREM KeepsLeases == Spec => LeasesKept
  <1>1. Init => Promise!Init
    BY OpenedFacts DEF Init, Promise!Init, Leased, Promise!NoLease
  <1>2. IInv => TypeOK /\ \A r \in Run : HeldOK(r) /\ CacheOK(r)
    BY DEF IInv
  <1>3. IInv /\ IInv' /\ [Next]_vars => [Promise!Next]_<<Parties, Held>>
    BY <1>2, NextLease DEF IInv
  <1> QED
    BY <1>1, <1>3, Invariant, PTL DEF Spec, LeasesKept, Promise!Spec, Promise!lvars, Parties, Held

(***************************************************************************)
(* How many clients of a name there are                                    *)
(***************************************************************************)

Of(n) == {c \in Client : registered[c] # None /\ registered[c].name = n}

\* Runs that have found no client of that name and are about to register one.
Pending(n) == {r \in Run : pc[r] = "register" /\ Name(want[r]) = n}

\* A run that is about to register counts as a client already.
Pile(n) == Cardinality(Of(n)) + Cardinality(Pending(n)) <= Cardinality(Run) + listFails

LEMMA PileTypes ==
  ASSUME TypeOK, NEW n
  PROVE  /\ IsFiniteSet(Of(n)) /\ Cardinality(Of(n)) \in Nat
         /\ IsFiniteSet(Pending(n)) /\ Cardinality(Pending(n)) \in Nat
         /\ Pending(n) \subseteq Run /\ Cardinality(Pending(n)) <= Cardinality(Run)
         /\ Cardinality(Run) \in Nat /\ listFails \in Nat
  <1>1. Of(n) \subseteq Client /\ Pending(n) \subseteq Run
    BY DEF Of, Pending
  <1>2. listFails \in Nat
    BY TypeUnfold
  <1> QED
    BY <1>1, <1>2, RelyingAssumption, FS_Subset, FS_CardinalityType

\* A step that adds no client of the name and no run that is about to.
LEMMA PileKept ==
  ASSUME TypeOK, TypeOK', NEW n, Pile(n), Of(n)' \subseteq Of(n), Pending(n)' \subseteq Pending(n),
         listFails' >= listFails
  PROVE  Pile(n)'
  <1>1. Cardinality(Of(n)') <= Cardinality(Of(n)) /\ Cardinality(Of(n)') \in Nat
    BY PileTypes, FS_Subset, FS_CardinalityType
  <1>2. Cardinality(Pending(n)') <= Cardinality(Pending(n)) /\ Cardinality(Pending(n)') \in Nat
    BY PileTypes, FS_Subset, FS_CardinalityType
  <1>3. listFails' \in Nat
    BY DEF TypeOK
  <1> QED
    BY <1>1, <1>2, <1>3, PileTypes DEF Pile

LEMMA OneMore ==
  ASSUME NEW S, NEW x, IsFiniteSet(S)
  PROVE  /\ IsFiniteSet(S \cup {x})
         /\ Cardinality(S \cup {x}) <= Cardinality(S) + 1
         /\ Cardinality(S \cup {x}) \in Nat
  <1>1. Cardinality(S) \in Nat
    BY FS_CardinalityType
  <1>2. IsFiniteSet(S \cup {x})
    BY FS_AddElement
  <1>3. Cardinality(S \cup {x}) = IF x \in S THEN Cardinality(S) ELSE Cardinality(S) + 1
    BY FS_AddElement
  <1> QED
    BY <1>1, <1>2, <1>3

LEMMA PileStep ==
  ASSUME TypeOK, TypeOK', [Next]_vars, NEW n \in Names, Pile(n)
  PROVE  Pile(n)'
  <1>1. ASSUME NEW r \in Run, ListClients(r) PROVE Pile(n)'
    <2>0. Of(n)' = Of(n) /\ pc[r] = "list"
      BY <1>1 DEF ListClients, Of
    <2>1. CASE pc' = [pc EXCEPT ![r] = "register"] /\ UNCHANGED want /\ n = Name(want[r])
               /\ Existing(r) = {} /\ listFails' = listFails
      <3>1. Of(n) = {} /\ Cardinality(Of(n)) = 0
        BY <2>1, FS_EmptySet DEF Of, Existing
      <3>2. Pending(n)' \subseteq Run
        BY DEF Pending
      <3>3. Cardinality(Pending(n)') <= Cardinality(Run) /\ Cardinality(Pending(n)') \in Nat
        BY <3>2, RelyingAssumption, FS_Subset, FS_CardinalityType
      <3>4. Cardinality(Of(n)') = 0
        BY <2>0, <3>1
      <3> QED
        BY <2>1, <3>3, <3>4, PileTypes DEF Pile
    <2>2. CASE pc' = [pc EXCEPT ![r] = "register"] /\ UNCHANGED want /\ n # Name(want[r])
               /\ listFails' = listFails
      <3>1. Pending(n)' \subseteq Pending(n)
        BY <2>2, TypeUnfold DEF Pending
      <3> QED
        BY <2>0, <2>2, <3>1, PileKept, TypeUnfold
    <2>3. CASE pc' = [pc EXCEPT ![r] = "register"] /\ UNCHANGED want /\ listFails' = listFails + 1
      <3>1. Pending(n)' \subseteq Pending(n) \cup {r}
        BY <2>3, TypeUnfold DEF Pending
      <3>2. /\ IsFiniteSet(Pending(n) \cup {r})
            /\ Cardinality(Pending(n) \cup {r}) <= Cardinality(Pending(n)) + 1
            /\ Cardinality(Pending(n) \cup {r}) \in Nat
        BY PileTypes, OneMore
      <3>3. Cardinality(Pending(n)') <= Cardinality(Pending(n)) + 1 /\ Cardinality(Pending(n)') \in Nat
        BY <3>1, <3>2, PileTypes, FS_Subset, FS_CardinalityType
      <3>4. Cardinality(Of(n)') = Cardinality(Of(n))
        BY <2>0
      <3> QED
        BY <2>3, <3>3, <3>4, PileTypes DEF Pile
    <2>4. CASE \E x : Holds(r, x, "holds") /\ listFails' = listFails
      <3>1. Pending(n)' \subseteq Pending(n)
        BY <2>4, TypeUnfold DEF Pending, Holds
      <3> QED
        BY <2>0, <2>4, <3>1, PileKept, TypeUnfold
    <2> QED
      BY <1>1, <2>1, <2>2, <2>3, <2>4 DEF ListClients
  <1>2. ASSUME NEW r \in Run, RegisterClient(r) PROVE Pile(n)'
    <2>0. /\ want[r] \in Want /\ Name(want[r]) \in Names /\ pc[r] = "register"
          /\ listFails' = listFails /\ listFails \in Nat
      BY <1>2, TypeUnfold, NameFacts DEF RegisterClient, RunOK
    <2>1. CASE NotRegistered(r)
      <3>1. Of(n)' \subseteq Of(n) /\ Pending(n)' \subseteq Pending(n)
        BY <2>1, NotRegisteredType, CaseOverType DEF Of, Pending
      <3> QED
        BY <2>0, <3>1, PileKept
    <2>2. ASSUME NEW c \in Free, Registered(r, Name(want[r]), "holds", c) PROVE Pile(n)'
      <3>1. Of(n)' \subseteq Of(n) \cup {c} /\ (n # Name(want[r]) => Of(n)' \subseteq Of(n))
        BY <2>0, <2>2, RegisteredType DEF Of
      <3>2. Pending(n)' \subseteq Pending(n) \ {r}
        BY <2>0, <2>2, RegisteredRun DEF Pending
      <3>3. CASE n # Name(want[r])
        BY <2>0, <3>1, <3>2, <3>3, PileKept
      <3>4. CASE n = Name(want[r])
        <4>1. r \in Pending(n)
          BY <2>0, <3>4 DEF Pending
        <4>2. /\ IsFiniteSet(Of(n) \cup {c})
              /\ Cardinality(Of(n) \cup {c}) <= Cardinality(Of(n)) + 1
              /\ Cardinality(Of(n) \cup {c}) \in Nat
          BY PileTypes, OneMore
        <4>3. Cardinality(Of(n)') <= Cardinality(Of(n)) + 1 /\ Cardinality(Of(n)') \in Nat
          BY <3>1, <4>2, PileTypes, FS_Subset, FS_CardinalityType
        <4>4. /\ IsFiniteSet(Pending(n) \ {r})
              /\ Cardinality(Pending(n) \ {r}) = Cardinality(Pending(n)) - 1
              /\ Cardinality(Pending(n) \ {r}) \in Nat
          BY <4>1, PileTypes, FS_RemoveElement, FS_CardinalityType
        <4>5. Cardinality(Pending(n)') <= Cardinality(Pending(n)) - 1 /\ Cardinality(Pending(n)') \in Nat
          BY <3>2, <4>4, PileTypes, FS_Subset, FS_CardinalityType
        <4> QED
          BY <2>0, <4>3, <4>5, PileTypes DEF Pile
      <3> QED
        BY <3>3, <3>4
    <2> QED
      BY <1>2, <2>1, <2>2 DEF RegisterClient
  <1>3. ASSUME NEW r \in Run, RegisterFresh(r) PROVE Pile(n)'
    <2>0. /\ want[r] \in Want /\ pc[r] # "idle" /\ n # Unique
          /\ listFails' = listFails /\ listFails \in Nat
      BY <1>3, TypeUnfold, NameFacts DEF RegisterFresh, RunOK
    <2>1. CASE NotRegistered(r)
      <3>1. Of(n)' \subseteq Of(n) /\ Pending(n)' \subseteq Pending(n)
        BY <2>1, NotRegisteredType, CaseOverType DEF Of, Pending
      <3> QED
        BY <2>0, <3>1, PileKept
    <2>2. ASSUME NEW c \in Free, Registered(r, Unique, "exchanges", c) PROVE Pile(n)'
      <3>1. Of(n)' \subseteq Of(n)
        BY <2>0, <2>2, RegisteredType DEF Of
      <3>2. Pending(n)' \subseteq Pending(n)
        BY <2>0, <2>2, RegisteredRun DEF Pending
      <3> QED
        BY <2>0, <3>1, <3>2, PileKept
    <2> QED
      BY <1>3, <2>1, <2>2 DEF RegisterFresh
  <1>4. ASSUME NEW r \in Run, NeedClient(r) \/ NeedSecret(r) \/ EndCase(r) \/ NextRun(r) PROVE Pile(n)'
    <2>1. registered' = registered /\ listFails' = listFails /\ listFails \in Nat
      BY <1>4, TypeUnfold DEF NeedClient, NeedSecret, EndCase, NextRun
    <2>2. CASE NeedClient(r) \/ NeedSecret(r)
      <3>1. \A s \in Run : pc'[s] = "register" => pc[s] = "register" /\ want'[s] = want[s]
        BY <2>2, TypeUnfold DEF NeedClient, NeedSecret
      <3>2. Of(n)' \subseteq Of(n) /\ Pending(n)' \subseteq Pending(n)
        BY <2>1, <3>1 DEF Of, Pending
      <3> QED
        BY <2>1, <3>2, PileKept
    <2>3. CASE EndCase(r) \/ NextRun(r)
      <3>1. Of(n)' \subseteq Of(n) /\ Pending(n)' \subseteq Pending(n)
        BY <2>1, <2>3, CaseOverType DEF EndCase, NextRun, Of, Pending
      <3> QED
        BY <2>1, <3>1, PileKept
    <2> QED
      BY <1>4, <2>2, <2>3
  <1>5. CASE (\E c \in Client : Drift(c)) \/ UNCHANGED vars
    <2>1. \A d \in Client : registered'[d] # None =>
            registered[d] # None /\ registered'[d].name = registered[d].name
      <3>1. ASSUME NEW c \in Client, Drift(c)
            PROVE  \A d \in Client : registered'[d] # None =>
                     registered[d] # None /\ registered'[d].name = registered[d].name
        BY <3>1, ClientsKept, TypeUnfold DEF Drift
      <3> QED
        BY <1>5, <3>1 DEF vars
    <2>2. UNCHANGED <<pc, want, listFails>> /\ listFails \in Nat
      BY <1>5, TypeUnfold DEF Drift, vars
    <2>3. Of(n)' \subseteq Of(n) /\ Pending(n)' \subseteq Pending(n)
      BY <2>1, <2>2 DEF Of, Pending
    <2> QED
      BY <2>2, <2>3, PileKept
  <1> QED
    BY <1>1, <1>2, <1>3, <1>4, <1>5 DEF Next

\* Clients of a name do not pile up, however many runs there are: an account never
\* has more of them than runs that are at it at once, and one for each list that
\* could not be read.
THEOREM PilesBounded == Spec => []PileBounded
  <1> DEFINE PInv == TypeOK /\ \A n \in Names : Pile(n)
  <1>1. Init => PInv
    <2>1. Init => TypeOK
      BY InitType
    <2>2. ASSUME Init, NEW n \in Names PROVE Pile(n)
      <3>1. Of(n) = {} /\ Pending(n) = {}
        BY <2>2 DEF Init, Of, Pending
      <3>2. Cardinality(Of(n)) = 0 /\ Cardinality(Pending(n)) = 0
        BY <3>1, FS_EmptySet
      <3> QED
        BY <2>1, <2>2, <3>2, PileTypes DEF Pile
    <2> QED
      BY <2>1, <2>2
  <1>2. PInv /\ [Next]_vars => PInv'
    BY NextType, PileStep
  <1>3. PInv => PileBounded
    <2> SUFFICES ASSUME PInv, NEW n \in Names
                 PROVE  Cardinality(Of(n)) <= Cardinality(Run) + listFails
      BY DEF PileBounded, Of
    <2> QED
      BY PileTypes DEF Pile
  <1> QED
    BY <1>1, <1>2, <1>3, PTL DEF Spec
=============================================================================
