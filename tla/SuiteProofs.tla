---------------------------- MODULE SuiteProofs ----------------------------
(***************************************************************************)
(* What holds of Suite for any referentials, command lines and credential  *)
(* stores, and any number of lost calls and expired tokens.                *)
(***************************************************************************)
EXTENDS Suite, FiniteSetTheorems, TLAPS

(***************************************************************************)
(* The list of cases                                                       *)
(***************************************************************************)

LEMMA CasesFacts ==
  /\ Len(Cases) = 11 /\ DOMAIN Cases = 1..11
  /\ \A j \in 1..11 : Cases[j] \in CaseNames
  /\ \A j, k \in 1..11 : Cases[j] = Cases[k] => j = k
  /\ IsFiniteSet(CaseNames)
  <1>1. Len(Cases) = 11 /\ DOMAIN Cases = 1..11
    BY DEF Cases
  <1>2. \A j \in 1..11 : Cases[j] \in CaseNames
    BY <1>1 DEF CaseNames
  <1>3. \A j, k \in 1..11 : Cases[j] = Cases[k] => j = k
    BY DEF Cases
  <1>4. IsFiniteSet(CaseNames)
    <2> DEFINE f == [j \in 1..11 |-> Cases[j]]
    <2>3. f \in [1..11 -> CaseNames]
      BY <1>2
    <2>4. \A c \in CaseNames : \E j \in 1..11 : f[j] = c
      <3> SUFFICES ASSUME NEW c \in CaseNames PROVE \E j \in 1..11 : f[j] = c
        OBVIOUS
      <3>1. PICK j \in 1..11 : c = Cases[j]
        BY <1>1 DEF CaseNames
      <3>2. f[j] = c
        BY <3>1
      <3> QED
        BY <3>2
    <2> HIDE DEF f
    <2>1. f \in Surjection(1..11, CaseNames)
      BY <2>3, <2>4 DEF Surjection
    <2>2. IsFiniteSet(1..11)
      <3>1. 1 \in Int /\ 11 \in Int
        OBVIOUS
      <3> QED
        BY <3>1, FS_Interval, Zenon
    <2> QED
      BY <2>1, <2>2, FS_Surjection
  <1> QED
    BY <1>1, <1>2, <1>3, <1>4

(***************************************************************************)
(* The start of the process                                                *)
(***************************************************************************)

LEMMA InitStart == Init => StartupTypeOK
  BY StartupAssumption DEF Init, StartupInit, StartupTypeOK

LEMMA TargetType == StartupTypeOK => Target \in Endpoint
  BY StartupAssumption DEF StartupTypeOK, Target, Command

LEMMA TokensAreNotNone == \A t \in Token : t # None
  BY StartupAssumption

LEMMA NextStart == StartupTypeOK /\ Starts => StartupTypeOK'
  <1> SUFFICES ASSUME StartupTypeOK, Starts PROVE StartupTypeOK'
    OBVIOUS
  <1>0. /\ cmd.token \in Token \cup {None} /\ cmd.env \in Token \cup {None}
        /\ None # 1
    BY StartupAssumption, SuiteAssumption DEF StartupTypeOK, Command
  <1>1. CASE TokenGiven
    BY <1>0, <1>1, StartupAssumption DEF TokenGiven, Goes, StartupTypeOK, Target
  <1>2. CASE Refresh
    <2>1. store' \in Seq(Credential)
      <3>1. ASSUME NEW k \in DOMAIN store, store' = [store EXCEPT ![k].access = "valid"]
            PROVE  store' \in Seq(Credential)
        <4>1. store[k] \in Credential /\ k \in 1..Len(store)
          BY DEF StartupTypeOK
        <4>2. [store[k] EXCEPT !.access = "valid"] \in Credential
          BY <4>1 DEF Credential
        <4>3. store' = [store EXCEPT ![k] = [store[k] EXCEPT !.access = "valid"]]
          BY <3>1
        <4> DEFINE renewed == [store[k] EXCEPT !.access = "valid"]
        <4> HIDE DEF renewed
        <4>4. store' = [store EXCEPT ![k] = renewed] /\ renewed \in Credential
          BY <4>2, <4>3 DEF renewed
        <4> QED
          BY <4>1, <4>4 DEF StartupTypeOK
      <3> QED
        BY <1>2, <3>1 DEF Refresh, StartupTypeOK
    <2> QED
      BY <1>2, <2>1 DEF Refresh, Goes, StartupTypeOK, Target
  <1>3. CASE ListCredentials
    <2>1. bearer' \in Token \cup {None} /\ (stage' = "referential" => bearer' # None)
      <3>1. CASE /\ store # <<>>
                 /\ bearer' = [for |-> Head(store).for, valid |-> Head(store).access = "valid"]
        <4>1. Head(store) \in Credential
          BY <3>1 DEF StartupTypeOK
        <4>2. bearer' \in Token
          BY <3>1, <4>1 DEF Credential, Token
        <4> QED
          BY <4>2, TokensAreNotNone
      <3>2. CASE GivesUp /\ UNCHANGED bearer
        BY <3>2 DEF GivesUp, StartupTypeOK
      <3> QED
        BY <1>3, <3>1, <3>2 DEF ListCredentials
    <2> QED
      BY <1>0, <1>3, <2>1 DEF ListCredentials, Goes, GivesUp, StartupTypeOK, Target
  <1>4. CASE LoadReferential \/ LoadIdentity
    BY <1>0, <1>4
    DEF LoadReferential, LoadIdentity, Goes, GivesUp, StartupTypeOK, Target
  <1>5. CASE AccountID
    BY <1>0, <1>5 DEF AccountID, Goes, GivesUp, StartupTypeOK, Target, Accepted
  <1>6. CASE Expire
    <2>1. expiries' \in 0..MaxExpiries
      BY <1>6, StartupAssumption DEF Expire, StartupTypeOK
    <2>2. CASE /\ \E k \in DOMAIN store :
                    /\ store[k].access = "valid"
                    /\ store' = [store EXCEPT ![k].access = "expired"]
               /\ UNCHANGED bearer
      <3>1. PICK k \in DOMAIN store : store' = [store EXCEPT ![k].access = "expired"]
        BY <2>2
      <3>2. store[k] \in Credential /\ k \in 1..Len(store)
        BY DEF StartupTypeOK
      <3> DEFINE outdated == [store[k] EXCEPT !.access = "expired"]
      <3>3. outdated \in Credential /\ store' = [store EXCEPT ![k] = outdated]
        BY <3>1, <3>2 DEF Credential
      <3> HIDE DEF outdated
      <3>4. store' \in Seq(Credential)
        BY <3>2, <3>3 DEF StartupTypeOK
      <3> QED
        BY <1>6, <2>1, <2>2, <3>4 DEF Expire, StartupTypeOK, Target
    <2>3. CASE /\ bearer # None
               /\ bearer' = [bearer EXCEPT !.valid = FALSE]
               /\ stage \notin {"exited", "listening"}
               /\ UNCHANGED store
      <3>1. bearer \in Token
        BY <2>3 DEF StartupTypeOK
      <3>2. bearer' \in Token
        BY <2>3, <3>1 DEF Token
      <3>3. bearer' # None
        BY <3>2, TokensAreNotNone
      <3> QED
        BY <1>6, <2>1, <2>3, <3>2, <3>3 DEF Expire, StartupTypeOK, Target
    <2> QED
      BY <1>6, <2>2, <2>3 DEF Expire
  <1> QED
    BY <1>1, <1>2, <1>3, <1>4, <1>5, <1>6 DEF Starts
(***************************************************************************)
(* Type correctness                                                        *)
(***************************************************************************)

Verdicts == {"pass", "skip", "fail", None}
Counted(verdict) == {c \in CaseNames : verdicts[c] = verdict}

\* TypeOK, with the cases that are still to come and the flaw's row.
SuiteInv ==
  /\ StartupTypeOK
  /\ flaw \in Flaws /\ selected \subseteq CaseNames
  /\ badRow \in KeysOf(Priced) \cup {None}
  /\ flaw \in {"rowMissing", "rowFree"} <=> badRow # None
  /\ i \in 1..12
  /\ verdicts \in [CaseNames -> Verdicts]
  /\ \A j \in i..11 : verdicts[Cases[j]] = None
  /\ failed = Cardinality(Counted("fail"))
  /\ skipped = Cardinality(Counted("skip"))
  /\ lost \in 0..MaxLost
  /\ stage \notin {"cases", "exited"} => i = 1
  /\ i > 11 /\ exit # None => exit = (IF failed > 0 THEN 1 ELSE 0) \/ (cmd.json /\ exit = 1)

LEMMA SuiteInvImplies == SuiteInv => TypeOK
  <1>1. KeysOf(Priced) \subseteq KeysOf(ref)
    BY DEF KeysOf, Priced
  <1> QED
    BY <1>1, CasesFacts DEF SuiteInv, TypeOK, Counted, Verdicts

LEMMA InitSuite == Init => SuiteInv
  <1> SUFFICES ASSUME Init PROVE SuiteInv
    OBVIOUS
  <1>1. \A v \in {"fail", "skip"} : Counted(v) = {}
    BY SuiteAssumption DEF Init, Counted
  <1>2. Cardinality({}) = 0
    BY FS_EmptySet
  <1>3. selected \subseteq CaseNames
    BY SuiteAssumption DEF Init
  <1>4. \A j \in 1..11 : verdicts[Cases[j]] = None
    BY CasesFacts DEF Init
  <1>5. verdicts \in [CaseNames -> Verdicts] /\ lost \in 0..MaxLost
    BY SuiteAssumption DEF Init, Verdicts
  <1>6. exit = None /\ i = 1
    BY DEF Init, StartupInit
  <1> QED
    BY <1>1, <1>2, <1>3, <1>4, <1>5, <1>6, InitStart DEF Init, SuiteInv
LEMMA VerdictTypes ==
  ASSUME NEW c, NEW verdict \in LostVerdicts(c)
  PROVE  /\ verdict \in {"pass", "skip", "fail"}
         /\ verdict = "pass" => Passes(c)
  BY DEF LostVerdicts, Verdict

\* One more verdict is counted once.
LEMMA CountedOnce ==
  ASSUME SuiteInv, NEW c \in CaseNames, verdicts[c] = None, NEW verdict \in {"pass", "skip", "fail"},
         verdicts' = [verdicts EXCEPT ![c] = verdict], NEW v \in {"skip", "fail"}
  PROVE  Cardinality(Counted(v)') = Cardinality(Counted(v)) + (IF verdict = v THEN 1 ELSE 0)
  <1>1. IsFiniteSet(Counted(v)) /\ Cardinality(Counted(v)) \in Nat
    BY CasesFacts, FS_Subset, FS_CardinalityType DEF Counted
  <1>2. c \notin Counted(v)
    BY SuiteAssumption DEF Counted
  <1>3. CASE verdict = v
    <2>1. Counted(v)' = Counted(v) \cup {c}
      BY <1>3 DEF Counted, SuiteInv
    <2>2. Cardinality(Counted(v) \cup {c}) =
            IF c \in Counted(v) THEN Cardinality(Counted(v)) ELSE Cardinality(Counted(v)) + 1
      BY <1>1, FS_AddElement
    <2> QED
      BY <1>1, <1>2, <1>3, <2>1, <2>2
  <1>4. CASE verdict # v
    <2>1. Counted(v)' = Counted(v)
      BY <1>4, SuiteAssumption DEF Counted, SuiteInv
    <2> QED
      BY <1>1, <1>4, <2>1
  <1> QED
    BY <1>3, <1>4

LEMMA CountersNat == SuiteInv => failed \in Nat /\ skipped \in Nat
  <1> SUFFICES ASSUME SuiteInv PROVE failed \in Nat /\ skipped \in Nat
    OBVIOUS
  <1>1. \A v \in Verdicts : IsFiniteSet(Counted(v))
    BY CasesFacts, FS_Subset DEF Counted
  <1>2. \A v \in Verdicts : Cardinality(Counted(v)) \in Nat
    BY <1>1, FS_CardinalityType
  <1> QED
    BY <1>2 DEF SuiteInv, Verdicts

LEMMA NextSuite == SuiteInv /\ [Next]_vars => SuiteInv'
  <1> SUFFICES ASSUME SuiteInv, [Next]_vars PROVE SuiteInv'
    OBVIOUS
  <1>1. CASE Starts /\ UNCHANGED <<world, results>>
    <2>1. StartupTypeOK'
      BY <1>1, NextStart DEF SuiteInv
    <2>2. ref' = ref
      BY <1>1 DEF Starts, TokenGiven, Refresh, ListCredentials, LoadReferential, LoadIdentity,
                  AccountID, Expire
    <2>3. /\ UNCHANGED <<flaw, badRow, selected, i, verdicts, failed, skipped, lost>>
          /\ KeysOf(Priced)' = KeysOf(Priced)
          /\ Counted("fail")' = Counted("fail") /\ Counted("skip")' = Counted("skip")
      BY <1>1, <2>2 DEF world, results, KeysOf, Priced, Counted
    <2>4. stage' \notin {"cases", "exited"} => i' = 1
      BY <1>1, <2>3 DEF SuiteInv, Starts, TokenGiven, Refresh, ListCredentials, LoadReferential,
                        LoadIdentity, AccountID, Expire, Goes, GivesUp
    <2>5. cmd' = cmd /\ (i > 11 => UNCHANGED exit)
      BY <1>1 DEF SuiteInv, Starts, TokenGiven, Refresh, ListCredentials, LoadReferential,
                  LoadIdentity, AccountID, Expire, Goes, GivesUp
    <2> QED
      BY <2>1, <2>3, <2>4, <2>5 DEF SuiteInv
  <1>2. CASE RunCase
    <2> DEFINE c == Cases[i]
    <2>1. /\ stage = "cases" /\ i \in 1..11 /\ i' = i + 1
          /\ UNCHANGED <<startVars, world>>
      BY <1>2, CasesFacts DEF RunCase, SuiteInv
    <2>2. PICK verdict \in LostVerdicts(c) :
            /\ verdict # Verdict(c) => lost < MaxLost
            /\ lost' = lost + (IF verdict = Verdict(c) THEN 0 ELSE 1)
            /\ verdicts' = [verdicts EXCEPT ![c] = verdict]
            /\ Counts(verdict)
      BY <1>2 DEF RunCase
    <2>3. verdict \in {"pass", "skip", "fail"}
      BY <2>2, VerdictTypes
    <2>4. c \in CaseNames /\ verdicts[c] = None
      BY <2>1, CasesFacts DEF SuiteInv
    <2>5. \A j \in i'..11 : Cases[j] # c
      BY <2>1, CasesFacts
    <2> HIDE DEF c
    <2>6. verdicts' \in [CaseNames -> Verdicts] /\ \A j \in i'..11 : verdicts'[Cases[j]] = None
      <3>1. verdicts' \in [CaseNames -> Verdicts]
        BY <2>2, <2>3, <2>4 DEF SuiteInv, Verdicts
      <3>2. ASSUME NEW j \in i'..11 PROVE verdicts'[Cases[j]] = None
        <4>1. j \in i..11 /\ j \in 1..11
          BY <2>1
        <4>2. Cases[j] \in CaseNames /\ verdicts[Cases[j]] = None
          BY <4>1, CasesFacts DEF SuiteInv
        <4> QED
          BY <2>2, <2>5, <4>2 DEF SuiteInv
      <3> QED
        BY <3>1, <3>2
    <2>7. failed' = Cardinality(Counted("fail")')
      BY <2>2, <2>3, <2>4, CountedOnce DEF Counts, SuiteInv
    <2>8. skipped' = Cardinality(Counted("skip")')
      BY <2>2, <2>3, <2>4, CountedOnce DEF Counts, SuiteInv
    <2>9. lost' \in 0..MaxLost
      BY <2>2, SuiteAssumption DEF SuiteInv
    <2>10. UNCHANGED <<cmd, stage, exit, ref, flaw, badRow, selected>> /\ StartupTypeOK'
      BY <2>1 DEF startVars, world, SuiteInv, StartupTypeOK, Target
    <2>11. KeysOf(Priced)' = KeysOf(Priced)
      BY <2>10 DEF KeysOf, Priced
    <2>12. exit = None
      BY <2>1 DEF SuiteInv, StartupTypeOK
    <2> QED
      BY <2>1, <2>6, <2>7, <2>8, <2>9, <2>10, <2>11, <2>12 DEF SuiteInv
  <1>3. CASE PassOver
    <2>1. /\ stage = "cases" /\ i \in 1..11 /\ i' = i + 1
          /\ UNCHANGED <<startVars, world, verdicts, failed, skipped, lost>>
      BY <1>3, CasesFacts DEF PassOver, SuiteInv
    <2>2. UNCHANGED <<cmd, stage, exit, ref, flaw, badRow, selected>> /\ StartupTypeOK'
      BY <2>1 DEF startVars, world, SuiteInv, StartupTypeOK, Target
    <2>3. /\ KeysOf(Priced)' = KeysOf(Priced)
          /\ Counted("fail")' = Counted("fail") /\ Counted("skip")' = Counted("skip")
      BY <2>1, <2>2 DEF KeysOf, Priced, Counted
    <2>4. exit = None
      BY <2>1 DEF SuiteInv, StartupTypeOK
    <2> QED
      BY <2>1, <2>2, <2>3, <2>4 DEF SuiteInv
  <1>4. CASE Finish
    <2>1. /\ i > 11 /\ stage' = "exited"
          /\ exit' = (IF failed > 0 THEN 1 ELSE 0) \/ (cmd.json /\ exit' = 1)
          /\ UNCHANGED <<cmd, store, ref, bearer, expiries, world, results>>
      BY <1>4, CasesFacts DEF Finish
    <2>2. UNCHANGED <<flaw, badRow, selected, i, verdicts, failed, skipped, lost>>
      BY <2>1 DEF world, results
    <2>3. StartupTypeOK'
      BY <1>4, <2>1, SuiteAssumption DEF Finish, SuiteInv, StartupTypeOK, Target
    <2>4. /\ KeysOf(Priced)' = KeysOf(Priced)
          /\ Counted("fail")' = Counted("fail") /\ Counted("skip")' = Counted("skip")
      BY <2>1, <2>2 DEF KeysOf, Priced, Counted
    <2> QED
      BY <2>1, <2>2, <2>3, <2>4 DEF SuiteInv
  <1>5. CASE UNCHANGED vars
    <2>1. /\ UNCHANGED <<cmd, store, ref, stage, exit, bearer, expiries>>
          /\ UNCHANGED <<flaw, badRow, selected, i, verdicts, failed, skipped, lost>>
      BY <1>5 DEF vars, startVars, world, results
    <2>2. /\ KeysOf(Priced)' = KeysOf(Priced)
          /\ Counted("fail")' = Counted("fail") /\ Counted("skip")' = Counted("skip")
      BY <2>1 DEF KeysOf, Priced, Counted
    <2>3. StartupTypeOK'
      BY <2>1 DEF SuiteInv, StartupTypeOK, Target
    <2> QED
      BY <2>1, <2>2, <2>3 DEF SuiteInv
  <1> QED
    BY <1>1, <1>2, <1>3, <1>4, <1>5 DEF Next

LEMMA SuiteInvariant == Spec => []SuiteInv
  BY InitSuite, NextSuite, PTL DEF Spec

\* The counters that decide the exit status count the verdicts of the report.
THEOREM TypeCorrect == Spec => []TypeOK
  BY SuiteInvariant, SuiteInvImplies, PTL

(***************************************************************************)
(* The bearer from the CLI's store                                         *)
(***************************************************************************)

Listed == {"referential", "identity", "account", "cases", "listening"}
HeadToken == [for |-> Head(store).for, valid |-> Head(store).access = "valid"]

\* A process that has listed the credentials and lost nothing to time holds the
\* first one's token, and the store has stayed as it was.
ListedInv ==
  stage \in Listed /\ cmd.token = None /\ cmd.env = None /\ expiries = 0 =>
    store # <<>> /\ Head(store).access # "empty" /\ bearer = HeadToken

LEMMA NextListed == SuiteInv /\ ListedInv /\ [Next]_vars => ListedInv'
  <1> SUFFICES ASSUME SuiteInv, ListedInv, [Next]_vars,
                      stage' \in Listed, cmd'.token = None, cmd'.env = None, expiries' = 0
               PROVE  (store # <<>> /\ Head(store).access # "empty" /\ bearer = HeadToken)'
    BY DEF ListedInv
  <1>1. CASE ListCredentials
    BY <1>1 DEF ListCredentials, GivesUp, Goes, HeadToken, Listed
  <1>2. CASE UNCHANGED <<cmd, store, bearer, expiries>> /\ stage \in Listed
    BY <1>2 DEF ListedInv, HeadToken
  <1>3. CASE TokenGiven \/ Refresh
    BY <1>3 DEF TokenGiven, Refresh, Goes, Listed
  <1>4. CASE LoadReferential \/ LoadIdentity \/ AccountID
    <2>1. UNCHANGED <<cmd, store, bearer, expiries>> /\ stage \in Listed
      BY <1>4 DEF LoadReferential, LoadIdentity, AccountID, Listed
    <2> QED
      BY <2>1, <1>2
  <1>5. CASE Expire
    <2>1. expiries \in Nat /\ expiries' = expiries + 1
      BY <1>5, StartupAssumption DEF Expire, SuiteInv, StartupTypeOK
    <2> QED
      BY <2>1
  <1>6. CASE RunCase \/ PassOver \/ Finish \/ UNCHANGED vars
    <2>1. UNCHANGED <<cmd, store, bearer, expiries>> /\ stage \in Listed
      BY <1>6 DEF RunCase, PassOver, Finish, vars, startVars, Listed
    <2> QED
      BY <2>1, <1>2
  <1> QED
    BY <1>1, <1>3, <1>4, <1>5, <1>6 DEF Next, Starts

\* A bearer from the store that is refused was lost to time, is for another endpoint,
\* or had expired before and was not renewed.
THEOREM FirstLogins == Spec => []FirstLoginIsTaken
  <1>1. Init => ListedInv
    BY DEF Init, StartupInit, ListedInv, Listed
  <1>2. SuiteInv /\ ListedInv => FirstLoginIsTaken
    <2> SUFFICES ASSUME SuiteInv, ListedInv, stage \in Listed, cmd.token = None, cmd.env = None,
                        expiries = 0, Head(store).for = Target, Head(store).access # "expired"
                 PROVE  Accepted
      BY DEF FirstLoginIsTaken, Listed
    <2>1. store # <<>> /\ Head(store).access # "empty" /\ bearer = HeadToken
      BY DEF ListedInv
    <2>2. Head(store) \in Credential
      BY <2>1 DEF SuiteInv, StartupTypeOK
    <2>3. Head(store).access = "valid"
      BY <2>1, <2>2 DEF Credential
    <2> QED
      BY <2>1, <2>3 DEF HeadToken, Accepted
  <1> QED
    BY <1>1, <1>2, NextListed, SuiteInvariant, PTL DEF Spec

(***************************************************************************)
(* Every case that passes was taken                                        *)
(***************************************************************************)

LEMMA PassNeedsBearer ==
  ASSUME NEW c \in CaseNames \ {"twoTiers"}, Passes(c)
  PROVE  Accepted
  <1>1. ASSUME NEW attrs, HasClient(attrs) PROVE Accepted
    BY <1>1 DEF HasClient, RegisterStatus
  <1>2. EmptyRefused => Accepted
    BY DEF EmptyRefused, RegisterStatus
  <1> QED
    BY <1>1, <1>2 DEF Passes, Ceiling, ScopeGate, Named, PricedRows, SelfAsserted, TokenFilter,
                      UnknownDropped, Quote, Grant

\* However the bearer was found and whenever it expires, a case that asks the
\* platform anything passes only while the platform takes the bearer.
THEOREM NoneUnexercised == Spec => UnexercisedNeverPasses
  <1>1. SuiteInv /\ [Next]_vars =>
          [\A c \in CaseNames \ {"twoTiers"} :
             verdicts[c] = None /\ verdicts'[c] = "pass" => Accepted]_vars
    <2> SUFFICES ASSUME SuiteInv, Next, NEW c \in CaseNames \ {"twoTiers"},
                        verdicts[c] = None, verdicts'[c] = "pass"
                 PROVE  Accepted
      OBVIOUS
    <2>1. CASE RunCase
      <3>1. PICK verdict \in LostVerdicts(Cases[i]) :
              verdicts' = [verdicts EXCEPT ![Cases[i]] = verdict]
        BY <2>1 DEF RunCase
      <3>2. c = Cases[i] /\ verdict = "pass"
        BY <3>1, SuiteAssumption DEF SuiteInv
      <3> QED
        BY <3>2, VerdictTypes, PassNeedsBearer
    <2>2. CASE UNCHANGED verdicts
      BY <2>2, SuiteAssumption
    <2> QED
      BY <2>1, <2>2 DEF Next, results, PassOver, Finish
  <1> QED
    BY <1>1, SuiteInvariant, PTL DEF Spec, UnexercisedNeverPasses
(***************************************************************************)
(* No case passes against a platform that breaks its rule                  *)
(***************************************************************************)

LEMMA Least ==
  ASSUME NEW T, T \subseteq Nat, T # {}
  PROVE  \E x \in T : \A y \in T : x <= y
  <1> DEFINE R == OpToRel(<, Nat)
  <1>1. IsWellFoundedOn(R, Nat)
    BY NatLessThanWellFounded, Zenon
  <1>2. \A x, y \in Nat : y < x => <<y, x>> \in R
    BY DEF OpToRel
  <1> HIDE DEF R
  <1>3. PICK x \in T : \A y \in T : ~(<<y, x>> \in R)
    BY <1>1, WFMin
  <1>4. ASSUME NEW y \in T PROVE x <= y
    <2>1. x \in Nat /\ y \in Nat /\ ~(y < x)
      BY <1>2, <1>3
    <2> QED
      BY <2>1
  <1> QED
    BY <1>4

\* Keys are unique, and the government half of a pair is taken by name only, under
\* a scope that the cases on pairs ask for.
TwinsAreNamed(attrs) ==
  /\ \A a, b \in attrs : a.key = b.key => a = b
  /\ \A a, b \in attrs : b.key = a.govKey => b.requestOnly /\ b.scope \in {"email", "identity"}

LEMMA RefFacts ==
  ASSUME SuiteInv
  PROVE  /\ ref \in Referentials /\ ref \subseteq Attribute /\ IsFiniteSet(ref)
         /\ Priced \subseteq ref
  BY SuiteAssumption DEF SuiteInv, StartupTypeOK, Priced

LEMMA PairFacts ==
  ASSUME SuiteInv, TwinsAreNamed(ref), NEW p \in DualTierPairs
  PROVE  /\ p.self \in ref /\ p.twin \in ref
         /\ p.twin.requestOnly /\ p.twin.scope \in {"email", "identity"}
  <1>1. PICK a \in ref : Known(a.govKey) /\ p = [self |-> a, twin |-> ByKey(a.govKey)]
    BY DEF DualTierPairs
  <1>2. ByKey(a.govKey) \in ref /\ ByKey(a.govKey).key = a.govKey
    BY <1>1 DEF Known, ByKey
  <1> QED
    BY <1>1, <1>2 DEF TwinsAreNamed

LEMMA FirstPairFacts ==
  ASSUME SuiteInv, TwinsAreNamed(ref), DualTierPairs # {}
  PROVE  FirstPair \in DualTierPairs
  <1> DEFINE T == {p.self.key : p \in DualTierPairs}
  <1>1. \A p \in DualTierPairs : p.self.key \in Nat
    BY PairFacts, RefFacts DEF Attribute
  <1>2. T \subseteq Nat /\ T # {}
    BY <1>1
  <1>3. PICK least \in T : \A y \in T : least <= y
    BY <1>2, Least
  <1>4. \E p \in DualTierPairs : \A q \in DualTierPairs : p.self.key <= q.self.key
    BY <1>3
  <1> QED
    BY <1>4 DEF FirstPair
\* A flaw against the rule of a case keeps the case from passing, one case at a time.
LEMMA BreachFails ==
  ASSUME SuiteInv, TwinsAreNamed(ref), NEW c \in CaseNames, flaw \in Against[c], Passes(c)
  PROVE  FALSE
  <1>0. /\ c \in {"emptyRefused", "ceiling", "scopeGate", "named", "twoTiers", "pricedRows",
                  "selfAsserted", "tokenFilter", "unknownDropped", "quote", "grant"}
        /\ email \in Nat
    BY CasesFacts, SuiteAssumption DEF CaseNames, Cases
  <1>1. CASE c = "emptyRefused"
    BY <1>1 DEF Against, Passes, EmptyRefused, RegisterStatus
  <1>2. CASE c = "ceiling"
    <2> DEFINE overreach == {p.twin.key : p \in DualTierPairs}
    <2>1. /\ flaw \in {"namingEscapes", "noList"} /\ overreach # {}
          /\ email \in Requested({email}, {"email", "identity"}, overreach)
          /\ overreach \cap Requested({email}, {"email", "identity"}, overreach) = {}
      BY <1>2 DEF Against, Passes, Ceiling
    <2>2. flaw = "namingEscapes"
      BY <2>1 DEF Requested
    <2>3. PICK p \in DualTierPairs : TRUE
      BY <2>1
    <2>4. p.twin \in ref /\ p.twin.scope \in {"email", "identity"} /\ p.twin.key \in overreach
      BY PairFacts
    <2>5. p.twin.key \in Requested({email}, {"email", "identity"}, overreach)
      <3> HIDE DEF overreach
      <3> QED
        BY <2>2, <2>4 DEF Requested, KeysOf
    <2> QED
      BY <2>1, <2>4, <2>5
  <1>3. CASE c = "scopeGate"
    <2> DEFINE priced == {a \in ref : a.gov /\ a.requestOnly /\ a.scope = "identity"}
               gov == KeysOf(priced)
               attrs == {email} \cup gov
    <2>1. /\ flaw \in {"scopeIgnored", "registrationIsNotNaming", "namingUseless", "noList"}
          /\ gov # {}
          /\ email \in Requested(attrs, {"email", "profile"}, {})
          /\ gov \cap Requested(attrs, {"email", "profile"}, {}) = {}
          /\ gov \subseteq Requested(attrs, {"email", "identity"}, {})
      BY <1>3 DEF Against, Passes, ScopeGate
    <2>2. PICK a \in ref : a \in priced /\ a.key \in gov /\ a.key \in attrs
      BY <2>1 DEF KeysOf
    <2>3. a.requestOnly
      BY <2>2
    <2> HIDE DEF priced, gov, attrs
    <2>4. CASE flaw = "scopeIgnored"
      <3>1. a.key \in Requested(attrs, {"email", "profile"}, {})
        BY <2>2, <2>3, <2>4 DEF Requested, KeysOf
      <3> QED
        BY <2>1, <2>2, <3>1
    <2>5. CASE flaw = "noList"
      BY <2>1, <2>5 DEF Requested
    <2>6. CASE flaw \in {"registrationIsNotNaming", "namingUseless"}
      <3>1. a.key \in Requested(attrs, {"email", "identity"}, {})
        BY <2>1, <2>2
      <3>2. PICK b \in ref : /\ b.key = a.key
                             /\ b.requestOnly => flaw # "namingUseless"
                             /\ b.requestOnly /\ flaw = "registrationIsNotNaming" => b.key \in {}
        BY <2>6, <3>1 DEF Requested, KeysOf
      <3>3. b = a
        BY <2>2, <3>2 DEF TwinsAreNamed
      <3> QED
        BY <2>3, <2>6, <3>2, <3>3
    <2> QED
      BY <2>1, <2>4, <2>5, <2>6
  <1>4. CASE c = "named"
    <2> DEFINE gov == FirstPair.twin
    <2>1. /\ flaw \in {"namingUseless", "assuranceDropped", "noList"}
          /\ DualTierPairs # {}
          /\ gov.key \in Requested({email, gov.key}, {"email", "identity"}, {gov.key})
          /\ Assurance(gov) = "gov"
      BY <1>4 DEF Against, Passes, Named
    <2>2. gov \in ref /\ gov.requestOnly
      BY <2>1, FirstPairFacts, PairFacts
    <2> HIDE DEF gov
    <2>3. flaw = "namingUseless"
      BY <2>1 DEF Requested, Assurance
    <2>4. PICK b \in ref : b.key = gov.key /\ ~b.requestOnly
      BY <2>1, <2>3 DEF Requested, KeysOf
    <2>5. b = gov
      BY <2>2, <2>4 DEF TwinsAreNamed
    <2> QED
      BY <2>2, <2>4, <2>5
  <1>5. CASE c = "twoTiers"
    BY <1>5 DEF Against
  <1>6. CASE c = "pricedRows"
    <2>1. /\ flaw \in {"rowMissing", "rowFree"}
          /\ \A a \in Priced : ~QuoteFails({a}) /\ TotalCredits({a}) > 0
      BY <1>6 DEF Against, Passes, PricedRows
    <2>2. badRow \in KeysOf(Priced)
      BY <2>1 DEF SuiteInv
    <2>3. PICK a \in Priced : a.key = badRow
      BY <2>2 DEF KeysOf
    <2>4. Prices(a)
      BY <2>1, <2>3 DEF QuoteFails
    <2>5. flaw = "rowFree"
      BY <2>1, <2>3, <2>4 DEF Prices
    <2>6. {b \in {a} : ~Free(b)} = {}
      BY <2>3, <2>5 DEF Free
    <2>7. TotalCredits({a}) = 0
      BY <2>5, <2>6, FS_EmptySet DEF TotalCredits, Breakdown
    <2> QED
      BY <2>1, <2>3, <2>7
  <1>7. CASE c = "selfAsserted"
    BY <1>7 DEF Against, Passes, SelfAsserted, TokenClaims
  <1>8. CASE c = "tokenFilter"
    BY <1>8 DEF Against, Passes, TokenFilter, TokenClaims
  <1>9. CASE c = "unknownDropped"
    BY <1>9 DEF Against, Passes, UnknownDropped, AuthorizeFails, Requested
  <1>10. CASE c = "quote"
    <2> DEFINE chosen == {First(Priced), First(Priced \ {First(Priced)})}
    <2>1. flaw = "sumWrong" /\ Breakdown(chosen) = TotalCredits(chosen)
      BY <1>10 DEF Against, Passes, Quote
    <2>2. IsFiniteSet(chosen)
      <3>1. IsFiniteSet({First(Priced)})
        BY FS_Singleton
      <3>2. IsFiniteSet({First(Priced)} \cup {First(Priced \ {First(Priced)})})
        BY <3>1, FS_AddElement
      <3>3. chosen = {First(Priced)} \cup {First(Priced \ {First(Priced)})}
        OBVIOUS
      <3> QED
        BY <3>2, <3>3
    <2> HIDE DEF chosen
    <2>3. Breakdown(chosen) \in Nat
      BY <2>2, FS_Subset, FS_CardinalityType DEF Breakdown
    <2> QED
      BY <2>1, <2>3 DEF TotalCredits
  <1>11. CASE c = "grant"
    BY <1>11 DEF Against, Passes, Grant, GrantStatus
  <1> QED
    BY <1>0, <1>1, <1>2, <1>3, <1>4, <1>5, <1>6, <1>7, <1>8, <1>9, <1>10, <1>11

\* A case that passes now passed before, or passes in this step.
LEMMA PassStep ==
  ASSUME SuiteInv, [Next]_vars, NEW c \in CaseNames, verdicts'[c] = "pass"
  PROVE  verdicts[c] = "pass" \/ Passes(c)
  <1>1. CASE RunCase
    <2>1. PICK verdict \in LostVerdicts(Cases[i]) :
            verdicts' = [verdicts EXCEPT ![Cases[i]] = verdict]
      BY <1>1 DEF RunCase
    <2>2. verdicts[c] = "pass" \/ (c = Cases[i] /\ verdict = "pass")
      BY <2>1 DEF SuiteInv
    <2> QED
      BY <2>1, <2>2, VerdictTypes
  <1>2. CASE UNCHANGED verdicts
    BY <1>2
  <1> QED
    BY <1>1, <1>2 DEF Next, vars, results, PassOver, Finish

LEMMA NextBreach ==
  ASSUME \A attrs \in Referentials : TwinsAreNamed(attrs)
  PROVE  SuiteInv /\ BreachNeverPasses /\ [Next]_vars => BreachNeverPasses'
  <1> SUFFICES ASSUME SuiteInv, BreachNeverPasses, [Next]_vars,
                      NEW c \in CaseNames, flaw' \in Against[c], verdicts'[c] = "pass"
               PROVE  FALSE
    BY DEF BreachNeverPasses
  <1>1. flaw' = flaw /\ TwinsAreNamed(ref)
    BY RefFacts DEF Next, vars, world, RunCase, PassOver, Finish
  <1>2. verdicts[c] # "pass"
    BY <1>1 DEF BreachNeverPasses
  <1> QED
    BY <1>1, <1>2, PassStep, BreachFails

\* Over referentials whose pairs are taken by name only, no case passes against a
\* platform that breaks the rule the case states.
THEOREM BreachesFail ==
  ASSUME \A attrs \in Referentials : TwinsAreNamed(attrs)
  PROVE  Spec => []BreachNeverPasses
  <1>1. Init => BreachNeverPasses
    BY SuiteAssumption DEF Init, BreachNeverPasses
  <1>2. SuiteInv /\ BreachNeverPasses /\ [Next]_vars => BreachNeverPasses'
    BY NextBreach
  <1> QED
    BY <1>1, <1>2, SuiteInvariant, PTL DEF Spec

(***************************************************************************)
(* What a green run is worth                                               *)
(***************************************************************************)

\* A platform that sells nothing fails the case that asks for every price; a case
\* that was passed by has its verdict; only a run that went through them exits 0.
GreenInv ==
  /\ flaw = "unprovisioned" => verdicts["pricedRows"] # "pass"
  /\ \A j \in 1..11 : j < i /\ Cases[j] \in selected => verdicts[Cases[j]] # None
  /\ exit = 0 => i > 11

LEMMA InitGreen == Init => GreenInv
  <1> SUFFICES ASSUME Init PROVE GreenInv
    OBVIOUS
  <1>1. i = 1 /\ exit = None /\ None \notin {0, "pass"}
    BY SuiteAssumption DEF Init, StartupInit
  <1>2. "pricedRows" \in CaseNames
    BY CasesFacts DEF CaseNames, Cases
  <1>3. verdicts["pricedRows"] # "pass"
    BY <1>1, <1>2 DEF Init
  <1>4. \A j \in 1..11 : ~(j < i)
    BY <1>1
  <1> QED
    BY <1>1, <1>3, <1>4 DEF GreenInv

LEMMA UnsoldFails ==
  ASSUME flaw = "unprovisioned"
  PROVE  ~Passes("pricedRows")
  <1>1. PricedRows => \E a \in Priced : Prices(a)
    BY DEF PricedRows, QuoteFails
  <1> QED
    BY <1>1 DEF Passes, Prices

LEMMA NextGreen == SuiteInv /\ GreenInv /\ [Next]_vars => GreenInv'
  <1> SUFFICES ASSUME SuiteInv, GreenInv, [Next]_vars PROVE GreenInv'
    OBVIOUS
  <1>1. flaw' = flaw /\ selected' = selected
    BY DEF Next, vars, world, RunCase, PassOver, Finish
  <1>2. ASSUME flaw' = "unprovisioned" PROVE verdicts'["pricedRows"] # "pass"
    <2>1. "pricedRows" \in CaseNames
      BY CasesFacts DEF CaseNames, Cases
    <2> QED
      BY <1>1, <1>2, <2>1, PassStep, UnsoldFails DEF GreenInv
  <1>3. ASSUME NEW j \in 1..11, j < i', Cases[j] \in selected
        PROVE  verdicts'[Cases[j]] # None
    <2>1. CASE RunCase
      <3>1. i \in 1..11 /\ i' = i + 1
        BY <2>1, CasesFacts DEF RunCase, SuiteInv
      <3>2. PICK verdict \in LostVerdicts(Cases[i]) :
              verdicts' = [verdicts EXCEPT ![Cases[i]] = verdict]
        BY <2>1 DEF RunCase
      <3>3. verdict # None
        BY VerdictTypes, SuiteAssumption
      <3>4. Cases[j] \in CaseNames /\ (j = i \/ j < i)
        BY <1>3, <3>1, CasesFacts
      <3> QED
        BY <1>3, <3>2, <3>3, <3>4 DEF SuiteInv, GreenInv
    <2>2. CASE PassOver
      <3>1. /\ i \in 1..11 /\ i' = i + 1 /\ verdicts' = verdicts
            /\ Cases[i] \notin selected
        BY <2>2, CasesFacts DEF PassOver, SuiteInv
      <3>2. j < i
        BY <1>3, <3>1
      <3> QED
        BY <1>3, <3>1, <3>2 DEF GreenInv
    <2>3. CASE UNCHANGED results
      BY <1>3, <2>3 DEF results, GreenInv
    <2> QED
      BY <2>1, <2>2, <2>3 DEF Next, vars, Finish
  <1>4. exit' = 0 => i' > 11
    <2>1. CASE Starts /\ UNCHANGED <<world, results>>
      <3>1. exit' \in {exit, 1} /\ i' = i
        BY <2>1 DEF Starts, TokenGiven, Refresh, ListCredentials, LoadReferential, LoadIdentity,
                    AccountID, Expire, Goes, GivesUp, results
      <3> QED
        BY <3>1 DEF GreenInv
    <2>2. CASE RunCase \/ PassOver
      <3>1. exit' = exit /\ i' = i + 1
        BY <2>2 DEF RunCase, PassOver, startVars
      <3> QED
        BY <3>1 DEF GreenInv, SuiteInv
    <2>3. CASE Finish
      BY <2>3, CasesFacts DEF Finish, results
    <2>4. CASE UNCHANGED vars
      BY <2>4 DEF vars, startVars, results, GreenInv
    <2> QED
      BY <2>1, <2>2, <2>3, <2>4 DEF Next
  <1> QED
    BY <1>1, <1>2, <1>3, <1>4 DEF GreenInv

\* With no failure and no skip, every selected case that was gone through passed.
LEMMA GreenPasses ==
  ASSUME SuiteInv, GreenInv, exit = 0, skipped = 0, NEW c \in selected
  PROVE  verdicts[c] = "pass"
  <1>1. i > 11 /\ ~(failed > 0)
    <2>1. i > 11 /\ exit # None
      BY SuiteAssumption DEF GreenInv
    <2>2. exit = (IF failed > 0 THEN 1 ELSE 0) \/ (cmd.json /\ exit = 1)
      BY <2>1 DEF SuiteInv
    <2> QED
      BY <2>1, <2>2
  <1>2. failed = 0
    BY <1>1, CountersNat
  <1>3. \A v \in {"fail", "skip"} : IsFiniteSet(Counted(v)) /\ Cardinality(Counted(v)) = 0
    BY <1>2, CasesFacts, FS_Subset DEF SuiteInv, Counted
  <1>4. \A v \in {"fail", "skip"} : Counted(v) = {}
    BY <1>3, FS_EmptySet
  <1>5. c \in CaseNames
    BY DEF SuiteInv
  <1>6. PICK j \in 1..11 : c = Cases[j]
    BY <1>5, CasesFacts DEF CaseNames
  <1>7. j < i
    BY <1>1 DEF SuiteInv
  <1>8. verdicts[c] # None
    BY <1>6, <1>7 DEF GreenInv
  <1>9. verdicts[c] \notin {"fail", "skip"}
    BY <1>4, <1>5 DEF Counted
  <1> QED
    BY <1>5, <1>8, <1>9 DEF SuiteInv, Verdicts

LEMMA GreenSound == SuiteInv /\ GreenInv /\ BreachNeverPasses => GreenMeansSound
  <1> SUFFICES ASSUME SuiteInv, GreenInv, BreachNeverPasses,
                      exit = 0, selected = CaseNames, skipped = 0
               PROVE  flaw = "none"
    BY DEF GreenMeansSound
  <1>1. \A c \in CaseNames : verdicts[c] = "pass"
    BY GreenPasses
  <1>2. \A c \in CaseNames : flaw \notin Against[c]
    BY <1>1 DEF BreachNeverPasses
  <1>3. {"emptyRefused", "ceiling", "scopeGate", "named", "pricedRows", "selfAsserted",
         "tokenFilter", "unknownDropped", "quote", "grant"} \subseteq CaseNames
    BY CasesFacts DEF CaseNames, Cases
  <1>4. flaw # "unprovisioned"
    BY <1>1, <1>3 DEF GreenInv
  <1> QED
    BY <1>2, <1>3, <1>4 DEF SuiteInv, Flaws, Against

\* A run of every case that skips none and exits 0 met a platform that breaks no
\* rule, over referentials whose pairs are taken by name only.
THEOREM GreenIsSound ==
  ASSUME \A attrs \in Referentials : TwinsAreNamed(attrs)
  PROVE  Spec => []GreenMeansSound
  <1>1. Spec => []BreachNeverPasses
    BY BreachesFail
  <1> QED
    BY <1>1, InitGreen, NextGreen, GreenSound, SuiteInvariant, PTL DEF Spec

(***************************************************************************)
(* What a skip tells of                                                    *)
(***************************************************************************)

\* The process finds its bearer before the first verdict, and loses it for good.
LEMMA StartsBearer ==
  ASSUME SuiteInv, Starts
  PROVE  (\A c \in CaseNames : verdicts[c] = None) \/ ~Accepted'
  <1>1. CASE i = 1
    BY <1>1, CasesFacts DEF CaseNames, SuiteInv
  <1>2. CASE i # 1
    <2>1. stage \in {"cases", "exited"}
      BY <1>2 DEF SuiteInv
    <2>2. bearer # None /\ bearer' = [bearer EXCEPT !.valid = FALSE]
      BY <2>1 DEF Starts, TokenGiven, Refresh, ListCredentials, LoadReferential, LoadIdentity,
                  AccountID, Expire
    <2>3. bearer \in Token
      BY <2>2 DEF SuiteInv, StartupTypeOK
    <2>4. bearer'.valid = FALSE
      BY <2>2, <2>3 DEF Token
    <2> QED
      BY <2>4 DEF Accepted
  <1> QED
    BY <1>1, <1>2

\* Keys in order: the first of some attributes is one of them.
LEMMA FirstFacts ==
  ASSUME SuiteInv, NEW attrs, attrs \subseteq ref, attrs # {}
  PROVE  First(attrs) \in attrs
  <1>1. \A a \in attrs : a.key \in Nat
    BY RefFacts DEF Attribute
  <1>2. KeysOf(attrs) \subseteq Nat /\ KeysOf(attrs) # {}
    BY <1>1 DEF KeysOf
  <1>3. PICK least \in KeysOf(attrs) : \A y \in KeysOf(attrs) : least <= y
    BY <1>2, Least
  <1>4. \E a \in attrs : \A b \in attrs : a.key <= b.key
    BY <1>3 DEF KeysOf
  <1> QED
    BY <1>4 DEF First

LEMMA SkipNeedsUnsold ==
  ASSUME SuiteInv, Accepted, NEW c, Skips(c)
  PROVE  flaw = "unprovisioned" \/ (flaw = "rowMissing" /\ badRow = First(Priced).key)
  <1>1. Priced # {}
    <2>1. Needs[c] \in {1, 2} /\ Cardinality(Priced) >= Needs[c]
      BY DEF Skips, MaySkip, Needs
    <2>2. Cardinality(Priced) # 0
      BY <2>1
    <2> QED
      BY <2>2, FS_EmptySet
  <1>2. First(Priced) \in Priced
    BY <1>1, RefFacts, FirstFacts
  <1>3. HasClient({First(Priced).key})
    BY DEF HasClient, RegisterStatus
  <1>4. QuoteFails({First(Priced)})
    BY <1>1, <1>3 DEF Skips, MarketplaceProvisioned
  <1>5. ~Prices(First(Priced))
    BY <1>4 DEF QuoteFails
  <1> QED
    BY <1>2, <1>5 DEF Prices, Priced, IsPriced

\* A verdict that no lost call is behind is the one the case reaches by itself.
LEMMA CasesCost ==
  ASSUME SuiteInv, RunCase
  PROVE  /\ Cases[i] \in CaseNames
         /\ \E verdict \in {"pass", "skip", "fail"} :
              /\ \/ verdict = Verdict(Cases[i]) /\ lost' = lost
                 \/ lost' = lost + 1
              /\ Counts(verdict)
  <1>1. PICK verdict \in LostVerdicts(Cases[i]) :
          /\ lost' = lost + (IF verdict = Verdict(Cases[i]) THEN 0 ELSE 1)
          /\ Counts(verdict)
    BY DEF RunCase
  <1>2. verdict \in {"pass", "skip", "fail"}
    BY VerdictTypes
  <1>3. lost \in Nat
    BY SuiteAssumption DEF SuiteInv
  <1>4. Cases[i] \in CaseNames
    BY CasesFacts DEF RunCase, SuiteInv
  <1> QED
    BY <1>1, <1>2, <1>3, <1>4

\* Before the first verdict the counters are 0.
LEMMA NothingCounted ==
  ASSUME SuiteInv, \A c \in CaseNames : verdicts[c] = None
  PROVE  failed = 0 /\ skipped = 0
  <1>1. Counted("fail") = {} /\ Counted("skip") = {}
    BY SuiteAssumption DEF Counted
  <1> QED
    BY <1>1, FS_EmptySet DEF SuiteInv

LEMMA NextSkip == SuiteInv /\ SkipsOnlyUnsold /\ [Next]_vars => SkipsOnlyUnsold'
  <1> SUFFICES ASSUME SuiteInv, SkipsOnlyUnsold, [Next]_vars, Accepted', skipped' > lost'
               PROVE  (flaw = "unprovisioned" \/ (flaw = "rowMissing" /\ badRow = First(Priced).key))'
    BY DEF SkipsOnlyUnsold
  <1>1. UNCHANGED <<ref, flaw, badRow, cmd>>
    BY DEF Next, vars, startVars, world, RunCase, PassOver, Finish, Starts, TokenGiven, Refresh,
           ListCredentials, LoadReferential, LoadIdentity, AccountID, Expire
  <1> SUFFICES flaw = "unprovisioned" \/ (flaw = "rowMissing" /\ badRow = First(Priced).key)
    BY <1>1 DEF First, Priced
  <1>2. skipped \in Nat /\ lost \in Nat
    BY CountersNat, SuiteAssumption DEF SuiteInv
  <1>3. ASSUME bearer' = bearer PROVE Accepted
    BY <1>1, <1>3 DEF Accepted, Target
  <1>4. CASE Starts /\ UNCHANGED <<world, results>>
    <2>1. skipped' = skipped /\ lost' = lost
      BY <1>4 DEF results
    <2>2. skipped = 0
      BY <1>4, StartsBearer, NothingCounted
    <2> QED
      BY <1>2, <2>1, <2>2
  <1>5. CASE RunCase
    <2>1. Accepted
      BY <1>3, <1>5 DEF RunCase, startVars
    <2>2. PICK verdict \in {"pass", "skip", "fail"} :
            /\ \/ verdict = Verdict(Cases[i]) /\ lost' = lost
               \/ lost' = lost + 1
            /\ skipped' = skipped + (IF verdict = "skip" THEN 1 ELSE 0)
      BY <1>5, CasesCost DEF Counts
    <2>3. CASE Verdict(Cases[i]) = "skip"
      <3>1. Skips(Cases[i])
        BY <2>3 DEF Verdict
      <3> QED
        BY <2>1, <3>1, SkipNeedsUnsold
    <2>4. CASE Verdict(Cases[i]) # "skip"
      <3>1. skipped > lost
        BY <1>2, <2>2, <2>4
      <3> QED
        BY <2>1, <3>1 DEF SkipsOnlyUnsold
    <2> QED
      BY <2>3, <2>4
  <1>6. CASE PassOver \/ Finish \/ UNCHANGED vars
    <2>1. UNCHANGED <<bearer, lost, skipped>>
      BY <1>6 DEF PassOver, Finish, vars, startVars, results
    <2> QED
      BY <1>3, <2>1 DEF SkipsOnlyUnsold
  <1> QED
    BY <1>4, <1>5, <1>6 DEF Next

\* While the bearer is taken, more skips than lost calls mean that nothing is sold, or
\* that the row of the first priced key is the one that is missing.
THEOREM SkipsTellUnsold == Spec => []SkipsOnlyUnsold
  <1>1. Init => SkipsOnlyUnsold
    BY DEF Init, SkipsOnlyUnsold
  <1> QED
    BY <1>1, NextSkip, SuiteInvariant, PTL DEF Spec

(***************************************************************************)
(* No case fails against a platform that breaks no rule                    *)
(***************************************************************************)

\* The precondition of NoFalseAlarm on the platform and on the bearer.
Sane == Sound(ref) /\ flaw \in {"none", "unprovisioned"} /\ Accepted

LEMMA SoundTwins ==
  ASSUME SuiteInv, Sound(ref)
  PROVE  TwinsAreNamed(ref)
  <1>1. ASSUME NEW a \in ref, NEW b \in ref, b.key = a.govKey
        PROVE  b.requestOnly /\ b.scope = "identity"
    <2>1. a.govKey # None
      BY <1>1, RefFacts, SuiteAssumption DEF Attribute
    <2>2. PICK twin \in ref : twin.key = a.govKey /\ twin.gov
      BY <2>1 DEF Sound
    <2>3. twin = b
      BY <1>1, <2>2 DEF Sound
    <2> QED
      BY <2>2, <2>3 DEF Sound
  <1> QED
    BY <1>1 DEF TwinsAreNamed, Sound

LEMMA SoundPairs ==
  ASSUME SuiteInv, Sound(ref)
  PROVE  /\ DualTierPairs # {}
         /\ \A p \in DualTierPairs :
              /\ p.self \in ref /\ ~p.self.gov
              /\ p.twin \in ref /\ p.twin.gov
  <1>1. DualTierPairs # {}
    <2>1. PICK a \in ref : a.govKey # None
      BY DEF Sound
    <2>2. Known(a.govKey)
      BY <2>1 DEF Sound, Known
    <2> QED
      BY <2>2 DEF DualTierPairs
  <1>2. ASSUME NEW p \in DualTierPairs
        PROVE  p.self \in ref /\ ~p.self.gov /\ p.twin \in ref /\ p.twin.gov
    <2>1. PICK a \in ref : Known(a.govKey) /\ p = [self |-> a, twin |-> ByKey(a.govKey)]
      BY DEF DualTierPairs
    <2>2. ByKey(a.govKey) \in ref /\ ByKey(a.govKey).key = a.govKey
      BY <2>1 DEF Known, ByKey
    <2>3. a.govKey # None
      BY <2>2, RefFacts, SuiteAssumption DEF Attribute
    <2>4. PICK twin \in ref : twin.key = a.govKey /\ twin.gov
      BY <2>3 DEF Sound
    <2>5. twin = ByKey(a.govKey) /\ ~a.gov
      BY <2>2, <2>3, <2>4 DEF Sound
    <2> QED
      BY <2>1, <2>2, <2>4, <2>5
  <1> QED
    BY <1>1, <1>2

LEMMA SoundPrices ==
  ASSUME SuiteInv, Sound(ref)
  PROVE  /\ \A a \in Priced : a \in ref /\ a.gov /\ a.row = "named"
         /\ Cardinality(Priced) \in Nat /\ Cardinality(Priced) >= 2
         /\ Priced # {} /\ First(Priced) \in Priced
         /\ First(Priced \ {First(Priced)}) \in Priced
  <1>1. \A a \in Priced : a \in ref /\ a.gov /\ a.row = "named"
    BY DEF Sound, Priced, IsPriced
  <1>2. Priced = {a \in ref : a.gov}
    BY SuiteAssumption DEF Sound, Priced, IsPriced
  <1>3. IsFiniteSet(Priced) /\ Cardinality(Priced) \in Nat
    BY RefFacts, FS_Subset, FS_CardinalityType
  <1>4. Cardinality(Priced) >= 2
    BY <1>2 DEF Sound
  <1>5. Priced # {}
    BY <1>3, <1>4, FS_EmptySet
  <1>6. First(Priced) \in Priced
    BY <1>5, FirstFacts, RefFacts
  <1> DEFINE others == Priced \ {First(Priced)}
  <1>7. others # {}
    <2>1. Cardinality(others) = Cardinality(Priced) - 1
      BY <1>3, <1>6, FS_RemoveElement
    <2>2. Cardinality(others) # 0
      BY <1>3, <1>4, <2>1
    <2> QED
      BY <2>2, FS_EmptySet
  <1>8. First(others) \in others
    BY <1>7, FirstFacts, RefFacts
  <1> QED
    BY <1>1, <1>3, <1>4, <1>5, <1>6, <1>8

\* What a case may conclude of a platform that breaks no rule.
Deserved(c) ==
  {"pass"} \cup (IF flaw = "unprovisioned" /\ c \in DOMAIN Needs THEN {"skip"} ELSE {})

LEMMA SaneClients ==
  ASSUME Sane, NEW attrs, attrs # {}
  PROVE  HasClient(attrs)
  BY DEF Sane, HasClient, RegisterStatus

LEMMA SaneRequests ==
  ASSUME Sane, NEW attrs, NEW scopes, NEW naming
  PROVE  Requested(attrs, scopes, naming) =
           KeysOf({a \in ref : a.key \in attrs /\ a.scope \in scopes})
  BY DEF Sane, Requested

\* The registry of a platform that sells quotes every priced attribute.
LEMMA SoldRows ==
  ASSUME SuiteInv, Sane, flaw = "none", NEW attrs, attrs \subseteq Priced, IsFiniteSet(attrs),
         attrs # {}
  PROVE  ~QuoteFails(attrs) /\ TotalCredits(attrs) > 0 /\ Breakdown(attrs) = TotalCredits(attrs)
  <1>1. ~QuoteFails(attrs)
    BY SoundPrices, SuiteAssumption DEF Sane, QuoteFails, Prices
  <1>2. {a \in attrs : ~Free(a)} = attrs
    BY DEF Free
  <1>3. Cardinality(attrs) \in Nat /\ Cardinality(attrs) # 0
    BY FS_CardinalityType, FS_EmptySet
  <1>4. Breakdown(attrs) = Cardinality(attrs)
    BY <1>2 DEF Breakdown
  <1>5. TotalCredits(attrs) = Breakdown(attrs) + 0
    BY DEF TotalCredits
  <1> QED
    BY <1>1, <1>3, <1>4, <1>5

\* The marketplace is found where it is sold, and nowhere else.
LEMMA MarketplaceFound ==
  ASSUME SuiteInv, Sane
  PROVE  MarketplaceProvisioned <=> flaw = "none"
  <1>1. First(Priced) \in Priced /\ Priced # {}
    BY SoundPrices DEF Sane
  <1>2. HasClient({First(Priced).key})
    BY SaneClients
  <1>3. flaw = "none" => ~QuoteFails({First(Priced)})
    BY <1>1, FS_Singleton, SoldRows
  <1>4. flaw = "unprovisioned" => QuoteFails({First(Priced)})
    BY DEF QuoteFails, Prices
  <1> QED
    BY <1>1, <1>2, <1>3, <1>4 DEF Sane, MarketplaceProvisioned

\* The pricing cases look for the marketplace, and skip exactly where nothing is sold.
LEMMA PricingCases ==
  ASSUME SuiteInv, Sane, NEW c \in DOMAIN Needs
  PROVE  MaySkip(c) /\ (Skips(c) <=> flaw = "unprovisioned")
  <1>1. Needs[c] \in {1, 2}
    BY DEF Needs
  <1>2. MaySkip(c)
    BY <1>1, SoundPrices DEF Sane, MaySkip
  <1> QED
    BY <1>2, MarketplaceFound DEF Sane, Skips

LEMMA SanePasses ==
  ASSUME SuiteInv, Sane, NEW c \in CaseNames, c \in DOMAIN Needs => flaw = "none"
  PROVE  Passes(c)
  <1>0. /\ c \in {"emptyRefused", "ceiling", "scopeGate", "named", "twoTiers", "pricedRows",
                  "selfAsserted", "tokenFilter", "unknownDropped", "quote", "grant"}
        /\ email \in Nat
    BY CasesFacts, SuiteAssumption DEF CaseNames, Cases
  <1>1. TwinsAreNamed(ref) /\ Sound(ref)
    BY SoundTwins DEF Sane
  <1>2. PICK mail \in ref : mail.key = email /\ mail.scope = "email"
    BY <1>1 DEF Sound
  <1>3. ~mail.gov
    BY <1>1, <1>2 DEF Sound
  <1>4. \A attrs, scopes, naming :
          email \in attrs /\ "email" \in scopes => email \in Requested(attrs, scopes, naming)
    BY <1>2, SaneRequests DEF KeysOf
  <1>5. \A a \in ref : a.gov => a.key # email
    BY <1>1, <1>2, <1>3 DEF Sound
  <1>6. CASE c = "emptyRefused"
    BY <1>6 DEF Sane, Passes, EmptyRefused, RegisterStatus
  <1>7. CASE c = "ceiling"
    <2> DEFINE overreach == {p.twin.key : p \in DualTierPairs}
               requested == Requested({email}, {"email", "identity"}, overreach)
    <2>1. overreach # {} /\ email \notin overreach
      BY <1>1, <1>5, SoundPairs
    <2>2. email \in requested
      BY <1>4
    <2>3. requested \subseteq {email}
      BY SaneRequests DEF KeysOf
    <2>4. HasClient({email})
      BY SaneClients
    <2> QED
      BY <1>7, <2>1, <2>2, <2>3, <2>4 DEF Passes, Ceiling
  <1>8. CASE c = "scopeGate"
    <2> DEFINE twins == {a \in ref : a.gov /\ a.requestOnly /\ a.scope = "identity"}
               gov == KeysOf(twins)
               attrs == {email} \cup gov
    <2>1. gov # {}
      <3>1. PICK a \in Priced : a \in ref /\ a.gov
        BY <1>1, SoundPrices
      <3>2. a \in twins
        BY <1>1, <3>1 DEF Sound
      <3> QED
        BY <3>2 DEF KeysOf
    <2>2. email \in Requested(attrs, {"email", "profile"}, {}) /\ HasClient(attrs)
      BY <1>4, SaneClients
    <2>3. gov \cap Requested(attrs, {"email", "profile"}, {}) = {}
      <3> SUFFICES ASSUME NEW k \in gov, k \in Requested(attrs, {"email", "profile"}, {})
                   PROVE  FALSE
        OBVIOUS
      <3>1. PICK a \in twins : a.key = k
        BY DEF KeysOf
      <3>2. PICK b \in ref : b.key = k /\ b.scope \in {"email", "profile"}
        BY SaneRequests DEF KeysOf
      <3> QED
        BY <1>1, <3>1, <3>2 DEF Sound
    <2>4. gov \subseteq Requested(attrs, {"email", "identity"}, {})
      BY SaneRequests DEF KeysOf
    <2> QED
      BY <1>8, <2>1, <2>2, <2>3, <2>4 DEF Passes, ScopeGate
  <1>9. CASE c = "named"
    <2> DEFINE gov == FirstPair.twin
    <2>1. DualTierPairs # {} /\ gov \in ref /\ gov.gov
      BY <1>1, SoundPairs, FirstPairFacts
    <2> HIDE DEF gov
    <2>2. gov.scope = "identity" /\ Assurance(gov) = "gov"
      BY <1>1, <2>1 DEF Sane, Sound, Assurance
    <2>3. gov.key \in Requested({email, gov.key}, {"email", "identity"}, {gov.key})
      BY <2>1, <2>2, SaneRequests DEF KeysOf
    <2>4. HasClient({email, gov.key})
      BY SaneClients
    <2> QED
      BY <1>9, <2>1, <2>2, <2>3, <2>4 DEF Passes, Named, gov
  <1>10. CASE c = "twoTiers"
    <2>1. \A p \in DualTierPairs :
            /\ ~p.self.gov /\ ~IsPriced(p.self)
            /\ p.twin.gov /\ IsPriced(p.twin)
            /\ p.twin.certifies # None => Known(p.twin.certifies)
      BY <1>1, SoundPairs, SuiteAssumption DEF Sound, IsPriced, Known
    <2> QED
      BY <1>1, <1>10, <2>1, SoundPairs DEF Passes, TwoTiers
  <1>11. CASE c = "pricedRows"
    <2>1. flaw = "none"
      BY <1>11 DEF Needs
    <2>2. \A a \in Priced : a.row = "named" /\ ~QuoteFails({a}) /\ TotalCredits({a}) > 0
      BY <1>1, <2>1, SoundPrices, SoldRows, FS_Singleton
    <2>3. Priced # {} /\ HasClient(KeysOf(Priced))
      BY <1>1, SoundPrices, SaneClients DEF KeysOf
    <2> QED
      BY <1>11, <2>2, <2>3 DEF Passes, PricedRows
  <1>12. CASE c \in {"selfAsserted", "tokenFilter"}
    <2>1. HasClient({email, name}) /\ HasClient({email})
      BY SaneClients
    <2> QED
      BY <1>12, <2>1, SuiteAssumption DEF Sane, Passes, SelfAsserted, TokenFilter, TokenClaims
  <1>13. CASE c = "unknownDropped"
    <2>1. HasClient({email}) /\ email \in Requested({email}, {"email"}, {email, unknown})
      BY <1>4, SaneClients
    <2> QED
      BY <1>13, <2>1 DEF Sane, Passes, UnknownDropped, AuthorizeFails
  <1>14. CASE c = "quote"
    <2> DEFINE second == First(Priced \ {First(Priced)})
               chosen == {First(Priced), second}
    <2>1. flaw = "none" /\ MaySkip(c)
      BY <1>14, PricingCases DEF Needs
    <2>2. chosen \subseteq Priced /\ chosen # {}
      BY <1>1, SoundPrices
    <2>3. IsFiniteSet(chosen)
      BY <2>2, RefFacts, FS_Subset
    <2>4. KeysOf(chosen) # {}
      BY <2>2 DEF KeysOf
    <2> HIDE DEF chosen
    <2>5. HasClient(KeysOf(chosen))
      BY <2>4, SaneClients
    <2>6. /\ ~QuoteFails(chosen) /\ TotalCredits(chosen) > 0
          /\ Breakdown(chosen) = TotalCredits(chosen)
      BY <2>1, <2>2, <2>3, SoldRows
    <2> QED
      BY <1>14, <2>1, <2>5, <2>6 DEF Passes, Quote, chosen
  <1>15. CASE c = "grant"
    <2>1. flaw = "none" /\ MaySkip(c)
      BY <1>15, PricingCases DEF Needs
    <2>2. HasClient({First(Priced).key})
      BY SaneClients
    <2>3. First(Priced) \in Priced /\ First(Priced).row = "named"
      BY <1>1, SoundPrices
    <2>4. GrantStatus(First(Priced)) = 400
      BY <2>1, <2>3, SuiteAssumption DEF Sane, GrantStatus, Prices
    <2> QED
      BY <1>15, <2>1, <2>2, <2>4 DEF Passes, Grant
  <1> QED
    BY <1>0, <1>6, <1>7, <1>8, <1>9, <1>10, <1>11, <1>12, <1>13, <1>14, <1>15

LEMMA SaneVerdict ==
  ASSUME SuiteInv, Sane, NEW c \in CaseNames
  PROVE  Verdict(c) \in Deserved(c)
  <1>1. CASE c \in DOMAIN Needs
    BY <1>1, PricingCases, SanePasses DEF Sane, Verdict, Deserved
  <1>2. CASE c \notin DOMAIN Needs
    BY <1>2, SanePasses DEF Verdict, Skips, MaySkip, Deserved
  <1> QED
    BY <1>1, <1>2

\* NoFalseAlarm without the exit status, which SuiteInv derives from the failures.
NoFalseVerdict ==
  Sane => /\ failed <= lost
          /\ flaw = "none" => failed + skipped <= lost

LEMMA NextVerdict == SuiteInv /\ NoFalseVerdict /\ [Next]_vars => NoFalseVerdict'
  <1> SUFFICES ASSUME SuiteInv, NoFalseVerdict, [Next]_vars, Sane'
               PROVE  (failed <= lost /\ (flaw = "none" => failed + skipped <= lost))'
    BY DEF NoFalseVerdict
  <1>1. ref' = ref /\ flaw' = flaw /\ cmd' = cmd
    BY DEF Next, vars, startVars, world, RunCase, PassOver, Finish, Starts, TokenGiven, Refresh,
           ListCredentials, LoadReferential, LoadIdentity, AccountID, Expire
  <1>2. failed \in Nat /\ skipped \in Nat /\ lost \in Nat
    BY CountersNat, SuiteAssumption DEF SuiteInv
  <1>3. CASE Starts /\ UNCHANGED <<world, results>>
    <2>1. failed = 0 /\ skipped = 0
      BY <1>3, StartsBearer, NothingCounted DEF Sane
    <2>2. UNCHANGED <<failed, skipped, lost>>
      BY <1>3 DEF results
    <2> QED
      BY <1>2, <2>1, <2>2
  <1>4. ASSUME UNCHANGED bearer PROVE Sane
    BY <1>1, <1>4 DEF Sane, Accepted, Target
  <1>5. CASE RunCase
    <2>1. Sane
      BY <1>4, <1>5 DEF RunCase, startVars
    <2>2. Cases[i] \in CaseNames
      BY <1>5, CasesCost
    <2>3. PICK verdict \in {"pass", "skip", "fail"} :
            /\ \/ verdict = Verdict(Cases[i]) /\ lost' = lost
               \/ lost' = lost + 1
            /\ failed' = failed + (IF verdict = "fail" THEN 1 ELSE 0)
            /\ skipped' = skipped + (IF verdict = "skip" THEN 1 ELSE 0)
      BY <1>5, CasesCost DEF Counts
    <2>4. Verdict(Cases[i]) # "fail" /\ (flaw = "none" => Verdict(Cases[i]) = "pass")
      BY <2>1, <2>2, SaneVerdict DEF Deserved
    <2>5. failed <= lost /\ (flaw = "none" => failed + skipped <= lost)
      BY <2>1 DEF NoFalseVerdict
    <2> QED
      BY <1>1, <1>2, <2>3, <2>4, <2>5
  <1>6. CASE PassOver \/ Finish \/ UNCHANGED vars
    <2>1. UNCHANGED <<bearer, failed, skipped, lost>>
      BY <1>6 DEF PassOver, Finish, vars, startVars, results
    <2> QED
      BY <1>1, <1>4, <2>1 DEF NoFalseVerdict
  <1> QED
    BY <1>3, <1>5, <1>6 DEF Next

LEMMA NoFalseExit == SuiteInv /\ NoFalseVerdict => NoFalseAlarm
  <1> SUFFICES ASSUME SuiteInv, NoFalseVerdict, Sane PROVE
        /\ failed <= lost
        /\ flaw = "none" => failed + skipped <= lost
        /\ i > Len(Cases) /\ exit = 1 => lost > 0 \/ cmd.json
    BY DEF NoFalseAlarm, Sane
  <1>1. failed <= lost /\ (flaw = "none" => failed + skipped <= lost)
    BY DEF NoFalseVerdict
  <1>2. failed \in Nat /\ lost \in Nat /\ None # 1
    BY CountersNat, SuiteAssumption DEF SuiteInv
  <1>3. ASSUME i > 11, exit = 1 PROVE lost > 0 \/ cmd.json
    <2>1. exit = (IF failed > 0 THEN 1 ELSE 0) \/ cmd.json
      BY <1>2, <1>3 DEF SuiteInv
    <2> QED
      BY <1>1, <1>2, <1>3, <2>1
  <1> QED
    BY <1>1, <1>3, CasesFacts

\* Against a sound referential, a platform that breaks no rule is charged with no
\* more cases than calls were lost, while its bearer is taken.
THEOREM SoundPlatformsPass == Spec => []NoFalseAlarm
  <1>1. Init => NoFalseVerdict
    BY DEF Init, NoFalseVerdict
  <1>2. SuiteInv /\ NoFalseVerdict /\ [Next]_vars => NoFalseVerdict'
    BY NextVerdict
  <1> QED
    BY <1>1, <1>2, NoFalseExit, SuiteInvariant, PTL DEF Spec
=============================================================================
