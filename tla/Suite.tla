------------------------------- MODULE Suite -------------------------------
(***************************************************************************)
(* The suite (suite.go, main.go runTest, referential.go): what each case   *)
(* concludes of a platform that may break the very rule the case states,   *)
(* and what a run concludes of its cases.  The platform is a correct one,  *)
(* one with a flaw, or one that sells no attributes; calls may be lost,    *)
(* and the bearer that Startup found may be refused or expire on the way.  *)
(*                                                                         *)
(* Abstraction: a key is its place in the alphabet; a scope string is the  *)
(* set of its scopes; an attribute delivered is there or is not.           *)
(***************************************************************************)
EXTENDS Startup, FiniteSets

CONSTANTS
  email, name, nickname, unknown,  \* keys the cases write out
  Selections,    \* the sets of cases that a value of -run can select
  MaxLost        \* bound: calls that are lost

Attribute ==
  [key : Nat, scope : {"email", "profile", "identity"}, gov : BOOLEAN, requestOnly : BOOLEAN,
   govKey : Nat \cup {None}, certifies : Nat \cup {None}, row : {None, "named", "bare"}]

\* The cases, in the order of Cases().
Cases == <<"emptyRefused", "ceiling", "scopeGate", "named", "twoTiers", "pricedRows",
           "selfAsserted", "tokenFilter", "unknownDropped", "quote", "grant">>
CaseNames == {Cases[i] : i \in DOMAIN Cases}

ASSUME SuiteAssumption ==
  /\ \A attrs \in Referentials : IsFiniteSet(attrs) /\ attrs \subseteq Attribute
  /\ None \notin Nat \cup {"pass", "skip", "fail", "named", "bare"}
  /\ email \in Nat /\ name \in Nat /\ nickname \in Nat /\ email \notin {name, nickname}
  /\ \A attrs \in Referentials : \A a \in attrs : a.key # unknown
  /\ Selections \subseteq SUBSET CaseNames
  /\ MaxLost \in Nat

\* Rules a platform can break; "unprovisioned" breaks none.
Flaws ==
  {"none", "unprovisioned", "emptyAllowed", "namingEscapes", "scopeIgnored",
   "registrationIsNotNaming", "namingUseless", "noList", "assuranceDropped", "unknownFatal",
   "unknownTakesAll", "tokenUnfiltered", "tokenEmpty", "rowMissing", "rowFree", "sumWrong",
   "grantUncapped"}

VARIABLES
  flaw,      \* what is wrong with the platform
  badRow,    \* the key whose row a flaw of the registry is about
  selected,  \* the cases -run selects
  i,         \* the index in Cases of the next case
  verdicts,  \* verdicts[c]: the report of case c, or None
  failed, skipped,  \* the counters of runTest
  lost       \* how many calls have been lost

world == <<flaw, badRow, selected>>
results == <<i, verdicts, failed, skipped, lost>>
vars == <<startVars, world, results>>

(***************************************************************************)
(* referential.go                                                          *)
(***************************************************************************)

IsPriced(a) == a.row # None
Priced == {a \in ref : IsPriced(a)}
ByKey(k) == CHOOSE a \in ref : a.key = k
Known(k) == \E a \in ref : a.key = k
DualTierPairs == {[self |-> a, twin |-> ByKey(a.govKey)] : a \in {b \in ref : Known(b.govKey)}}

\* The lists are sorted by key.
First(attrs) == CHOOSE a \in attrs : \A b \in attrs : a.key <= b.key
FirstPair == CHOOSE p \in DualTierPairs : \A q \in DualTierPairs : p.self.key <= q.self.key
KeysOf(attrs) == {a.key : a \in attrs}

(***************************************************************************)
(* External: the platform                                                  *)
(***************************************************************************)

\* /oauth-clients: the status of a registration.
RegisterStatus(attrs) ==
  IF ~Accepted THEN 401 ELSE IF attrs = {} /\ flaw # "emptyAllowed" THEN 400 ELSE 201

\* /authorize: what is asked of the wallet.  The whitelist is the ceiling and
\* names a key; the scope gates both.
Requested(attrs, scopes, naming) ==
  LET within(keys) == {a \in ref : a.key \in keys /\ (a.scope \in scopes \/ flaw = "scopeIgnored")}
      asked == within(attrs \cup IF flaw = "namingEscapes" THEN naming ELSE {})
  IN
  IF flaw = "noList" \/ (flaw = "unknownTakesAll" /\ unknown \in naming) THEN {}
  ELSE KeysOf({a \in asked : /\ a.requestOnly => flaw # "namingUseless"
                             /\ a.requestOnly /\ flaw = "registrationIsNotNaming" => a.key \in naming})

AuthorizeFails(naming) == flaw = "unknownFatal" /\ unknown \in naming

\* The assurance an authorization asks of the wallet for a key.
Assurance(a) == IF a.gov /\ flaw # "assuranceDropped" THEN "gov" ELSE "self"

\* The claims of the token, when the wallet delivers the keys given.
TokenClaims(attrs, delivered) ==
  IF flaw = "tokenUnfiltered" THEN delivered
  ELSE IF flaw = "tokenEmpty" THEN {}
  ELSE delivered \cap attrs

\* The credit registry: a quote for the rows of some attributes, each worth one.
Prices(a) == a.row # None /\ flaw # "unprovisioned" /\ ~(flaw = "rowMissing" /\ a.key = badRow)
Free(a) == flaw = "rowFree" /\ a.key = badRow
QuoteFails(attrs) == ~Accepted \/ \E a \in attrs : ~Prices(a)
Breakdown(attrs) == Cardinality({a \in attrs : ~Free(a)})
TotalCredits(attrs) == Breakdown(attrs) + IF flaw = "sumWrong" THEN 1 ELSE 0

\* A grant with a ceiling under the price.
GrantStatus(a) ==
  IF ~Accepted THEN 401 ELSE IF ~Prices(a) THEN 404 ELSE IF flaw = "grantUncapped" THEN 201 ELSE 400

(***************************************************************************)
(* suite.go: the cases                                                     *)
(***************************************************************************)

\* Mutant: any refusal of the registration will do.
EmptyRefusedAnyhow == RegisterStatus({}) >= 400

EmptyRefused == RegisterStatus({}) = 400

\* Env.client and Env.confidentialClient: a relying party with that whitelist.
HasClient(attrs) == RegisterStatus(attrs) = 201

\* Mutant: no key is expected before others are expected not to be there.
CeilingAbsenceOnly ==
  LET overreach == {p.twin.key : p \in DualTierPairs} IN
  /\ HasClient({email}) /\ overreach # {}
  /\ overreach \cap Requested({email}, {"email", "identity"}, overreach) = {}

\* A whitelist of [email], and every government key named on the request.
Ceiling ==
  LET overreach == {p.twin.key : p \in DualTierPairs}
      requested == Requested({email}, {"email", "identity"}, overreach)
  IN
  /\ HasClient({email}) /\ overreach # {}
  /\ email \in requested /\ overreach \cap requested = {}

\* Whitelisted government keys, without the identity scope and then with it.
ScopeGate ==
  LET gov == KeysOf({a \in ref : a.gov /\ a.requestOnly /\ a.scope = "identity"})
      without == Requested({email} \cup gov, {"email", "profile"}, {})
  IN
  /\ gov # {} /\ HasClient({email} \cup gov)
  /\ email \in without /\ gov \cap without = {}
  /\ gov \subseteq Requested({email} \cup gov, {"email", "identity"}, {})

\* The government half of the first pair, whitelisted and named.
Named ==
  LET gov == FirstPair.twin IN
  /\ DualTierPairs # {} /\ HasClient({email, gov.key})
  /\ gov.key \in Requested({email, gov.key}, {"email", "identity"}, {gov.key})
  /\ Assurance(gov) = "gov"

TwoTiers ==
  /\ DualTierPairs # {}
  /\ \A p \in DualTierPairs :
       /\ ~p.self.gov /\ ~IsPriced(p.self)
       /\ p.twin.gov /\ IsPriced(p.twin)
       /\ p.twin.certifies # None => Known(p.twin.certifies)

\* Mutant: an environment that sells nothing is not told apart.
MarketplaceAssumed == Priced # {}

\* Mutant: every priced attribute must be quoted before the marketplace is there.
MarketplaceWhole ==
  Priced # {} /\ HasClient(KeysOf(Priced)) /\ \A a \in Priced : ~QuoteFails({a})

\* marketplaceProvisioned: the first priced attribute can be quoted.
MarketplaceProvisioned ==
  Priced # {} /\ HasClient({First(Priced).key}) /\ ~QuoteFails({First(Priced)})

PricedRows ==
  /\ Priced # {} /\ HasClient(KeysOf(Priced))
  /\ \A a \in Priced : a.row = "named" /\ ~QuoteFails({a}) /\ TotalCredits({a}) > 0

SelfAsserted ==
  HasClient({email, name}) /\ {email, name} \subseteq TokenClaims({email, name}, {email, name})

TokenFilter ==
  HasClient({email}) /\ {name, nickname} \cap TokenClaims({email}, {email, name, nickname}) = {}

UnknownDropped ==
  /\ HasClient({email})
  /\ ~AuthorizeFails({email, unknown})
  /\ email \in Requested({email}, {"email"}, {email, unknown})

\* The first two priced attributes, quoted together.
Quote ==
  LET chosen == {First(Priced), First(Priced \ {First(Priced)})} IN
  /\ HasClient(KeysOf(chosen)) /\ ~QuoteFails(chosen)
  /\ TotalCredits(chosen) > 0
  /\ Breakdown(chosen) = TotalCredits(chosen)

Grant == HasClient({First(Priced).key}) /\ GrantStatus(First(Priced)) = 400

(***************************************************************************)
(* main.go: runTest                                                        *)
(***************************************************************************)

\* How many priced attributes a case needs before it looks for the marketplace;
\* only the cases in this function can skip.
Needs == [c \in {"pricedRows", "quote", "grant"} |-> IF c = "quote" THEN 2 ELSE 1]

MaySkip(c) == c \in DOMAIN Needs /\ Cardinality(Priced) >= Needs[c]
Skips(c) == MaySkip(c) /\ ~MarketplaceProvisioned

Passes(c) ==
  \/ c = "emptyRefused" /\ EmptyRefused
  \/ c = "ceiling" /\ Ceiling
  \/ c = "scopeGate" /\ ScopeGate
  \/ c = "named" /\ Named
  \/ c = "twoTiers" /\ TwoTiers
  \/ c = "pricedRows" /\ PricedRows
  \/ c = "selfAsserted" /\ SelfAsserted
  \/ c = "tokenFilter" /\ TokenFilter
  \/ c = "unknownDropped" /\ UnknownDropped
  \/ c = "quote" /\ MaySkip(c) /\ Quote
  \/ c = "grant" /\ MaySkip(c) /\ Grant

Verdict(c) == IF Skips(c) THEN "skip" ELSE IF Passes(c) THEN "pass" ELSE "fail"

\* What a case may conclude when one of its calls is lost: it fails; a call of
\* marketplaceProvisioned makes it skip; the list of clients is not missed.  The
\* case on the two tiers of the referential makes no call.
LostVerdicts(c) ==
  {Verdict(c)} \cup (IF c = "twoTiers" THEN {} ELSE {"fail"}) \cup (IF MaySkip(c) THEN {"skip"} ELSE {})

\* Mutant: a skip is an error like any other.
CountsSkipFails(verdict) ==
  /\ failed' = failed + (IF verdict = "pass" THEN 0 ELSE 1)
  /\ skipped' = skipped

Counts(verdict) ==
  /\ failed' = failed + (IF verdict = "fail" THEN 1 ELSE 0)
  /\ skipped' = skipped + (IF verdict = "skip" THEN 1 ELSE 0)

RunCase ==
  /\ stage = "cases"
  /\ i <= Len(Cases)
  /\ Cases[i] \in selected
  /\ i' = i + 1
  /\ \E verdict \in LostVerdicts(Cases[i]) :
       /\ verdict # Verdict(Cases[i]) => lost < MaxLost
       /\ lost' = lost + (IF verdict = Verdict(Cases[i]) THEN 0 ELSE 1)
       /\ verdicts' = [verdicts EXCEPT ![Cases[i]] = verdict]
       /\ Counts(verdict)
  /\ UNCHANGED <<startVars, world>>

PassOver ==
  /\ stage = "cases"
  /\ i <= Len(Cases)
  /\ Cases[i] \notin selected
  /\ i' = i + 1
  /\ UNCHANGED <<startVars, world, verdicts, failed, skipped, lost>>

\* Mutant: the report tells of the failures, the exit status does not.
FinishesClean ==
  /\ stage = "cases"
  /\ i > Len(Cases)
  /\ stage' = "exited"
  /\ exit' = 0
  /\ UNCHANGED <<cmd, store, ref, bearer, expiries, world, results>>

\* The end of runTest: the failures decide the exit status; the report that -json
\* asks for may not be written, which is an error of its own.
Finish ==
  /\ stage = "cases"
  /\ i > Len(Cases)
  /\ stage' = "exited"
  /\ exit' \in {IF failed > 0 THEN 1 ELSE 0} \cup (IF cmd.json THEN {1} ELSE {})
  /\ UNCHANGED <<cmd, store, ref, bearer, expiries, world, results>>

Init ==
  /\ StartupInit
  /\ flaw \in Flaws
  /\ badRow \in KeysOf(Priced) \cup {None}
  /\ flaw \in {"rowMissing", "rowFree"} <=> badRow # None
  /\ selected \in Selections
  /\ i = 1
  /\ verdicts = [c \in CaseNames |-> None]
  /\ failed = 0
  /\ skipped = 0
  /\ lost = 0

Next ==
  \/ Starts /\ UNCHANGED <<world, results>>
  \/ RunCase \/ PassOver \/ Finish

Spec == Init /\ [][Next]_vars

(***************************************************************************)
(* Properties                                                              *)
(***************************************************************************)

\* Every variable has its type, and the counters count what the report shows.
TypeOK ==
  /\ StartupTypeOK
  /\ flaw \in Flaws /\ selected \subseteq CaseNames
  /\ badRow \in KeysOf(ref) \cup {None}
  /\ i \in 1..Len(Cases) + 1
  /\ verdicts \in [CaseNames -> {"pass", "skip", "fail", None}]
  /\ failed = Cardinality({c \in CaseNames : verdicts[c] = "fail"})
  /\ skipped = Cardinality({c \in CaseNames : verdicts[c] = "skip"})
  /\ lost \in 0..MaxLost
  /\ i > Len(Cases) /\ exit # None => exit = (IF failed > 0 THEN 1 ELSE 0) \/ (cmd.json /\ exit = 1)

\* The flaws against the rule of a case: what its "Why" says breaks in production.
Against ==
  [emptyRefused |-> {"emptyAllowed"},
   ceiling |-> {"namingEscapes", "noList"},
   scopeGate |-> {"scopeIgnored", "registrationIsNotNaming", "namingUseless", "noList"},
   named |-> {"namingUseless", "assuranceDropped", "noList"},
   twoTiers |-> {},
   pricedRows |-> {"rowMissing", "rowFree"},
   selfAsserted |-> {"tokenEmpty"},
   tokenFilter |-> {"tokenUnfiltered"},
   unknownDropped |-> {"unknownFatal", "unknownTakesAll", "noList"},
   quote |-> {"sumWrong"},
   grant |-> {"grantUncapped"}]

\* No case passes against a platform that breaks its rule, whatever the flaw makes
\* of the answers, whichever calls are lost and whichever cases are selected.
BreachNeverPasses == \A c \in CaseNames : flaw \in Against[c] => verdicts[c] # "pass"

\* What a green run is worth: when all the cases ran, none was skipped and the exit
\* status is 0 (main.go runTest), the platform breaks no rule and sells what it
\* prices, whichever calls were lost and whenever the bearer expired.
GreenMeansSound ==
  exit = 0 /\ selected = CaseNames /\ skipped = 0 => flaw = "none"

\* What a skip still tells of an environment (marketplaceProvisioned, errSkip): while
\* the bearer is taken, a run that skips more cases than it lost calls has met one that
\* sells nothing, or one that lacks the row of the first priced key, the one probed.
SkipsOnlyUnsold ==
  Accepted /\ skipped > lost =>
    flaw = "unprovisioned" \/ (flaw = "rowMissing" /\ badRow = First(Priced).key)

\* The referential has one entry for a key, keeps the relations between its tiers,
\* names its rows and has what the cases need.
Sound(attrs) ==
  /\ \A a, b \in attrs : a.key = b.key => a = b
  /\ \A a \in attrs :
       /\ a.gov => a.requestOnly /\ a.scope = "identity"
       /\ a.gov <=> a.row = "named"
       /\ ~a.gov => a.row = None
       /\ a.govKey # None => \E b \in attrs : b.key = a.govKey /\ b.gov
       /\ a.certifies # None => \E b \in attrs : b.key = a.certifies
  /\ \E a \in attrs : a.key = email /\ a.scope = "email"
  /\ \E a \in attrs : a.govKey # None /\ ~a.gov
  /\ \A a \in attrs : a.govKey # None => ~a.gov
  /\ Cardinality({a \in attrs : a.gov}) >= 2

\* A platform that breaks no rule is not reported to break one: while the bearer is
\* taken, each lost call costs one case at most, and one that sells what it prices gets
\* no skip besides (errSkip, suite.go:22-28).  The exit status is 1 only for a lost
\* call, or for a report that could not be written.
NoFalseAlarm ==
  Sound(ref) /\ flaw \in {"none", "unprovisioned"} /\ Accepted =>
    /\ failed <= lost
    /\ flaw = "none" => failed + skipped <= lost
    /\ i > Len(Cases) /\ exit = 1 => lost > 0 \/ cmd.json

\* No case passes unexercised (main.go:129-133 tells of a run whose cases had all
\* been answered 401): whichever way the bearer was found, and whenever it expires,
\* a case that asks the platform anything passes only while its bearer is taken.
UnexercisedNeverPasses ==
  [][\A c \in CaseNames \ {"twoTiers"} :
       verdicts[c] = None /\ verdicts'[c] = "pass" => Accepted]_vars

\* What does hold of a bearer from the CLI's store (platformToken, main.go:134-158): a
\* process that goes on with one and is answered 401 either lost it to time, or found
\* first a login for another endpoint, or one that `account show` could not renew.
FirstLoginIsTaken ==
  /\ stage \in {"referential", "identity", "account", "cases", "listening"}
  /\ cmd.token = None /\ cmd.env = None /\ expiries = 0
  /\ Head(store).for = Target /\ Head(store).access # "expired"
  => Accepted

\* What main.go:129-132 says of a token read from the CLI's store after an
\* authenticated call for the endpoint: it will still be valid when the suite uses it.
\* Stated for a store that has a valid one for that endpoint, while nothing expires.
StoredTokenIsTaken ==
  /\ stage = "cases" /\ cmd.token = None /\ cmd.env = None /\ expiries = 0
  /\ \E k \in DOMAIN store : store[k].for = Target /\ store[k].access = "valid"
  => Accepted

\* What errSkip is for (suite.go:22-28, README.md:79-82): a case that skips has met
\* an environment that sells no attributes, not a platform that failed.
SkipsOnlyUnprovisioned ==
  lost = 0 /\ Accepted => \A c \in CaseNames : verdicts[c] = "skip" => flaw = "unprovisioned"

\* What README.md:84-88 says: a case that asserts that a key is absent first proves
\* one that it expects.  The token filter's looks for no claim that should be there.
PresenceBeforeAbsence ==
  verdicts["tokenFilter"] = "pass" => email \in TokenClaims({email}, {email, name, nickname})
=============================================================================
