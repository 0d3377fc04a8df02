# Verification of the platform test apps

TLA+ models of this repository's programs, checked with TLC on small instances
and, for all their safety properties, proved with TLAPS for every instance. Paths are relative to the
repository; `aqa/` stands for `attribute-qa/`, `consumer/` for
`container-app-dependency-consumer/` and `provider/` for
`container-app-dependency-provider/`.

## The system

| component | code | state | operations |
|---|---|---|---|
| Software passkey | `aqa/fido2.go` | the identity: a key, a credential id, a user id, in memory and in a file | load or create, save, register, authenticate; encode a registration |
| IdP client | `aqa/idp.go` | one session per sign-in | authorize, ceremony, delivery, status, token |
| Wallet stand-in | `aqa/wallet.go` | none | deliver self-asserted attributes for a user |
| Relying parties of the suite | `aqa/suite.go`, `aqa/platform.go` | a cache per run, the clients of the account | find or register a client; register a confidential one |
| Suite | `aqa/suite.go`, `aqa/main.go`, `aqa/referential.go` | verdicts and counters | eleven cases, the runner |
| Console | `aqa/console.go`, the page in it, `aqa/idpadmin.go` | the last result; per page, the run of `start()`; at the IdP, a registry of clients | index, client, report, last |
| Dependency consumer | `consumer/main.go`, `consumer/depcheck` | none between requests; per request a nonce, an identity, a session | `/ask` |
| Dependency provider | `provider/main.go` | none | `/infer` |
| Command line | `aqa/main.go`, the head of `runServe` in `aqa/console.go` | the bearer; the credential store of the CLI | flags, token discovery, referential, identity, account |

How they interact. `attribute-qa` calls the IdP and the management service over
HTTP. The suite drives sign-ins through the IdP client with the passkey; the
console leaves the ceremony to the SDK in the page and analyses its result. Runs
of `attribute-qa` share three things: the identity file, the clients on the
account, and the IdP's records. The consumer calls the provider over RA-TLS;
the SDK verifies quotes, the manager mints client certificates, and the
runtime in front of the provider decides which callers it admits.

What is hard about it: a process that is killed inside `os.WriteFile`; an answer
lost after the other side has acted; runs, pages and requests that interleave on
shared state; what is verified at one time and used at another; and verdicts
that come out right for the wrong reason. `PROJECT.json` lists each such place
with its line and the properties that watch it.

What makes each part correct:

- **Sign-in.** What the file says is enrolled is enrolled; failing runs, and files they
  leave behind unreadable, do not litter the IdP with users; no credential is asserted that was never accepted;
  attributes are delivered once, for the user who was authenticated, and before success
  is reported; after faults stop, the suite signs in again; the IdP can read the
  key and the credential id out of the registration it is sent.
- **Consumer.** A prompt reaches a declared enclave or nobody, and nobody when the
  declaration does not decode; a refusal means that
  nothing has been released; `egress_verified` is true to fact.
- **Relying parties.** A case holds a client with exactly the ceiling it asked for;
  clients do not pile up; a token exchange has a secret of its own, and its client is
  never handed out to another case.
- **Console.** A per-selection ceremony runs under exactly the selection; a client
  handed out can be billed; the report says what arrived, and a page that has reported
  never finds an older report than its own.
- **Suite.** No case passes against a platform that breaks its rule; against one that
  breaks none a lost call costs one case at most; a whole run that exits 0 without a skip
  means a platform that breaks none; more skips than lost calls mean an environment that
  sells nothing, or lacks the one row it was asked for; a case that was never exercised, its bearer not being taken, is no
  pass.

## Modules

| module | models | checked by | proved in |
|---|---|---|---|
| `Passkey` | `fido2.go` 126-171 and 208-218, and a reader of what it writes | as part of `SignIn` | `PasskeyProofs` |
| `SignIn` (extends `Passkey`) | `fido2.go`, `idp.go`, `wallet.go` | `MCSignIn`, `SignIn_*.cfg` | `SignInProofs` |
| `UserSession` | abstract: what a sign-in promises of its session | `SignIn_safety.cfg` | `SignInProofs` |
| `GuardedForward` | abstract: what the consumer promises of a prompt | `DependencyConsumer_safety.cfg` | `DependencyConsumerProofs` |
| `DependencyConsumer` | `consumer/main.go`, `depcheck.go`, the provider's `/infer` | `MCDependencyConsumer`, `DependencyConsumer_safety.cfg` | `DependencyConsumerProofs` |
| `PartyLeases` | abstract: what the suite promises of the clients it registers | `RelyingParties_safety.cfg` | `RelyingPartiesProofs` |
| `RelyingParties` | `suite.go` 56-132, `platform.go` | `MCRelyingParties`, `RelyingParties_*.cfg` | `RelyingPartiesProofs` |
| `Console` | `console.go` with its page, `idpadmin.go` | `MCConsole`, `Console_*.cfg` | `ConsoleProofs` |
| `Startup` | `main.go` 84-179, the head of `runServe`, `platform.go` AccountID | as part of `Suite` | `SuiteProofs` |
| `Suite` (extends `Startup`) | `suite.go` 22-55 and 152-483, `main.go` runTest, `referential.go` | `MCSuite`, `Suite_*.cfg` | `SuiteProofs` |

Each module has one action per call, handler or write; `PROJECT.json`'s map gives
the lines of every definition. Definitions introduced by a comment "Mutant:" are
plausible bugs: put in the place of the definition that follows them, each makes
TLC find the property it is listed with violated. They take no part in any
specification.

### Passkey

The encoder is four functions over byte sequences; `cborUint` has the four widths of
the code, and truncates to 32 bits as it does. `coseKey`, `authData` and
`attestationObject` are the concatenations of `coseKey`, `Register` and
`attestationObject`. `ReadItem`, `ReadEntry`, `ReadKey` and the rest are the IdP's
side, after RFC 8949 and WebAuthn, and external. `ReadsBack` says that reading inverts
writing. Coordinates have 32 bytes because `coords` uses `FillBytes`. Client data,
the hash of the relying party and signatures are not modelled beyond their place.

### SignIn and UserSession

A process is a run of the harness. `pc` names its next HTTP call or the next half
of its next write (`os.WriteFile` opens with truncation, then writes), `mem` is the
`*Identity`, `cer` the user id of the `ceremonyResult`, `file` what is on disk. The
IdP (external) keeps `account`, the user of each credential, and `session`, the
user and the delivery of each sign-in. Faults are calls that fail with nothing
done (`CallFails`), answers lost after the IdP has acted (in `RegisterComplete`,
`AuthenticateComplete` and `CompleteSession`), failed saves and kills; `Forget`
wipes the IdP's credentials. The credential id is derived from the key, so the key
stands for it. Two writers that overlap can leave the tail of a longer document
behind a shorter one: `Overwritten`, where a length is one of three classes.

`UserSession` knows nothing of calls, files and retries. A session is opened,
authenticated as the user of a key, known or new; receives that user's attributes;
and is told to be a success, a failure, or nobody's. `who` and `received` are the
fields of `session[p]`, `told` is `outcome[p]`, `account` is the IdP's table in both.
An answer may be lost after the IdP has acted (`Answered`); of a run that is killed
nothing more is known (`Open`).

Assumed of the IdP: a key registered again gets the user it had.

### DependencyConsumer and GuardedForward

A request is a run of `handleAsk`; `pc` steps through preparation, handshake,
inspection, sending and the answer. The request stands for its nonce and for its
channel binder, so a certificate minted for another session differs from one
minted for this. A host may present its own certificate or relay any other; who
is really at the end of the session is `conn[r].peer`, which the code cannot see.
A redeployment changes a host's build and kills its sessions. `GuardedForward`
says for each prompt: pending, then refused, or released to a trusted peer and
then answered or lost; `PhaseOf` maps a request to its phase. `Trusted` is the
declared set; everybody when nothing is declared, in any of the ways in which a document
can say so, which is what the code does; and nobody when the document is neither of the
accepted forms (`Unreadable`), which the code must not take for the empty set.

TLC checks the refinement in the same run as the invariants, with every declaration
and a host that relays. Hosts that run no enclave (`AppOf[h] = None`) occur in the
proofs only: to the code they are one more host whose certificate does not verify.

Assumed of the SDK: `VerifyRaTlsCertBound` accepts a genuine quote for this nonce
and binder only; `VerifyPeerIsDependency` compares app and measurement as the
comment of `VerifyPeer` says.

### RelyingParties and PartyLeases

A run is a process of the suite with its cache; a case asks with a label and a
whitelist and goes through cache, list and registration, or registers afresh when
it needs the secret. A name is the pair of label and whitelist: that two
whitelists share the 4 bytes of their hash is not modelled. `ListClients` may
fail, which the code takes for an empty list; a registration may be lost before
or after it happened; a run may be killed; `Drift` edits a whitelist on the
platform.

`PartyLeases` knows of no names, caches or lists: a client is opened for an order (the
label and whitelist of a case) or for one case alone, and a case leases one that was
opened for its order. `Opened` reads the order off the name; `Leased` says that a run
is alone with its client when it has the secret. A client with a secret was opened for
no order, so no step can hand it out again.

### Console

A page's `start()` and the handler it is waiting for are one state, `page[p]`. The
IdP's registry is written by the upsert and by the billing call, each of which may
fail with or without its effect. The ceremony is external: it is authorized under
the whitelist at that moment, and may bring any claims and disclosures for what
was admitted; a stored session may be restored instead, whichever client it was
for, as the page's comment at `console.go:398-400` says. What arrives is, by key, the
shape of the token's claim and of the first disclosure: `handleReport` passes over a
second disclosure of a key it has seen. `Asks` is what people tick, a selection and the
box for step-up. Reports are numbered, `own[p]` is the number of p's latest and
`shown[p]` that of what p shows. The IdP's record of what a
holder has granted to a client, which the step-up push works from, is not
modelled.

Assumed of the IdP: an upsert replaces the whitelist and leaves the billing
account.

### Startup

One process from its command line to its first case or to the console. `cmd` holds the
flags and the environment, `store` what `privasys auth list` would list, in its order;
`Refresh` is the `account show` whose failure the code ignores, `ListCredentials` takes
the first credential whichever endpoint it is for. A bearer is the endpoint it was
issued for and whether it is still valid; `Accepted` is what the control plane thinks
of it. `Expire` lets a token expire in the store or in the hands of the process, which
reads it once and never again. Every step that can fail ends in `GivesUp`.

Assumed of the CLI: `account show` renews the token of a login for the endpoint it is
given, if the refresh token is good, and touches no other.

### Suite

The referential is one of several lists, well-formed or not; the platform is
correct, sells nothing, or has one of fifteen flaws, and answers 401 to a bearer that
is not `Accepted`. The platform's answers are operators (external) of the flaw; each
case is the conjunction of the assertions in its `Run`; `RunCase` takes the cases in
order and counts. A lost call makes a case fail, or skip when it was the probe of
`marketplaceProvisioned`. A key is its place in the alphabet, because the code takes
the first of sorted lists. The identity and the sign-ins are `SignIn`'s: here an
authorization has an answer or is lost. `Selections` are the sets of cases that a value
of `-run`, which is a substring of names, can select; with `-json` the run may end in 1
because its report could not be written.

## Runs

| run | bounds | what it shows | time |
|---|---|---|---|
| `signin_safety` | 2 processes, 3 keys, 4 users, 2 faults, 1 forgetting; 13 lengths on both sides of every width, 3 coordinates, 3 credential ids | four safety properties, the types, that registrations read back, and the refinement of `UserSession` | 5 s |
| `signin_liveness` | 2 processes, 2 keys, 2 users, 2 faults | `KeepsSigningIn` under `FairSpec` | 5 s |
| `signin_forgotten` | 1 process, 1 key, 2 users | a forgotten credential is not enrolled again | 1 s |
| `consumer_safety` | 2 requests, 2 hosts, 2 apps, 2 builds, every shape of document, 1 redeployment | four safety properties, the types, and the refinement of `GuardedForward` | 100 s |
| `parties_safety` | 2 runs, 4 ids, 2 whitelists, 2 faults, 1 edit | ceiling, number of clients, secrets, and the refinement of `PartyLeases` | 120 s |
| `parties_drift` | 1 run, 2 ids, 1 edit | a drifted client is reused | 1 s |
| `console_clients` | 2 pages, a key of each tier, 4 ways to tick, nothing arrives, 2 reports | ceiling, billing and the shared result | 35 s |
| `console_report` | 1 page, every way to tick, every arrival of two keys, 1 report | the analysis, and the types | 25 s |
| `suite_verdicts` | 8 referentials, 17 platforms, 6 command lines, 4 stores, 19 selections of cases, 2 lost calls, 1 expiry | verdicts, counters, what exit status 0 and a skip are worth, when a stored bearer is refused, and that nothing passes unexercised | 65 s |
| `suite_skips`, `suite_presence` | the bearer on the command line, no lost calls | two divergences below | 1 s |
| `suite_bearer` | as `suite_verdicts`, no lost calls, no expiry | the fifth divergence below | 5 s |

Why the bounds are enough. Two processes, runs or requests already give every
order of two writers, and no action involves three. The shape of what arrives is
no part of the registry, so `console_clients` lets nothing arrive, and
`console_report` has one page and everything. Two reports are what it takes for another
page's to replace a page's own before it has reloaded, and the four ways to tick are two
selections that overlap, with a client each, and two that share the client for step-up. Two
faults let one fault follow the recovery from another (a lost registration, then a
kill during the save). Three keys are one more than the bound the property states,
so the bound can be broken; four client ids likewise exceed two runs and one
failed list. The lengths stand on either side of each width of `cborUint`, where an
off-by-one would show. Stores have at most two logins, which is what it takes for the
first not to be the one wanted, and one expiry can fall between any two cases. Two
hosts suffice for a relay, and one redeployment for a build that
changes under a verified session. What each module abstracts has no counters
other than the faults, so larger instances repeat the same orders. The proofs
below lift all safety properties to every instance.

Deadlock is checked except where a run of the system really ends: in
`DependencyConsumer` when every request has been answered, and in `Suite` when the
process has exited.

Fairness, in `SignIn` only: a running process keeps moving (WF of `Start` and of
`Runs`), because every call has the 30 s timeout of `NewIdPClient`; and a process
that is repeatedly between cases begins another sign-in (SF of `Authorize`),
because the suite is run again and again; nothing is assumed of faults, kills and
exits except that faults are finitely many (`MaxFaults`). The consumer has no
deadline on its calls, so no liveness is claimed of it, nor of a person with a
wallet.

## Divergences from what the repository says

Each is shown by a run that is expected to end in a violation.

1. `signin_forgotten`: `idp.go:262-263` says a forgotten credential is enrolled again;
   the 404 is wrapped (`fido2.go:243`, `267`) before `statusOf` looks for a bare
   `*httpError`, so the branch at `idp.go:269-272` is never taken.
2. `parties_drift`: `suite.go:84-86` says a client whose ceiling has drifted is never
   reused; `suite.go:105` compares names only.
3. `suite_skips`: `suite.go:22-23` says a skip is what the environment cannot support;
   `marketplaceProvisioned` skips on any error about the first priced key.
4. `suite_presence`: `aqa/README.md:84-88` says as a general rule that presence is
   asserted before absence, and `suite.go:188-189` guards another case against passing
   on nothing; the token filter's absence (`suite.go:396`) follows no presence.
5. `suite_bearer`: `main.go:131-132` says the token read from the CLI's store will
   still be valid when the suite uses it; `main.go:155` takes the first login listed,
   which may be for another endpoint, while the one for this endpoint was refreshed.

Behaviour the models keep as it is, which a reader should know of:

- With an empty pinned set the consumer sends the prompt to whoever answers
  (`main.go:72-81`); `Trusted` says so, and the properties of the consumer promise
  nothing more in that case.
- With the step-up box, which is ticked by default, all selections share one client
  and pages rewrite each other's whitelist; `SelectionIsTheCeiling` is about the
  other mode, the one the console announces (`console.go:136-137`).
- A claim in the token hides a disclosure of the same key (`console.go:229-231`):
  the report then says "raw value", although a signed disclosure came too.
- `CompleteSession` sends every attribute it is given; the refusal that its comment
  speaks of (`wallet.go:25-28`) is in `GovTierUnsupported`, which nothing calls. No
  case of the suite delivers a government-tier key, so no run can show a difference.
- `cborUint` writes the lower 32 bits of a larger number. Nothing the passkey encodes
  comes near it; `PasskeyAssumption` bounds the lengths below that.
- The bearer is read once. A suite that outlives it reports 401s as failed cases.

## Proofs

Every safety property that a passing run checks is also a theorem, the refinements of
the three abstract modules among them. The theorems hold for every value of the
constants that the `ASSUME`s of the modules allow, which TLC evaluates in every run;
`BreachesFail` and `GreenIsSound` have one more hypothesis, stated below.

`PasskeyProofs`, for all coordinates, credential ids and lengths:

- `RegistrationIsReadable`: `ReadsBack`. `Split` and `Between` say that a reader finds
  the end of what was written; from them `HeadReadsBack`, by a case for each width,
  then items, entries (`ReadsEntry`: followed by anything, read as that name and
  value), the key, the attestation object and the authenticator data, each from the
  lemma before it. `Concatenated` and `Associates` do the arithmetic of positions.

`SignInProofs`, for every number of processes, keys and users:

- `TypeCorrect`: the types, with the links between `pc` and the identity that later
  proofs use.
- `PersistedCredential`: `PersistedCredentialEnrolled` is not inductive, because a save
  writes what a process holds. Strengthened with: a process that holds a credential
  holds one the IdP has, with its user.
- `RefusalsAreForgetting`: from the same invariant. What a process asserts the IdP has
  accepted, so `AuthenticateUnknown` has to wait for a `Forget`.
- `KeepsSessions`: `Spec => SessionsKept`. `StandingInv` ties the place of a sign-in to its
  session: no user before the ceremony; a user and no attributes between ceremony and
  delivery; attributes at the calls for status and token; no outcome before the end.
  With the invariant of the next theorem, each action is a step of its process's
  session, or touches the file and the identity only and is a stutter.
- `DeliveredToSessionUser`: strengthened with: between ceremony and delivery, `cer[p]`
  is the user of the session.
- `EnrolledKeys`: an enrolled key is *live*, held by a process or stored in the file;
  the invariant bounds the live keys by the processes that may still hold one that
  is not on disk. The counting uses the theorems on finite sets.
- `RegistrationReadable`: from `RegistrationIsReadable`.

`DependencyConsumerProofs`, for every set of requests, hosts, apps and builds:

- `ParseKeepsDeclaration`: of every document, `ParsePinnedSet` errs or keeps what was
  declared.
- `TypeCorrect`.
- `PromptsVetted`: strengthened with: a handler past inspection has a session whose
  certificate was minted for it by the peer at its end, unless nothing is enforced,
  and a session that is alive has its peer unchanged (`VettedInv`).
- `RefusalsRelease`, `EgressTruthful`, `IdentitiesAccepted`: from `VettedInv` and
  `AnsweredInv`, which ties the reply to the response of the provider, to the session
  it came over and to the document, on each way out of the handler.
- `KeepsPromise`: initial states map to initial states, and each action to a step of
  `GuardedForward` or to a stutter.

`RelyingPartiesProofs`, for any number of runs, clients and whitelists:

- `TypeCorrect`, `CeilingsExact`, `SecretsOwn`: from one invariant (`IInv`) that ties a
  run's cache and hand to the client's name, its whitelist and its registrar, with
  drift as the only way for a whitelist to leave its name.
- `KeepsLeases`: `Spec => LeasesKept`. `OpenedFacts` and `LeasedFacts` say what the mapping
  makes of one client and one run; a step that writes the registry or a hand then opens
  (`StepOpens`), shares (`StepShares`) or returns (`StepReturns`) a lease, by cases in
  `NextLease`. That a shared client was opened for the order is `IInv`'s tie between a
  cache or a list and the name.
- `PilesBounded`: clients of one name are at most the runs plus the lists that failed.
  The bound is not inductive: a run that is about to register one is counted already
  (`Pile`), and so is a run whose registration was lost.

`ConsoleProofs`, for any number of pages, attributes and clients:

- `TypeCorrect`.
- `CeilingIsSelection`, `ClientsPay`: from `ClientInv`, that a client with an id of its
  own selection has that whitelist, and that a client a page holds was billed; by
  cases on what a step does to a page (`Moves`) and to the registry (`Registers`).
- `OwnReportShown`: reports are numbered in their order, and a page's own is never
  beyond the last (`OwnInv`).
- `VerdictsAreTrue`: by cases on how each key can arrive (`Analysed`).

`SuiteProofs`, for every referential, store, command line and number of faults:

- `TypeCorrect`: the counters agree with the report; `SuiteInv` says that cases not
  reached have no verdict, so none is counted twice.
- `NoneUnexercised`: every case but `twoTiers`, which asks nobody, needs an answer that
  an unaccepted bearer does not get.
- `FirstLogins`: `FirstLoginIsTaken`, what remains of the promise that divergence 5 breaks.
  `ListedInv` says that a process which lost nothing to time still holds the token of
  the login that is first in the store.
- `BreachesFail`: assumed of each referential (`TwinsAreNamed`): keys are unique, and
  the government half of a pair is request-only with scope `email` or `identity`. A
  referential without these can hide a breach from the cases: a twin that is in no
  scope asked for is missing from the answer of any platform.
- `GreenIsSound`: under the same assumption. `BreachesFail` alone does not give it: a
  case that has not run does not pass either. `GreenInv` adds that a case the runner has
  left behind has a verdict, that status 0 comes after the last one, and that where
  nothing is sold the case of the priced rows does not pass. With no failure and no
  skip counted every verdict is `pass`, and every platform but the correct one has a
  case that cannot be.
- `SkipsTellUnsold`: by `SkipNeedsUnsold`, what a probe that was answered says of the
  platform; `NextSkip` keeps it, because a skip that says nothing has cost a lost call
  (`CasesCost`) and nothing makes a bearer good again once cases run (`StartsBearer`).
- `SoundPlatformsPass`: `NoFalseAlarm`. `SanePasses` shows, one case at a time, that a
  case passes against a platform that breaks no rule, `PricingCases` that the pricing
  cases skip exactly where nothing is sold. `NoFalseVerdict` then balances the counters
  against the lost calls: a verdict that the platform does not deserve has cost one.

Only model-checked: liveness under fairness (`KeepsSigningIn`; out of the prover's
reach, as is ENABLED).
Induction over data and recursive operators are also out of the prover's reach; no
module needs them.

## Not modelled

- The cryptography (key generation, signatures, hashes, TLS, attestation quotes) is
  external and assumed; so are the IdP, the control plane, the CLI, the enclave manager
  and the wallet, as far as the code depends on them.
- Formats without state: the query string of `/authorize`, the JSON bodies, the client
  data of a ceremony, the decoding of a token's claims (`decodeJWTClaims`, which drops
  the signature on purpose), file names and port flags.
- `ExchangeCode`, `InScope`, `SelfAsserted`, `GovTierUnsupported` and `Balance`: nothing
  calls them.
- The HTML and style of the console, the rendering of its checkboxes, the wording of
  reports; `/health` and `/version`, which answer constants; the images, the workflow
  and the app manifests.
- The end-to-end tests of the dependency check, read as a reference for `VerifyPeer`.

What changes state in this code, and every answer it acts on, is in a module; what is
listed here keeps none, or belongs to somebody else's program. The three hazards
of `PROJECT.json` without a property (a peer, and a CLI, that never answers; a page whose
button stays disabled) are behaviour the code has and nobody promises otherwise.
