------------------------------ MODULE Console ------------------------------
(***************************************************************************)
(* The browser console (console.go, idpadmin.go): pages in which a person  *)
(* ticks attributes, the handlers that give each selection a relying party *)
(* and analyse what its ceremony brought, the IdP's registry, and the last *)
(* result, which every page shows.  Handlers of several pages interleave;  *)
(* each call to the IdP is a step that may fail, with or without effect.   *)
(*                                                                         *)
(* Abstraction: an attribute is a key; a value or a token is its shape.    *)
(***************************************************************************)
EXTENDS Naturals, FiniteSets

CONSTANTS
  Page,       \* pages of the console that are open
  SelfKey,    \* keys the holder asserts
  GovKey,     \* keys an enclave signs
  None,
  Shape,      \* shapes in which a value can arrive
  Asks,       \* what the people at the pages tick: attributes, and the box for step-up
  MaxReports  \* bound: reports the console receives

Key == SelfKey \cup GovKey
Selection == (SUBSET Key) \ {{}}

ASSUME ConsoleAssumption ==
  /\ SelfKey \cap GovKey = {}
  /\ None \notin Key \cup [stepup : BOOLEAN, of : SUBSET Key]
  /\ Asks \subseteq [asked : Selection, stable : BOOLEAN]
  /\ "absent" \in Shape /\ Shape \subseteq {"absent", "value", "vc"}
  /\ MaxReports \in Nat

VARIABLES
  registry,  \* the IdP: registry[id], the relying party with that id
  session,   \* the session the SDK has stored in the browser
  page,      \* page[p]: the start() that page p is running, or IdlePage
  last,      \* console.last: the last result, and its number
  own,       \* own[p]: the number of the latest report of p
  shown      \* shown[p]: the number of the result p shows

vars == <<registry, session, page, last, own, shown>>

\* What a ceremony brought: by key, the shape of the token's claim and of the first
\* disclosure; handleReport passes over a second one of the same key.
Nothing == [k \in Key |-> [claim |-> "absent", disclosure |-> "absent"]]

\* The locals of start(), and of the handler it waits for: where it is, the
\* selection, the relying party, the whitelist its ceremony was authorized under
\* and what the SDK obtained.
IdlePage ==
  [at |-> "idle", asked |-> {}, stable |-> FALSE, client |-> None, ceiling |-> None,
   arrival |-> Nothing]

\* A fetch or connect() throws: the page says so and enables its button.
Throws(p) == page' = [page EXCEPT ![p] = IdlePage]
Goes(p, stage) == page' = [page EXCEPT ![p].at = stage]

\* A person ticks attributes and presses the button, which it disables.
Start(p) ==
  /\ page[p].at = "idle"
  /\ \E ask \in Asks :
       page' = [page EXCEPT ![p] = [IdlePage EXCEPT !.at = "ensure", !.asked = ask.asked,
                                                    !.stable = ask.stable]]
  /\ UNCHANGED <<registry, session, last, own, shown>>

(***************************************************************************)
(* handleClient                                                            *)
(***************************************************************************)

\* Mutant: the id does not depend on the selection.
ClientIDOfConsole(asked, stable) == [stepup |-> stable, of |-> Key]

\* The id of a relying party: a hash of the selection, or the one for step-up.
ClientID(asked, stable) == [stepup |-> stable, of |-> IF stable THEN {} ELSE asked]

ClientIDs == {ClientID(asked, stable) : asked \in Selection, stable \in BOOLEAN}

\* External: POST /clients writes the whitelist and keeps the billing account.
Unregistered == [attrs |-> {}, billable |-> FALSE]
Upserted(id, asked) == [registry EXCEPT ![id].attrs = asked]
Billed(id) == [registry EXCEPT ![id].billable = TRUE]

\* Mutant: an upsert that fails is taken for a client that is there already.
EnsurePublicClientBestEffort(p) ==
  LET id == ClientID(page[p].asked, page[p].stable) IN
  /\ page[p].at = "ensure"
  /\ registry' \in {registry, Upserted(id, page[p].asked)}
  /\ page' = [page EXCEPT ![p].client = id, ![p].at = "bill"]
  /\ UNCHANGED <<session, last, own, shown>>

\* EnsurePublicClient: an upsert that fails may have happened.
EnsurePublicClient(p) ==
  LET id == ClientID(page[p].asked, page[p].stable) IN
  /\ page[p].at = "ensure"
  /\ \/ /\ registry' = Upserted(id, page[p].asked)
        /\ page' = [page EXCEPT ![p].client = id, ![p].at = "bill"]
     \/ registry' \in {registry, Upserted(id, page[p].asked)} /\ Throws(p)
  /\ UNCHANGED <<session, last, own, shown>>

\* Mutant: the client is handed out whether or not it could be billed.
MakeBillableBestEffort(p) ==
  /\ page[p].at = "bill"
  /\ registry' \in {registry, Billed(page[p].client)}
  /\ Goes(p, "connect")
  /\ UNCHANGED <<session, last, own, shown>>

\* MakeBillable: the relying party is linked to the account that pays, and only
\* then is its id handed out; the answer may not reach the page.
MakeBillable(p) ==
  /\ page[p].at = "bill"
  /\ \/ registry' = Billed(page[p].client) /\ Goes(p, "connect")
     \/ registry' \in {registry, Billed(page[p].client)} /\ Throws(p)
  /\ UNCHANGED <<session, last, own, shown>>

(***************************************************************************)
(* External: the SDK, the IdP and the wallet                               *)
(***************************************************************************)

\* What a ceremony may bring for the attributes it was authorized for: a claim
\* for any key, and a disclosure for an enclave's key if somebody pays for it.
Brings(admitted, billable) ==
  {a \in [Key -> [claim : Shape, disclosure : Shape]] :
     \A k \in Key :
       /\ a[k].claim = "vc" => k \in GovKey
       /\ a[k].claim # "absent" => k \in admitted
       /\ a[k].disclosure # "absent" => billable /\ k \in admitted \cap GovKey}

\* connect(): a stored session that covers the selection is restored, whichever
\* client it was for; otherwise /authorize reads the whitelist as it is now.
Connect(p) ==
  /\ page[p].at = "connect"
  /\ \/ /\ session # None
        /\ page[p].asked \subseteq session.covers
        /\ page' = [page EXCEPT ![p].arrival = session.arrival, ![p].at = "report"]
     \/ page' = [page EXCEPT ![p].ceiling = registry[page[p].client].attrs, ![p].at = "ceremony"]
     \/ Throws(p)
  /\ UNCHANGED <<registry, session, last, own, shown>>

\* The wallet answers, or the ceremony is given up.
Ceremony(p) ==
  LET admitted == page[p].asked \cap page[p].ceiling IN
  /\ page[p].at = "ceremony"
  /\ \/ \E a \in Brings(admitted, registry[page[p].client].billable) :
          /\ session' = [covers |-> admitted, arrival |-> a]
          /\ page' = [page EXCEPT ![p].arrival = a, ![p].at = "report"]
     \/ Throws(p) /\ UNCHANGED session
  /\ UNCHANGED <<registry, last, own, shown>>

(***************************************************************************)
(* handleReport and handleIndex                                            *)
(***************************************************************************)

Form(shape) == IF shape = "vc" THEN "enclave-signed disclosure" ELSE "raw value"
ReceivedClaim(k, form, issued) == [key |-> k, form |-> form, issued |-> issued]

\* Mutant: the disclosures are looked at before the token.
ReceivedDisclosuresFirst(asked, a) ==
  LET disclosed == {k \in Key : a[k].disclosure # "absent"} IN
  {ReceivedClaim(k, Form(a[k].disclosure), TRUE) : k \in disclosed}
    \cup {ReceivedClaim(k, Form(a[k].claim), FALSE) :
            k \in {g \in asked \ disclosed : a[g].claim # "absent"}}

\* An asked key that is in the token is reported from there, without an issuer;
\* any other disclosure, asked for or not, by the shape of its token.
Received(asked, a) ==
  LET claimed == {k \in asked : a[k].claim # "absent"} IN
  {ReceivedClaim(k, Form(a[k].claim), FALSE) : k \in claimed}
    \cup {ReceivedClaim(k, Form(a[k].disclosure), TRUE) :
            k \in {g \in Key \ claimed : a[g].disclosure # "absent"}}

ConsoleResult(p) ==
  LET received == Received(page[p].asked, page[p].arrival) IN
  [received |-> received, missing |-> page[p].asked \ {c.key : c \in received}]

\* The report of p, and its answer, which may not reach the page.
Reports(p) ==
  /\ page[p].at = "report"
  /\ last.number < MaxReports
  /\ own' = [own EXCEPT ![p] = last.number + 1]
  /\ Goes(p, "reload") \/ Throws(p)
  /\ UNCHANGED <<registry, session, shown>>

\* Mutant: a result that is there is not replaced.
HandleReportKeepsFirst(p) ==
  /\ Reports(p)
  /\ last' = IF last.result # None THEN last
             ELSE [number |-> last.number + 1, result |-> ConsoleResult(p)]

\* handleReport: the result replaces the last one, then it is answered.
HandleReport(p) ==
  /\ Reports(p)
  /\ last' = [number |-> last.number + 1, result |-> ConsoleResult(p)]

\* The report is refused (too long, malformed): the page says so, and leaves its
\* button disabled.  A report without an answer throws like any fetch.
ReportFails(p) ==
  /\ page[p].at = "report"
  /\ Goes(p, "disabled") \/ Throws(p)
  /\ UNCHANGED <<registry, session, last, own, shown>>

\* handleIndex: a page is loaded, by itself after its report or by its user.
HandleIndex(p) ==
  /\ page[p].at \in {"reload", "disabled", "idle"}
  /\ shown' = [shown EXCEPT ![p] = last.number]
  /\ page' = [page EXCEPT ![p] = IdlePage]
  /\ UNCHANGED <<registry, session, last, own>>

(***************************************************************************)
(* Specification                                                           *)
(***************************************************************************)

Init ==
  /\ registry = [id \in ClientIDs |-> Unregistered]
  /\ session = None
  /\ page = [p \in Page |-> IdlePage]
  /\ last = [number |-> 0, result |-> None]
  /\ own = [p \in Page |-> 0]
  /\ shown = [p \in Page |-> 0]

Next ==
  \E p \in Page :
    \/ Start(p) \/ EnsurePublicClient(p) \/ MakeBillable(p)
    \/ Connect(p) \/ Ceremony(p)
    \/ HandleReport(p) \/ ReportFails(p) \/ HandleIndex(p)

Spec == Init /\ [][Next]_vars

(***************************************************************************)
(* Properties                                                              *)
(***************************************************************************)

Arrival == [Key -> [claim : Shape, disclosure : Shape]]
PartyType == [attrs : SUBSET Key, billable : BOOLEAN]
SessionType == [covers : SUBSET Key, arrival : Arrival]
PageType ==
  [at : {"idle", "ensure", "bill", "connect", "ceremony", "report", "reload", "disabled"},
   asked : SUBSET Key, stable : BOOLEAN, client : ClientIDs \cup {None},
   ceiling : (SUBSET Key) \cup {None}, arrival : Arrival]
ResultType ==
  [received : SUBSET [key : Key, form : {"raw value", "enclave-signed disclosure"},
                      issued : BOOLEAN],
   missing : SUBSET Key]

\* Every variable has its type; a page with a client has one that is registered,
\* for at least one attribute.
TypeOK ==
  /\ registry \in [ClientIDs -> PartyType]
  /\ session \in SessionType \cup {None}
  /\ page \in [Page -> PageType]
  /\ last \in [number : 0..MaxReports, result : ResultType \cup {None}]
  /\ own \in [Page -> 0..MaxReports]
  /\ shown \in [Page -> 0..MaxReports]
  /\ \A p \in Page :
       /\ page[p].at \notin {"idle", "ensure"} => page[p].client # None
       /\ page[p].client # None => registry[page[p].client].attrs # {}

\* In the mode the README describes (not with one client for all runs, which pages
\* rewrite under each other), a ceremony runs under a whitelist of exactly
\* the attributes ticked, whatever other pages select meanwhile: the id is a hash
\* of the selection, and the registry is written by an upsert that any page can
\* make between this page's upsert and its authorization (idpadmin.go:57-71).
SelectionIsTheCeiling ==
  \A p \in Page : page[p].ceiling # None /\ ~page[p].stable => page[p].ceiling = page[p].asked

\* A page that has been given a client id can pay for a disclosure with it: a
\* registration that could not be billed is never handed out, the next selection
\* of the same attributes bills it, and no upsert in between undoes it.
HandedOutIsBillable ==
  \A p \in Page :
    page[p].at \in {"connect", "ceremony", "report"} => registry[page[p].client].billable

\* The report's verdict is right key by key: what it calls missing has come neither
\* in the token nor as a disclosure; what it calls received has come.  A key that came
\* both ways is reported once, from the token and without an issuer (console.go:216-247),
\* and enclave-signed is what has a token of that shape to show where it was reported from.
ReportIsWhatArrived ==
  [][last'.number # last.number =>
       \E p \in Page :
         LET asked == page[p].asked
             a == page[p].arrival
             claimed == {k \in asked : a[k].claim # "absent"}
             got == claimed \cup {k \in Key : a[k].disclosure # "absent"}
         IN
         /\ page[p].at = "report" /\ page'[p].at # "report"
         /\ last'.result.missing = asked \ got
         /\ {c.key : c \in last'.result.received} = got
         /\ \A c \in last'.result.received :
              /\ c.issued <=> c.key \notin claimed
              /\ c.form = "enclave-signed disclosure" <=>
                   "vc" = IF c.issued THEN a[c.key].disclosure ELSE a[c.key].claim]_vars

\* A page that reloads after its report shows that report, or a later one of another
\* page when that has replaced it, and never an older one: all pages share one last
\* result, which is kept before the answer that makes a page reload (console.go:258-262).
OwnReportIsShown ==
  [][\A p \in Page : page[p].at = "reload" /\ page'[p].at # "reload" => shown'[p] >= own[p]]_vars
=============================================================================
