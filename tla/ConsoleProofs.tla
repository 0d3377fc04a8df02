--------------------------- MODULE ConsoleProofs ---------------------------
(***************************************************************************)
(* What holds of Console for any number of pages, attributes and reports.  *)
(***************************************************************************)
EXTENDS Console, TLAPS

(***************************************************************************)
(* Ids, pages and results                                                  *)
(***************************************************************************)

LEMMA ClientIDFacts ==
  ASSUME NEW asked \in Selection, NEW stable \in BOOLEAN
  PROVE  /\ ClientID(asked, stable) \in ClientIDs
         /\ ClientID(asked, stable) # None
         /\ ClientID(asked, stable).stepup = stable
         /\ ~stable => ClientID(asked, stable).of = asked
  <1>1. ClientID(asked, stable) \in [stepup : BOOLEAN, of : SUBSET Key]
    BY DEF ClientID, Selection
  <1>2. ClientID(asked, stable) \in ClientIDs
    BY DEF ClientIDs
  <1>3. ClientID(asked, stable) # None
    BY <1>1, ConsoleAssumption
  <1>4. ClientID(asked, stable).stepup = stable /\ (~stable => ClientID(asked, stable).of = asked)
    BY DEF ClientID
  <1> QED
    BY <1>2, <1>3, <1>4

LEMMA NothingArrived == Nothing \in Arrival
  BY ConsoleAssumption DEF Nothing, Arrival

LEMMA IdlePageFacts ==
  /\ IdlePage \in PageType
  /\ IdlePage.at = "idle" /\ IdlePage.client = None /\ IdlePage.ceiling = None
  /\ IdlePage.asked = {}
  <1>1. IdlePage \in PageType
    BY NothingArrived DEF IdlePage, PageType
  <1> QED
    BY <1>1 DEF IdlePage

ClaimType ==
  [key : Key, form : {"raw value", "enclave-signed disclosure"}, issued : BOOLEAN]

\* What the analysis of a report says, for any selection and any arrival.
LEMMA Analysed ==
  ASSUME NEW asked \in SUBSET Key, NEW a \in Arrival
  PROVE  LET claimed == {k \in asked : a[k].claim # "absent"}
             got == claimed \cup {k \in Key : a[k].disclosure # "absent"}
             received == Received(asked, a)
         IN
         /\ received \in SUBSET ClaimType
         /\ {c.key : c \in received} = got
         /\ \A c \in received :
              /\ c.issued <=> c.key \notin claimed
              /\ c.form = "enclave-signed disclosure" <=>
                   "vc" = IF c.issued THEN a[c.key].disclosure ELSE a[c.key].claim
  <1> DEFINE claimed == {k \in asked : a[k].claim # "absent"}
             others == {g \in Key \ claimed : a[g].disclosure # "absent"}
             got == claimed \cup {k \in Key : a[k].disclosure # "absent"}
             OK(c) == /\ c.issued <=> c.key \notin claimed
                      /\ c.form = "enclave-signed disclosure" <=>
                           "vc" = IF c.issued THEN a[c.key].disclosure ELSE a[c.key].claim
  <1>1. Received(asked, a) =
          {ReceivedClaim(k, Form(a[k].claim), FALSE) : k \in claimed}
            \cup {ReceivedClaim(k, Form(a[k].disclosure), TRUE) : k \in others}
    BY DEF Received
  <1>2. \A k \in Key : a[k].claim \in Shape /\ a[k].disclosure \in Shape
    BY DEF Arrival
  <1>3. claimed \cup others = got /\ claimed \subseteq Key /\ others \subseteq Key
    OBVIOUS
  <1>4. \A k \in others : k \notin claimed
    OBVIOUS
  <1>5. ASSUME NEW k \in claimed
        PROVE  LET c == ReceivedClaim(k, Form(a[k].claim), FALSE) IN
               c \in ClaimType /\ c.key = k /\ OK(c)
    <2> DEFINE c == ReceivedClaim(k, Form(a[k].claim), FALSE)
    <2>1. k \in Key /\ a[k].claim \in Shape
      BY <1>2, <1>3
    <2>2. /\ c \in ClaimType /\ c.key = k /\ c.issued = FALSE
          /\ c.form = "enclave-signed disclosure" <=> a[k].claim = "vc"
      BY <2>1 DEF ReceivedClaim, Form, ClaimType
    <2>3. c.issued <=> c.key \notin claimed
      BY <2>2
    <2>4. c.form = "enclave-signed disclosure" <=>
            "vc" = IF c.issued THEN a[c.key].disclosure ELSE a[c.key].claim
      BY <2>2
    <2>5. OK(c)
      BY <2>3, <2>4
    <2> HIDE DEF OK
    <2> QED
      BY <2>2, <2>5 DEF c
  <1>6. ASSUME NEW k \in others
        PROVE  LET c == ReceivedClaim(k, Form(a[k].disclosure), TRUE) IN
               c \in ClaimType /\ c.key = k /\ OK(c)
    <2> DEFINE c == ReceivedClaim(k, Form(a[k].disclosure), TRUE)
    <2>1. k \in Key /\ k \notin claimed /\ a[k].disclosure \in Shape
      BY <1>2, <1>3, <1>4
    <2>2. /\ c \in ClaimType /\ c.key = k /\ c.issued = TRUE
          /\ c.form = "enclave-signed disclosure" <=> a[k].disclosure = "vc"
      BY <2>1 DEF ReceivedClaim, Form, ClaimType
    <2>3. c.issued <=> c.key \notin claimed
      BY <2>1, <2>2
    <2>4. c.form = "enclave-signed disclosure" <=>
            "vc" = IF c.issued THEN a[c.key].disclosure ELSE a[c.key].claim
      BY <2>2
    <2>5. OK(c)
      BY <2>3, <2>4
    <2> HIDE DEF OK
    <2> QED
      BY <2>2, <2>5 DEF c
  <1> HIDE DEF claimed, others, got, OK
  <1>7. ASSUME NEW c \in Received(asked, a) PROVE c \in ClaimType /\ c.key \in got /\ OK(c)
    <2>1. \/ \E k \in claimed : c = ReceivedClaim(k, Form(a[k].claim), FALSE)
          \/ \E k \in others : c = ReceivedClaim(k, Form(a[k].disclosure), TRUE)
      BY <1>1
    <2> QED
      BY <1>3, <1>5, <1>6, <2>1
  <1>8. ASSUME NEW k \in got PROVE \E c \in Received(asked, a) : c.key = k
    <2>1. CASE k \in claimed
      BY <1>1, <1>5, <2>1
    <2>2. CASE k \in others
      BY <1>1, <1>6, <2>2
    <2> QED
      BY <1>3, <2>1, <2>2
  <1>9. \A c \in Received(asked, a) : OK(c)
    BY <1>7
  <1>10. {c.key : c \in Received(asked, a)} = got /\ Received(asked, a) \in SUBSET ClaimType
    BY <1>7, <1>8
  <1> QED
    BY <1>9, <1>10 DEF OK, claimed, got

\* What a handler keeps of a report.
LEMMA ResultFacts ==
  ASSUME NEW p \in Page, page[p] \in PageType
  PROVE  /\ ConsoleResult(p) \in ResultType
         /\ ConsoleResult(p).received = Received(page[p].asked, page[p].arrival)
         /\ ConsoleResult(p).missing =
              page[p].asked \ {c.key : c \in Received(page[p].asked, page[p].arrival)}
  <1>1. page[p].asked \in SUBSET Key /\ page[p].arrival \in Arrival
    BY DEF PageType
  <1> QED
    BY <1>1, Analysed DEF ConsoleResult, ResultType, ClaimType

(***************************************************************************)
(* Type correctness                                                        *)
(***************************************************************************)

\* What a page knows at each stage of its run.
PageOK(p) ==
  /\ page[p].at # "idle" => page[p].asked \in Selection
  /\ page[p].at \in {"idle", "ensure"} => page[p].client = None
  /\ page[p].at \notin {"idle", "ensure"} =>
       /\ page[p].client = ClientID(page[p].asked, page[p].stable)
       /\ registry[page[p].client].attrs # {}

\* TypeOK with what its last part rests on.
TypeInv ==
  /\ registry \in [ClientIDs -> PartyType]
  /\ session \in SessionType \cup {None}
  /\ page \in [Page -> PageType]
  /\ last \in [number : 0..MaxReports, result : ResultType \cup {None}]
  /\ own \in [Page -> 0..MaxReports]
  /\ shown \in [Page -> 0..MaxReports]
  /\ \A p \in Page : PageOK(p)

LEMMA TypeInvImplies == TypeInv => TypeOK
  <1> SUFFICES ASSUME TypeInv, NEW p \in Page
               PROVE  /\ page[p].at \notin {"idle", "ensure"} => page[p].client # None
                      /\ page[p].client # None => registry[page[p].client].attrs # {}
    BY DEF TypeInv, TypeOK
  <1>1. PageOK(p) /\ page[p] \in PageType
    BY DEF TypeInv
  <1> QED
    BY <1>1, ClientIDFacts DEF PageOK, PageType

LEMMA InitType == Init => TypeInv
  <1> SUFFICES ASSUME Init PROVE TypeInv
    OBVIOUS
  <1>1. 0 \in 0..MaxReports
    BY ConsoleAssumption
  <1>2. Unregistered \in PartyType
    BY DEF Unregistered, PartyType
  <1>3. \A p \in Page : page[p] = IdlePage
    BY DEF Init
  <1>4. \A p \in Page : PageOK(p)
    BY <1>3, IdlePageFacts DEF PageOK
  <1> QED
    BY <1>1, <1>2, <1>4, IdlePageFacts DEF Init, TypeInv

\* An upsert or a billing writes one record, and never takes anything back.
LEMMA Writes ==
  ASSUME TypeInv, NEW id \in ClientIDs, NEW asked \in Selection
  PROVE  /\ Upserted(id, asked) \in [ClientIDs -> PartyType]
         /\ Upserted(id, asked)[id].attrs = asked
         /\ Billed(id) \in [ClientIDs -> PartyType]
         /\ Billed(id)[id].billable
         /\ \A o \in ClientIDs :
              /\ Upserted(id, asked)[o].billable = registry[o].billable
              /\ o # id => Upserted(id, asked)[o] = registry[o]
              /\ Billed(id)[o].attrs = registry[o].attrs
              /\ registry[o].billable => Billed(id)[o].billable
              /\ registry[o].attrs # {} => Upserted(id, asked)[o].attrs # {}
  BY DEF TypeInv, PartyType, Upserted, Billed, Selection

\* What a step that makes one of these writes leaves standing.
LEMMA Keeps ==
  ASSUME TypeInv, NEW id \in ClientIDs, NEW asked \in Selection,
         registry' \in {registry, Upserted(id, asked), Billed(id)}
  PROVE  /\ registry' \in [ClientIDs -> PartyType]
         /\ \A o \in ClientIDs : registry[o].attrs # {} => registry'[o].attrs # {}
         /\ \A o \in ClientIDs : registry[o].billable => registry'[o].billable
  <1>1. CASE registry' = registry
    BY <1>1 DEF TypeInv
  <1>2. CASE registry' = Upserted(id, asked)
    <2>1. registry' \in [ClientIDs -> PartyType]
      BY <1>2, Writes
    <2>2. \A o \in ClientIDs :
            /\ registry[o].attrs # {} => registry'[o].attrs # {}
            /\ registry[o].billable => registry'[o].billable
      BY <1>2, Writes
    <2> QED
      BY <2>1, <2>2
  <1>3. CASE registry' = Billed(id)
    <2>1. registry' \in [ClientIDs -> PartyType]
      BY <1>3, Writes
    <2>2. \A o \in ClientIDs :
            /\ registry[o].attrs # {} => registry'[o].attrs # {}
            /\ registry[o].billable => registry'[o].billable
      BY <1>3, Writes
    <2> QED
      BY <2>1, <2>2
  <1> QED
    BY <1>1, <1>2, <1>3

\* A step of page p that leaves the registry at least as full as it was.
LEMMA PageStep ==
  ASSUME TypeInv, NEW p \in Page, NEW q \in Page, q # p, page'[q] = page[q],
         \A o \in ClientIDs : registry[o].attrs # {} => registry'[o].attrs # {}
  PROVE  PageOK(q)'
  <1>1. PageOK(q) /\ page[q] \in PageType
    BY DEF TypeInv
  <1> QED
    BY <1>1, ClientIDFacts DEF PageOK, PageType

\* When only pages change, and only page p of them.
LEMMA OnePage ==
  ASSUME TypeInv, NEW p \in Page, \A q \in Page \ {p} : page'[q] = page[q], PageOK(p)',
         \A o \in ClientIDs : registry[o].attrs # {} => registry'[o].attrs # {}
  PROVE  \A q \in Page : PageOK(q)'
  BY PageStep

\* A page that stops, or moves on within what it knows.
LEMMA Stops ==
  ASSUME TypeInv, NEW p \in Page, Throws(p) \/ page' = [page EXCEPT ![p] = IdlePage],
         \A o \in ClientIDs : registry[o].attrs # {} => registry'[o].attrs # {}
  PROVE  page' \in [Page -> PageType] /\ \A q \in Page : PageOK(q)'
  <1>1. page' = [page EXCEPT ![p] = IdlePage]
    BY DEF Throws
  <1>2. page' \in [Page -> PageType] /\ page'[p] = IdlePage /\ \A q \in Page \ {p} : page'[q] = page[q]
    BY <1>1, IdlePageFacts DEF TypeInv
  <1>3. PageOK(p)'
    BY <1>2, IdlePageFacts DEF PageOK
  <1> QED
    BY <1>2, <1>3, OnePage

LEMMA MovesOn ==
  ASSUME TypeInv, NEW p \in Page, page[p].at \notin {"idle", "ensure"}, page' \in [Page -> PageType],
         page'[p].at \notin {"idle", "ensure"}, page'[p].asked = page[p].asked,
         page'[p].stable = page[p].stable, page'[p].client = page[p].client,
         \A q \in Page \ {p} : page'[q] = page[q],
         \A o \in ClientIDs : registry[o].attrs # {} => registry'[o].attrs # {}
  PROVE  \A q \in Page : PageOK(q)'
  <1>1. PageOK(p) /\ page[p] \in PageType
    BY DEF TypeInv
  <1>2. page[p].client \in ClientIDs
    BY <1>1, ClientIDFacts DEF PageOK, PageType
  <1>3. PageOK(p)'
    BY <1>1, <1>2 DEF PageOK
  <1> QED
    BY <1>3, OnePage

LEMMA NextType == TypeInv /\ [Next]_vars => TypeInv'
  <1> SUFFICES ASSUME TypeInv, [Next]_vars PROVE TypeInv'
    OBVIOUS
  <1>0. \A p \in Page : page[p] \in PageType /\ PageOK(p)
    BY DEF TypeInv
  <1>1. ASSUME NEW p \in Page, Start(p) PROVE TypeInv'
    <2>1. PICK ask \in Asks :
            page' = [page EXCEPT ![p] = [IdlePage EXCEPT !.at = "ensure", !.asked = ask.asked,
                                                         !.stable = ask.stable]]
      BY <1>1 DEF Start
    <2>c. ask.asked \in Selection /\ ask.stable \in BOOLEAN
      BY ConsoleAssumption
    <2> DEFINE begun == [IdlePage EXCEPT !.at = "ensure", !.asked = ask.asked, !.stable = ask.stable]
    <2>b. /\ begun \in PageType /\ begun.at = "ensure" /\ begun.asked = ask.asked
          /\ begun.client = None
      BY <2>c, IdlePageFacts DEF PageType, Selection
    <2>a. page' = [page EXCEPT ![p] = begun]
      BY <2>1
    <2> HIDE DEF begun
    <2>2. /\ page' \in [Page -> PageType] /\ \A q \in Page \ {p} : page'[q] = page[q]
          /\ page'[p].at = "ensure" /\ page'[p].asked = ask.asked /\ page'[p].client = None
      BY <2>a, <2>b DEF TypeInv
    <2>3. PageOK(p)'
      BY <2>2, <2>c DEF PageOK
    <2>4. UNCHANGED <<registry, session, last, own, shown>>
      BY <1>1 DEF Start
    <2>5. \A q \in Page : PageOK(q)'
      BY <2>2, <2>3, <2>4, OnePage
    <2> QED
      BY <2>2, <2>4, <2>5 DEF TypeInv
  <1>2. ASSUME NEW p \in Page, EnsurePublicClient(p) PROVE TypeInv'
    <2> DEFINE id == ClientID(page[p].asked, page[p].stable)
    <2>1. /\ page[p].asked \in Selection /\ page[p].stable \in BOOLEAN /\ page[p].at = "ensure"
          /\ UNCHANGED <<session, last, own, shown>>
      BY <1>0, <1>2 DEF EnsurePublicClient, PageOK, PageType
    <2>2. id \in ClientIDs
      BY <2>1, ClientIDFacts
    <2>3. registry' \in {registry, Upserted(id, page[p].asked)}
      BY <1>2 DEF EnsurePublicClient
    <2>4. /\ registry' \in [ClientIDs -> PartyType]
          /\ \A o \in ClientIDs : registry[o].attrs # {} => registry'[o].attrs # {}
      BY <2>1, <2>2, <2>3, Keeps
    <2>5. CASE registry' = Upserted(id, page[p].asked) /\ page' = [page EXCEPT ![p].client = id, ![p].at = "bill"]
      <3>1. /\ page' \in [Page -> PageType] /\ \A q \in Page \ {p} : page'[q] = page[q]
            /\ page'[p].at = "bill" /\ page'[p].asked = page[p].asked
            /\ page'[p].stable = page[p].stable /\ page'[p].client = id
        <4> DEFINE next == [page[p] EXCEPT !.client = id, !.at = "bill"]
        <4> HIDE DEF id
        <4>1. /\ next \in PageType /\ next.at = "bill" /\ next.asked = page[p].asked
              /\ next.stable = page[p].stable /\ next.client = id
          BY <1>0, <2>2 DEF PageType
        <4>2. page' = [page EXCEPT ![p] = next]
          BY <2>5
        <4> HIDE DEF next
        <4> QED
          BY <4>1, <4>2 DEF TypeInv
      <3>2. registry'[id].attrs # {}
        BY <2>1, <2>2, <2>5, Writes DEF Selection
      <3>3. PageOK(p)'
        BY <2>1, <3>1, <3>2 DEF PageOK
      <3>4. \A q \in Page : PageOK(q)'
        BY <2>4, <3>1, <3>3, OnePage
      <3> QED
        BY <2>1, <2>4, <3>1, <3>4 DEF TypeInv
    <2>6. CASE Throws(p)
      BY <2>1, <2>4, <2>6, Stops DEF TypeInv
    <2> QED
      BY <1>2, <2>5, <2>6 DEF EnsurePublicClient
  <1>3. ASSUME NEW p \in Page, MakeBillable(p) PROVE TypeInv'
    <2>1. page[p].at = "bill" /\ UNCHANGED <<session, last, own, shown>>
      BY <1>3 DEF MakeBillable
    <2>2. page[p].client \in ClientIDs
      BY <1>0, <2>1, ClientIDFacts DEF PageOK, PageType
    <2>3. registry' \in {registry, Billed(page[p].client)}
      BY <1>3 DEF MakeBillable
    <2>4. /\ registry' \in [ClientIDs -> PartyType]
          /\ \A o \in ClientIDs : registry[o].attrs # {} => registry'[o].attrs # {}
      <3>1. page[p].asked \in Selection
        BY <1>0, <2>1 DEF PageOK
      <3> QED
        BY <2>2, <2>3, <3>1, Keeps
    <2>5. CASE Goes(p, "connect")
      <3>1. /\ page' \in [Page -> PageType] /\ \A q \in Page \ {p} : page'[q] = page[q]
            /\ page'[p].at = "connect" /\ page'[p].asked = page[p].asked
            /\ page'[p].stable = page[p].stable /\ page'[p].client = page[p].client
        BY <2>5 DEF TypeInv, PageType, Goes
      <3> QED
        BY <2>1, <2>4, <3>1, MovesOn DEF TypeInv
    <2>6. CASE Throws(p)
      BY <2>1, <2>4, <2>6, Stops DEF TypeInv
    <2> QED
      BY <1>3, <2>5, <2>6 DEF MakeBillable
  <1>4. ASSUME NEW p \in Page, Connect(p) PROVE TypeInv'
    <2>1. page[p].at = "connect" /\ UNCHANGED <<registry, session, last, own, shown>>
      BY <1>4 DEF Connect
    <2>2. page[p].client \in ClientIDs
      BY <1>0, <2>1, ClientIDFacts DEF PageOK, PageType
    <2>3. CASE session # None /\ page' = [page EXCEPT ![p].arrival = session.arrival, ![p].at = "report"]
      <3>1. session.arrival \in Arrival
        BY <2>3 DEF TypeInv, SessionType
      <3>2. /\ page' \in [Page -> PageType] /\ \A q \in Page \ {p} : page'[q] = page[q]
            /\ page'[p].at = "report" /\ page'[p].asked = page[p].asked
            /\ page'[p].stable = page[p].stable /\ page'[p].client = page[p].client
        BY <2>3, <3>1 DEF TypeInv, PageType
      <3> QED
        BY <2>1, <3>2, MovesOn DEF TypeInv
    <2>4. CASE page' = [page EXCEPT ![p].ceiling = registry[page[p].client].attrs, ![p].at = "ceremony"]
      <3>1. registry[page[p].client].attrs \in SUBSET Key
        BY <2>2 DEF TypeInv, PartyType
      <3>2. /\ page' \in [Page -> PageType] /\ \A q \in Page \ {p} : page'[q] = page[q]
            /\ page'[p].at = "ceremony" /\ page'[p].asked = page[p].asked
            /\ page'[p].stable = page[p].stable /\ page'[p].client = page[p].client
        BY <2>4, <3>1 DEF TypeInv, PageType
      <3> QED
        BY <2>1, <3>2, MovesOn DEF TypeInv
    <2>5. CASE Throws(p)
      BY <2>1, <2>5, Stops DEF TypeInv
    <2> QED
      BY <1>4, <2>3, <2>4, <2>5 DEF Connect
  <1>5. ASSUME NEW p \in Page, Ceremony(p) PROVE TypeInv'
    <2>1. page[p].at = "ceremony" /\ UNCHANGED <<registry, last, own, shown>>
      BY <1>5 DEF Ceremony
    <2>2. ASSUME NEW a \in Arrival,
                 session' = [covers |-> page[p].asked \cap page[p].ceiling, arrival |-> a],
                 page' = [page EXCEPT ![p].arrival = a, ![p].at = "report"]
          PROVE  TypeInv'
      <3>1. /\ page' \in [Page -> PageType] /\ \A q \in Page \ {p} : page'[q] = page[q]
            /\ page'[p].at = "report" /\ page'[p].asked = page[p].asked
            /\ page'[p].stable = page[p].stable /\ page'[p].client = page[p].client
        BY <2>2 DEF TypeInv, PageType
      <3>2. session' \in SessionType
        BY <1>0, <2>2 DEF SessionType, PageType
      <3> QED
        BY <2>1, <3>1, <3>2, MovesOn DEF TypeInv
    <2>3. CASE Throws(p) /\ UNCHANGED session
      BY <2>1, <2>3, Stops DEF TypeInv
    <2>4. \A admitted, billable : Brings(admitted, billable) \subseteq Arrival
      BY DEF Brings, Arrival
    <2> QED
      BY <1>5, <2>2, <2>3, <2>4 DEF Ceremony
  <1>6. ASSUME NEW p \in Page, HandleReport(p) PROVE TypeInv'
    <2>1. /\ page[p].at = "report" /\ last.number < MaxReports
          /\ own' = [own EXCEPT ![p] = last.number + 1]
          /\ last' = [number |-> last.number + 1, result |-> ConsoleResult(p)]
          /\ UNCHANGED <<registry, session, shown>>
      BY <1>6 DEF HandleReport, Reports
    <2>2. last.number + 1 \in 0..MaxReports
      BY <2>1, ConsoleAssumption DEF TypeInv
    <2>3. /\ last' \in [number : 0..MaxReports, result : ResultType \cup {None}]
          /\ own' \in [Page -> 0..MaxReports]
      BY <1>0, <2>1, <2>2, ResultFacts DEF TypeInv
    <2>4. CASE Goes(p, "reload")
      <3>1. /\ page' \in [Page -> PageType] /\ \A q \in Page \ {p} : page'[q] = page[q]
            /\ page'[p].at = "reload" /\ page'[p].asked = page[p].asked
            /\ page'[p].stable = page[p].stable /\ page'[p].client = page[p].client
        BY <2>4 DEF TypeInv, PageType, Goes
      <3> QED
        BY <2>1, <2>3, <3>1, MovesOn DEF TypeInv
    <2>5. CASE Throws(p)
      BY <2>1, <2>3, <2>5, Stops DEF TypeInv
    <2> QED
      BY <1>6, <2>4, <2>5 DEF HandleReport, Reports
  <1>7. ASSUME NEW p \in Page, ReportFails(p) PROVE TypeInv'
    <2>1. page[p].at = "report" /\ UNCHANGED <<registry, session, last, own, shown>>
      BY <1>7 DEF ReportFails
    <2>2. CASE Goes(p, "disabled")
      <3>1. /\ page' \in [Page -> PageType] /\ \A q \in Page \ {p} : page'[q] = page[q]
            /\ page'[p].at = "disabled" /\ page'[p].asked = page[p].asked
            /\ page'[p].stable = page[p].stable /\ page'[p].client = page[p].client
        BY <2>2 DEF TypeInv, PageType, Goes
      <3> QED
        BY <2>1, <3>1, MovesOn DEF TypeInv
    <2>3. CASE Throws(p)
      BY <2>1, <2>3, Stops DEF TypeInv
    <2> QED
      BY <1>7, <2>2, <2>3 DEF ReportFails
  <1>8. ASSUME NEW p \in Page, HandleIndex(p) PROVE TypeInv'
    <2>1. UNCHANGED <<registry, session, last, own>> /\ shown' \in [Page -> 0..MaxReports]
      BY <1>8 DEF HandleIndex, TypeInv
    <2> QED
      BY <1>8, <2>1, Stops DEF TypeInv, HandleIndex
  <1>9. CASE UNCHANGED vars
    BY <1>9 DEF vars, TypeInv, PageOK
  <1> QED
    BY <1>1, <1>2, <1>3, <1>4, <1>5, <1>6, <1>7, <1>8, <1>9 DEF Next

LEMMA TypeInvariant == Spec => []TypeInv
  BY InitType, NextType, PTL DEF Spec

\* Every variable keeps its type, and a page past its registration has a client that
\* is registered for at least one attribute.
THEOREM TypeCorrect == Spec => []TypeOK
  BY TypeInvariant, TypeInvImplies, PTL
(***************************************************************************)
(* What a step does to a page, and to the registry                         *)
(***************************************************************************)

\* How a step of its own changes page p.
Moves(p) ==
  \/ page'[p] = IdlePage
  \/ page'[p].at = "ensure" /\ page'[p].ceiling = None
  \/ /\ page[p].at = "ensure" /\ page'[p].at = "bill"
     /\ page'[p].ceiling = page[p].ceiling
  \/ /\ page'[p].asked = page[p].asked
     /\ page'[p].stable = page[p].stable
     /\ page'[p].client = page[p].client
     /\ \/ /\ page[p].at = "bill" /\ page'[p].at = "connect"
           /\ page'[p].ceiling = page[p].ceiling
           /\ registry'[page'[p].client].billable
        \/ /\ page[p].at = "connect" /\ page'[p].at = "ceremony"
           /\ page'[p].ceiling = registry[page[p].client].attrs
        \/ /\ page[p].at \in {"connect", "ceremony"} /\ page'[p].at = "report"
           /\ page'[p].ceiling = page[p].ceiling
        \/ /\ page[p].at = "report" /\ page'[p].at \in {"reload", "disabled"}
           /\ page'[p].ceiling = page[p].ceiling

\* How a step may change the registry.
Registers ==
  \/ registry' = registry
  \/ \E id \in ClientIDs : registry' = Billed(id)
  \/ \E asked \in Selection, stable \in BOOLEAN :
       registry' = Upserted(ClientID(asked, stable), asked)

LEMMA IdleMoves ==
  ASSUME TypeInv, NEW p \in Page, Throws(p) \/ page' = [page EXCEPT ![p] = IdlePage]
  PROVE  Moves(p) /\ \A q \in Page \ {p} : page'[q] = page[q]
  <1>1. page' = [page EXCEPT ![p] = IdlePage]
    BY DEF Throws
  <1> QED
    BY <1>1 DEF TypeInv, Moves

LEMMA Steps ==
  ASSUME TypeInv, Next
  PROVE  Registers /\ \E p \in Page : Moves(p) /\ \A q \in Page \ {p} : page'[q] = page[q]
  <1>0. \A p \in Page : page[p] \in PageType /\ PageOK(p)
    BY DEF TypeInv
  <1>1. ASSUME NEW p \in Page, Start(p)
        PROVE  Registers /\ Moves(p) /\ \A q \in Page \ {p} : page'[q] = page[q]
    <2>1. PICK ask \in Asks :
            page' = [page EXCEPT ![p] = [IdlePage EXCEPT !.at = "ensure", !.asked = ask.asked,
                                                         !.stable = ask.stable]]
      BY <1>1 DEF Start
    <2>c. ask.asked \in Selection /\ ask.stable \in BOOLEAN
      BY ConsoleAssumption
    <2> DEFINE begun == [IdlePage EXCEPT !.at = "ensure", !.asked = ask.asked, !.stable = ask.stable]
    <2>2. begun.at = "ensure" /\ begun.ceiling = None
      BY IdlePageFacts DEF PageType
    <2>3. page' = [page EXCEPT ![p] = begun]
      BY <2>1
    <2> HIDE DEF begun
    <2>4. page'[p] = begun /\ \A q \in Page \ {p} : page'[q] = page[q]
      BY <2>3 DEF TypeInv
    <2>5. Registers
      BY <1>1 DEF Start, Registers
    <2> QED
      BY <2>2, <2>4, <2>5 DEF Moves
  <1>2. ASSUME NEW p \in Page, EnsurePublicClient(p)
        PROVE  Registers /\ Moves(p) /\ \A q \in Page \ {p} : page'[q] = page[q]
    <2> DEFINE id == ClientID(page[p].asked, page[p].stable)
    <2>1. page[p].asked \in Selection /\ page[p].stable \in BOOLEAN /\ page[p].at = "ensure"
      BY <1>0, <1>2 DEF EnsurePublicClient, PageOK, PageType
    <2>2. registry' \in {registry, Upserted(id, page[p].asked)}
      BY <1>2 DEF EnsurePublicClient
    <2>3. Registers
      BY <2>1, <2>2 DEF Registers
    <2>4. CASE page' = [page EXCEPT ![p].client = id, ![p].at = "bill"]
      <3> HIDE DEF id
      <3>1. page' = [page EXCEPT ![p] = [page[p] EXCEPT !.client = id, !.at = "bill"]]
        BY <2>4 DEF TypeInv
      <3>2. /\ [page[p] EXCEPT !.client = id, !.at = "bill"].at = "bill"
            /\ [page[p] EXCEPT !.client = id, !.at = "bill"].ceiling = page[p].ceiling
        BY <1>0 DEF PageType
      <3>3. /\ page'[p].at = "bill" /\ page'[p].ceiling = page[p].ceiling
            /\ \A q \in Page \ {p} : page'[q] = page[q]
        BY <3>1, <3>2 DEF TypeInv
      <3> QED
        BY <2>1, <2>3, <3>3 DEF Moves
    <2>5. CASE Throws(p)
      BY <2>3, <2>5, IdleMoves
    <2> QED
      BY <1>2, <2>4, <2>5 DEF EnsurePublicClient
  <1>3. ASSUME NEW p \in Page, MakeBillable(p)
        PROVE  Registers /\ Moves(p) /\ \A q \in Page \ {p} : page'[q] = page[q]
    <2>1. page[p].at = "bill" /\ registry' \in {registry, Billed(page[p].client)}
      BY <1>3 DEF MakeBillable
    <2>2. page[p].client \in ClientIDs /\ page[p].asked \in Selection
      BY <1>0, <2>1, ClientIDFacts DEF PageOK, PageType
    <2>3. Registers
      BY <2>1, <2>2 DEF Registers
    <2>4. CASE registry' = Billed(page[p].client) /\ Goes(p, "connect")
      <3>1. /\ page'[p].at = "connect" /\ page'[p].asked = page[p].asked
            /\ page'[p].stable = page[p].stable /\ page'[p].client = page[p].client
            /\ page'[p].ceiling = page[p].ceiling
            /\ \A q \in Page \ {p} : page'[q] = page[q]
        BY <2>4 DEF TypeInv, PageType, Goes
      <3>2. registry'[page'[p].client].billable
        BY <2>2, <2>4, <3>1, Writes
      <3> QED
        BY <2>1, <2>3, <3>1, <3>2 DEF Moves
    <2>5. CASE Throws(p)
      BY <2>3, <2>5, IdleMoves
    <2> QED
      BY <1>3, <2>4, <2>5 DEF MakeBillable
  <1>4. ASSUME NEW p \in Page, Connect(p)
        PROVE  Registers /\ Moves(p) /\ \A q \in Page \ {p} : page'[q] = page[q]
    <2>1. page[p].at = "connect" /\ Registers
      BY <1>4 DEF Connect, Registers
    <2>2. CASE page' = [page EXCEPT ![p].arrival = session.arrival, ![p].at = "report"]
      <3>1. /\ page'[p].at = "report" /\ page'[p].asked = page[p].asked
            /\ page'[p].stable = page[p].stable /\ page'[p].client = page[p].client
            /\ page'[p].ceiling = page[p].ceiling
            /\ \A q \in Page \ {p} : page'[q] = page[q]
        BY <2>2 DEF TypeInv, PageType
      <3> QED
        BY <2>1, <3>1 DEF Moves
    <2>3. CASE page' = [page EXCEPT ![p].ceiling = registry[page[p].client].attrs, ![p].at = "ceremony"]
      <3>1. /\ page'[p].at = "ceremony" /\ page'[p].asked = page[p].asked
            /\ page'[p].stable = page[p].stable /\ page'[p].client = page[p].client
            /\ page'[p].ceiling = registry[page[p].client].attrs
            /\ \A q \in Page \ {p} : page'[q] = page[q]
        BY <2>3 DEF TypeInv, PageType
      <3> QED
        BY <2>1, <3>1 DEF Moves
    <2>4. CASE Throws(p)
      BY <2>1, <2>4, IdleMoves
    <2> QED
      BY <1>4, <2>2, <2>3, <2>4 DEF Connect
  <1>5. ASSUME NEW p \in Page, Ceremony(p)
        PROVE  Registers /\ Moves(p) /\ \A q \in Page \ {p} : page'[q] = page[q]
    <2>1. page[p].at = "ceremony" /\ Registers
      BY <1>5 DEF Ceremony, Registers
    <2>2. ASSUME NEW a, page' = [page EXCEPT ![p].arrival = a, ![p].at = "report"]
          PROVE  Registers /\ Moves(p) /\ \A q \in Page \ {p} : page'[q] = page[q]
      <3>1. /\ page'[p].at = "report" /\ page'[p].asked = page[p].asked
            /\ page'[p].stable = page[p].stable /\ page'[p].client = page[p].client
            /\ page'[p].ceiling = page[p].ceiling
            /\ \A q \in Page \ {p} : page'[q] = page[q]
        BY <2>2 DEF TypeInv, PageType
      <3> QED
        BY <2>1, <3>1 DEF Moves
    <2>3. CASE Throws(p)
      BY <2>1, <2>3, IdleMoves
    <2> QED
      BY <1>5, <2>2, <2>3 DEF Ceremony
  <1>6. ASSUME NEW p \in Page, NEW stage \in {"reload", "disabled"},
               page[p].at = "report", registry' = registry, Goes(p, stage) \/ Throws(p)
        PROVE  Registers /\ Moves(p) /\ \A q \in Page \ {p} : page'[q] = page[q]
    <2>1. Registers
      BY <1>6 DEF Registers
    <2>2. CASE Goes(p, stage)
      <3>1. /\ page'[p].at = stage /\ page'[p].asked = page[p].asked
            /\ page'[p].stable = page[p].stable /\ page'[p].client = page[p].client
            /\ page'[p].ceiling = page[p].ceiling
            /\ \A q \in Page \ {p} : page'[q] = page[q]
        BY <2>2 DEF TypeInv, PageType, Goes
      <3> QED
        BY <1>6, <2>1, <3>1 DEF Moves
    <2>3. CASE Throws(p)
      BY <2>1, <2>3, IdleMoves
    <2> QED
      BY <1>6, <2>2, <2>3
  <1>7. ASSUME NEW p \in Page, HandleReport(p) \/ ReportFails(p)
        PROVE  Registers /\ Moves(p) /\ \A q \in Page \ {p} : page'[q] = page[q]
    BY <1>6, <1>7 DEF HandleReport, ReportFails, Reports
  <1>8. ASSUME NEW p \in Page, HandleIndex(p)
        PROVE  Registers /\ Moves(p) /\ \A q \in Page \ {p} : page'[q] = page[q]
    BY <1>8, IdleMoves DEF HandleIndex, Registers
  <1> QED
    BY <1>1, <1>2, <1>3, <1>4, <1>5, <1>7, <1>8 DEF Next
(***************************************************************************)
(* The registry holds, under the id of a selection, that selection         *)
(***************************************************************************)

IdOK(id) == ~id.stepup => registry[id].attrs \in {{}, id.of}

\* A page has a ceiling only once it has been authorized, and it is its selection.
CeilingOK(p) ==
  page[p].ceiling # None =>
    /\ page[p].at \notin {"idle", "ensure", "bill", "connect"}
    /\ ~page[p].stable => page[p].ceiling = page[p].asked

BillOK(p) ==
  page[p].at \in {"connect", "ceremony", "report"} => registry[page[p].client].billable

LEMMA NextId == TypeInv /\ (\A id \in ClientIDs : IdOK(id)) /\ Registers
                  => \A id \in ClientIDs : IdOK(id)'
  <1> SUFFICES ASSUME TypeInv, \A id \in ClientIDs : IdOK(id), Registers, NEW o \in ClientIDs
               PROVE  IdOK(o)'
    OBVIOUS
  <1>0. IdOK(o) /\ Key \in SUBSET Key
    OBVIOUS
  <1>1. CASE registry' = registry
    BY <1>0, <1>1 DEF IdOK
  <1>2. ASSUME NEW id \in ClientIDs, registry' = Billed(id) PROVE IdOK(o)'
    <2>1. registry'[o].attrs = registry[o].attrs
      BY <1>2 DEF Billed, TypeInv, PartyType
    <2> QED
      BY <1>0, <2>1 DEF IdOK
  <1>3. ASSUME NEW asked \in Selection, NEW stable \in BOOLEAN,
               registry' = Upserted(ClientID(asked, stable), asked)
        PROVE  IdOK(o)'
    <2> DEFINE id == ClientID(asked, stable)
    <2>1. id \in ClientIDs /\ id.stepup = stable /\ (~stable => id.of = asked)
      BY ClientIDFacts
    <2>2. registry' = Upserted(id, asked)
      BY <1>3
    <2> HIDE DEF id
    <2>3. CASE o = id
      <3>1. registry'[o].attrs = asked
        BY <2>1, <2>2, <2>3, Writes
      <3> QED
        BY <2>1, <2>3, <3>1 DEF IdOK
    <2>4. CASE o # id
      <3>1. registry'[o] = registry[o]
        BY <2>1, <2>2, <2>4, Writes
      <3> QED
        BY <1>0, <3>1 DEF IdOK
    <2> QED
      BY <2>3, <2>4
  <1> QED
    BY <1>1, <1>2, <1>3 DEF Registers

\* Nothing that is billable stops being so.
LEMMA BillableStays ==
  ASSUME TypeInv, Registers, NEW o \in ClientIDs, registry[o].billable
  PROVE  registry'[o].billable
  <1>1. ASSUME NEW id \in ClientIDs, registry' = Billed(id) PROVE registry'[o].billable
    BY <1>1 DEF Billed, TypeInv, PartyType
  <1>2. ASSUME NEW asked \in Selection, NEW stable \in BOOLEAN,
               registry' = Upserted(ClientID(asked, stable), asked)
        PROVE  registry'[o].billable
    <2>1. ClientID(asked, stable) \in ClientIDs
      BY ClientIDFacts
    <2> QED
      BY <1>2, <2>1, Writes
  <1> QED
    BY <1>1, <1>2 DEF Registers

ClientInv ==
  /\ \A id \in ClientIDs : IdOK(id)
  /\ \A p \in Page : CeilingOK(p) /\ BillOK(p)

LEMMA InitClient == Init => ClientInv
  BY IdlePageFacts DEF Init, ClientInv, IdOK, CeilingOK, BillOK, Unregistered

LEMMA NextClient == TypeInv /\ ClientInv /\ [Next]_vars => ClientInv'
  <1> SUFFICES ASSUME TypeInv, ClientInv, [Next]_vars PROVE ClientInv'
    OBVIOUS
  <1>1. CASE UNCHANGED vars
    BY <1>1 DEF vars, ClientInv, IdOK, CeilingOK, BillOK
  <1>2. CASE Next
    <2>1. Registers
      BY <1>2, Steps
    <2>2. PICK p \in Page : Moves(p) /\ \A q \in Page \ {p} : page'[q] = page[q]
      BY <1>2, Steps
    <2>3. \A id \in ClientIDs : IdOK(id)'
      BY <2>1, NextId DEF ClientInv
    <2>4. /\ page[p] \in PageType /\ PageOK(p) /\ CeilingOK(p) /\ BillOK(p)
          /\ \A q \in Page : page[q].at \notin {"idle", "ensure"} => page[q].client \in ClientIDs
      <3>1. \A q \in Page : page[q] \in PageType /\ PageOK(q)
        BY DEF TypeInv
      <3> QED
        BY <3>1, ClientIDFacts DEF PageOK, PageType, ClientInv
    <2>5. ASSUME NEW q \in Page \ {p} PROVE CeilingOK(q)' /\ BillOK(q)'
      <3>1. CeilingOK(q) /\ BillOK(q) /\ page'[q] = page[q]
        BY <2>2 DEF ClientInv
      <3>2. CASE page[q].at \in {"connect", "ceremony", "report"}
        <4>1. page[q].client \in ClientIDs
          BY <2>4, <3>2
        <4>2. registry'[page[q].client].billable
          BY <2>1, <3>1, <3>2, <4>1, BillableStays DEF BillOK
        <4> QED
          BY <3>1, <4>2 DEF CeilingOK, BillOK
      <3>3. CASE page[q].at \notin {"connect", "ceremony", "report"}
        BY <3>1, <3>3 DEF CeilingOK, BillOK
      <3> QED
        BY <3>2, <3>3
    <2>6. CeilingOK(p)' /\ BillOK(p)'
      <3>1. CASE page'[p] = IdlePage
        BY <3>1, IdlePageFacts DEF CeilingOK, BillOK
      <3>2. CASE page'[p].at = "ensure" /\ page'[p].ceiling = None
        BY <3>2 DEF CeilingOK, BillOK
      <3>3. CASE page[p].at = "ensure" /\ page'[p].at = "bill" /\ page'[p].ceiling = page[p].ceiling
        BY <2>4, <3>3 DEF CeilingOK, BillOK
      <3>4. CASE /\ page[p].at = "bill" /\ page'[p].at = "connect"
                 /\ page'[p].ceiling = page[p].ceiling
                 /\ registry'[page'[p].client].billable
        BY <2>4, <3>4 DEF CeilingOK, BillOK
      <3>5. CASE /\ page'[p].asked = page[p].asked
                 /\ page'[p].stable = page[p].stable
                 /\ page'[p].client = page[p].client
                 /\ page[p].at = "connect" /\ page'[p].at = "ceremony"
                 /\ page'[p].ceiling = registry[page[p].client].attrs
        <4>1. page[p].client \in ClientIDs
          BY <2>4, <3>5
        <4>2. registry'[page[p].client].billable
          BY <2>1, <2>4, <3>5, <4>1, BillableStays DEF BillOK
        <4>3. ASSUME ~page[p].stable PROVE registry[page[p].client].attrs = page[p].asked
          <5>1. /\ page[p].client = ClientID(page[p].asked, page[p].stable)
                /\ registry[page[p].client].attrs # {}
                /\ page[p].asked \in Selection /\ page[p].stable \in BOOLEAN
            BY <2>4, <3>5 DEF PageOK, PageType
          <5>2. ~page[p].client.stepup /\ page[p].client.of = page[p].asked
            BY <4>3, <5>1, ClientIDFacts
          <5>3. IdOK(page[p].client)
            BY <4>1 DEF ClientInv
          <5> QED
            BY <5>1, <5>2, <5>3 DEF IdOK
        <4> QED
          BY <3>5, <4>2, <4>3 DEF CeilingOK, BillOK
      <3>6. CASE /\ page'[p].asked = page[p].asked
                 /\ page'[p].stable = page[p].stable
                 /\ page'[p].client = page[p].client
                 /\ page[p].at \in {"connect", "ceremony"} /\ page'[p].at = "report"
                 /\ page'[p].ceiling = page[p].ceiling
        <4>1. page[p].client \in ClientIDs
          BY <2>4, <3>6
        <4>2. registry'[page[p].client].billable
          BY <2>1, <2>4, <3>6, <4>1, BillableStays DEF BillOK
        <4> QED
          BY <2>4, <3>6, <4>2 DEF CeilingOK, BillOK
      <3>7. CASE /\ page'[p].asked = page[p].asked
                 /\ page'[p].stable = page[p].stable
                 /\ page[p].at = "report" /\ page'[p].at \in {"reload", "disabled"}
                 /\ page'[p].ceiling = page[p].ceiling
        BY <2>4, <3>7 DEF CeilingOK, BillOK
      <3> QED
        BY <2>2, <3>1, <3>2, <3>3, <3>4, <3>5, <3>6, <3>7 DEF Moves
    <2> QED
      BY <2>3, <2>5, <2>6 DEF ClientInv
  <1> QED
    BY <1>1, <1>2

LEMMA ClientInvariant == Spec => [](TypeInv /\ ClientInv)
  <1>1. Init => TypeInv /\ ClientInv
    BY InitType, InitClient
  <1>2. TypeInv /\ ClientInv /\ [Next]_vars => (TypeInv /\ ClientInv)'
    BY NextType, NextClient
  <1> QED
    BY <1>1, <1>2, PTL DEF Spec

\* With the ids the README describes, a ceremony runs under a whitelist of exactly
\* the attributes its page selected, whatever the other pages do.
THEOREM CeilingIsSelection == Spec => []SelectionIsTheCeiling
  <1>1. ClientInv => SelectionIsTheCeiling
    BY DEF ClientInv, CeilingOK, SelectionIsTheCeiling
  <1> QED
    BY <1>1, ClientInvariant, PTL

\* A client that a page was given can pay for a disclosure.
THEOREM ClientsPay == Spec => []HandedOutIsBillable
  <1>1. ClientInv => HandedOutIsBillable
    BY DEF ClientInv, BillOK, HandedOutIsBillable
  <1> QED
    BY <1>1, ClientInvariant, PTL

(***************************************************************************)
(* Reports                                                                 *)
(***************************************************************************)

OwnInv == \A p \in Page : own[p] <= last.number

LEMMA InitOwn == Init => OwnInv
  BY DEF Init, OwnInv

LEMMA NextOwn == TypeInv /\ OwnInv /\ [Next]_vars => OwnInv'
  <1> SUFFICES ASSUME TypeInv, OwnInv, [Next]_vars, NEW q \in Page PROVE (own[q] <= last.number)'
    BY DEF OwnInv
  <1>1. own[q] \in Nat /\ last.number \in Nat /\ own[q] <= last.number
    BY ConsoleAssumption DEF TypeInv, OwnInv
  <1>2. CASE own' = own /\ last' = last
    BY <1>1, <1>2
  <1>3. ASSUME NEW p \in Page, HandleReport(p) PROVE (own[q] <= last.number)'
    <2>1. own' = [own EXCEPT ![p] = last.number + 1] /\ last'.number = last.number + 1
      BY <1>3 DEF HandleReport, Reports
    <2>2. own'[q] = IF q = p THEN last.number + 1 ELSE own[q]
      BY <2>1 DEF TypeInv
    <2> QED
      BY <1>1, <2>1, <2>2
  <1> QED
    BY <1>2, <1>3 DEF Next, vars, Start, EnsurePublicClient, MakeBillable, Connect, Ceremony,
                      ReportFails, HandleIndex

LEMMA OwnInvariant == Spec => [](TypeInv /\ OwnInv)
  <1>1. Init => TypeInv /\ OwnInv
    BY InitType, InitOwn
  <1>2. TypeInv /\ OwnInv /\ [Next]_vars => (TypeInv /\ OwnInv)'
    BY NextType, NextOwn
  <1> QED
    BY <1>1, <1>2, PTL DEF Spec

\* A page that reloads after its report shows that report or a later one.
THEOREM OwnReportShown == Spec => OwnReportIsShown
  <1>1. TypeInv /\ OwnInv /\ [Next]_vars =>
          [\A p \in Page : page[p].at = "reload" /\ page'[p].at # "reload" => shown'[p] >= own[p]]_vars
    <2> SUFFICES ASSUME TypeInv, OwnInv, Next, NEW q \in Page,
                        page[q].at = "reload", page'[q].at # "reload"
                 PROVE  shown'[q] >= own[q]
      OBVIOUS
    <2>1. own[q] \in Nat /\ last.number \in Nat /\ own[q] <= last.number
      BY ConsoleAssumption DEF TypeInv, OwnInv
    <2>2. ASSUME NEW p \in Page, page[p].at # "reload",
                 Start(p) \/ EnsurePublicClient(p) \/ MakeBillable(p) \/ Connect(p) \/ Ceremony(p)
                   \/ HandleReport(p) \/ ReportFails(p)
          PROVE  page'[q] = page[q]
      BY <2>2 DEF TypeInv, Start, EnsurePublicClient, MakeBillable, Connect, Ceremony,
                  HandleReport, ReportFails, Reports, Goes, Throws
    <2>3. ASSUME NEW p \in Page, HandleIndex(p) PROVE shown'[q] >= own[q]
      <3>1. page' = [page EXCEPT ![p] = IdlePage] /\ shown' = [shown EXCEPT ![p] = last.number]
        BY <2>3 DEF HandleIndex
      <3>2. p = q
        BY <3>1 DEF TypeInv
      <3>3. shown'[q] = last.number
        BY <3>1, <3>2 DEF TypeInv
      <3> QED
        BY <2>1, <3>3
    <2>4. ASSUME NEW p \in Page,
                 Start(p) \/ EnsurePublicClient(p) \/ MakeBillable(p) \/ Connect(p) \/ Ceremony(p)
                   \/ HandleReport(p) \/ ReportFails(p)
          PROVE  page[p].at # "reload"
      BY <2>4 DEF Start, EnsurePublicClient, MakeBillable, Connect, Ceremony, HandleReport,
                  ReportFails, Reports
    <2> QED
      BY <2>2, <2>3, <2>4 DEF Next
  <1> QED
    BY <1>1, OwnInvariant, PTL DEF Spec, OwnReportIsShown

\* A report's verdict is right, key by key, whatever arrived.
THEOREM VerdictsAreTrue == Spec => ReportIsWhatArrived
  <1> DEFINE Verdict(p) ==
        LET asked == page[p].asked
            a == page[p].arrival
            claimed == {k \in asked : a[k].claim # "absent"}
            got == claimed \cup {k \in Key : a[k].disclosure # "absent"}
        IN
        /\ page[p].at = "report" /\ page'[p].at # "report"
        /\ last'.result.missing = asked \ got
        /\ {c.key : c \in last'.result.received} = got
        /\ \A c \in last'.result.received :
             /\ c.issued <=> c.key \notin claimed
             /\ c.form = "enclave-signed disclosure" <=>
                  "vc" = IF c.issued THEN a[c.key].disclosure ELSE a[c.key].claim
  <1>1. ASSUME TypeInv, NEW p \in Page, HandleReport(p) PROVE Verdict(p)
    <2>1. page[p] \in PageType /\ page[p].asked \in SUBSET Key /\ page[p].arrival \in Arrival
      BY <1>1 DEF TypeInv, PageType
    <2>2. last'.result = ConsoleResult(p)
      BY <1>1 DEF HandleReport
    <2>3. page[p].at = "report" /\ page'[p].at # "report"
      <3>1. Goes(p, "reload") \/ Throws(p)
        BY <1>1 DEF HandleReport, Reports
      <3> QED
        BY <1>1, <3>1, IdlePageFacts DEF HandleReport, Reports, Goes, Throws, TypeInv, PageType
    <2>4. /\ last'.result.received = Received(page[p].asked, page[p].arrival)
          /\ last'.result.missing =
               page[p].asked \ {c.key : c \in Received(page[p].asked, page[p].arrival)}
      BY <2>1, <2>2, ResultFacts
    <2> DEFINE asked == page[p].asked
               a == page[p].arrival
               claimed == {k \in asked : a[k].claim # "absent"}
               got == claimed \cup {k \in Key : a[k].disclosure # "absent"}
    <2>5. /\ {c.key : c \in Received(asked, a)} = got
          /\ \A c \in Received(asked, a) :
               /\ c.issued <=> c.key \notin claimed
               /\ c.form = "enclave-signed disclosure" <=>
                    "vc" = IF c.issued THEN a[c.key].disclosure ELSE a[c.key].claim
      BY <2>1, Analysed
    <2>6. last'.result.missing = asked \ got
      BY <2>4, <2>5
    <2> QED
      BY <2>3, <2>4, <2>5, <2>6
  <1>2. TypeInv /\ [Next]_vars =>
          [last'.number # last.number => \E p \in Page : Verdict(p)]_vars
    <2> SUFFICES ASSUME TypeInv, Next, last'.number # last.number PROVE \E p \in Page : Verdict(p)
      OBVIOUS
    <2>1. \E p \in Page : HandleReport(p)
      BY DEF Next, Start, EnsurePublicClient, MakeBillable, Connect, Ceremony, ReportFails,
             HandleIndex
    <2> HIDE DEF Verdict
    <2> QED
      BY <1>1, <2>1
  <1> QED
    BY <1>2, TypeInvariant, PTL DEF Spec, ReportIsWhatArrived
=============================================================================
