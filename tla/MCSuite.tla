------------------------------ MODULE MCSuite ------------------------------
(***************************************************************************)
(* Referentials for TLC: two pairs of a self-asserted key and its          *)
(* government twin, a document field of its own, and ways to get the       *)
(* relations between them wrong.  Command lines for Startup, and stores of *)
(* the CLI with logins for several endpoints.                              *)
(***************************************************************************)
EXTENDS Suite, TLC

SelfKey(k, scope, twin) ==
  [key |-> k, scope |-> scope, gov |-> FALSE, requestOnly |-> FALSE,
   govKey |-> twin, certifies |-> None, row |-> None]
GovKey(k, certified) ==
  [key |-> k, scope |-> "identity", gov |-> TRUE, requestOnly |-> TRUE,
   govKey |-> None, certifies |-> certified, row |-> "named"]

Birthdate == SelfKey(1, "profile", 2)
BirthdateID == GovKey(2, 1)
GivenName == SelfKey(4, "profile", 5)
GivenNameID == GovKey(5, 4)
Portrait == GovKey(8, None)
FreeKeys == {SelfKey(3, "email", None), SelfKey(6, "profile", None), SelfKey(7, "profile", None)}

Whole == FreeKeys \cup {Birthdate, BirthdateID, GivenName, GivenNameID, Portrait}

MCReferentials ==
  {{}, Whole,
   FreeKeys \cup {GivenName, GivenNameID},
   FreeKeys,
   (Whole \ {Birthdate}) \cup {[Birthdate EXCEPT !.row = "named"]},
   (Whole \ {GivenNameID}) \cup {[GivenNameID EXCEPT !.row = None]},
   (Whole \ {GivenNameID}) \cup {[GivenNameID EXCEPT !.certifies = 9]},
   (Whole \ {Portrait}) \cup {[Portrait EXCEPT !.row = "bare"]}}

Valid(endpoint) == [for |-> endpoint, valid |-> TRUE]
Flags ==
  [serve |-> FALSE, json |-> FALSE, endpoint |-> None, prod |-> FALSE,
   token |-> None, env |-> None, admin |-> FALSE]

\* The token on the command line.
MCTokenOnly == {[Flags EXCEPT !.token = Valid(dev)]}

\* Every way to come by a token, for either endpoint and either command.
MCCommands ==
  {Flags,
   [Flags EXCEPT !.endpoint = prod],
   [Flags EXCEPT !.token = Valid(dev), !.env = Valid(prod), !.json = TRUE],
   [Flags EXCEPT !.env = Valid(dev), !.prod = TRUE],
   [Flags EXCEPT !.serve = TRUE, !.admin = TRUE],
   [Flags EXCEPT !.serve = TRUE, !.token = Valid(dev)]}

Login(endpoint, access, renewable) == [for |-> endpoint, access |-> access, renewable |-> renewable]

\* What -run can select: everything, nothing, one case by its name, and those whose
\* names contain "whitelist", "key", "attribute", "price", "registry" or "token".
MCSelections ==
  {CaseNames, {}} \cup {{c} : c \in CaseNames} \cup
    {{"ceiling", "scopeGate", "tokenFilter"}, {"scopeGate", "named"},
     {"emptyRefused", "twoTiers", "pricedRows", "selfAsserted", "unknownDropped"},
     {"pricedRows", "quote", "grant"}, {"quote", "grant"}, {"selfAsserted", "tokenFilter"}}

MCNoStore == {<<>>}
MCStores ==
  {<<>>, <<Login(dev, "expired", TRUE)>>, <<Login(dev, "empty", FALSE)>>,
   <<Login(prod, "valid", TRUE), Login(dev, "expired", TRUE)>>}
=============================================================================
