----------------------------- MODULE MCBankLink -----------------------------
(***************************************************************************)
(* The check of BankLink.  granted holds what a completion has linked: the *)
(* authorizations through which accounts were imported.  disturbed is TRUE *)
(* once two requests overlapped, or a provider's report of an earlier end  *)
(* reached a row whose account it serves again; failed once a completion   *)
(* was cut off halfway.  Bound: a behaviour has only one of the two.       *)
(***************************************************************************)
EXTENDS BankLink

VARIABLES granted, disturbed, failed

MCvars == <<vars, granted, disturbed, failed>>

MCInit == Init /\ granted = {} /\ disturbed = FALSE /\ failed = FALSE

Overlap == \E v, w \in Worker : v # w /\ req[v] # Idle /\ req[w] # Idle

LateReport ==
  \E i \in DOMAIN rows \intersect DOMAIN rows' :
    /\ rows[i].status = "active" /\ rows'[i].status = "disconnected"
    /\ req' = req /\ Serves(rows[i].pid, rows[i].ref)

\* Bound: of two requests that overlap, one at most is a completion.
OneCompletion == Cardinality({w \in Worker : req[w].op = "complete"}) <= 1

MCNext ==
  /\ Next /\ OneCompletion'
  /\ granted' = granted \union
       {req[w].pair : w \in {v \in Worker : Linking(v) /\ req'[v] # req[v] /\ req'[v] # Idle}}
  /\ disturbed' = (disturbed \/ Overlap' \/ LateReport)
  /\ failed' = (failed \/ \E w \in Worker : req[w].op = "complete" /\ Fails(w))
  /\ ~ (disturbed' /\ failed')

MCSpec == MCInit /\ [][MCNext]_MCvars

\* The row stands for the authorization, and can still be disconnected.
Holds(i, p) ==
  rows[i].status # "disconnected" /\ (rows[i].ref = p[1] \/ rows[i].pid = Pid(p))

Held == \A p \in granted \intersect live : \E i \in DOMAIN rows : Holds(i, p)

\* "a failed Stripe call must never leave us believing an account is
\* disconnected when Stripe still considers it live", and "never delete the
\* account while a live bank authorization survives with no local record":
\* whatever was linked and is still served has a row to disconnect.  Akahu's
\* token is never revoked, and GoCardless's disconnect needs fresh account ids.
HeldAlone ==
  ~ disturbed /\ provider # "akahu" /\ (provider = "gocardless" => ~ stable) => Held

\* "ends the bank-side consent": GoCardless's disconnect, whatever its ids.
GoCardlessHeld == provider = "gocardless" => Held

\* A completion reports accounts of the budget it was asked for.
ReportedHereAlone ==
  ~ disturbed =>
    \A w \in Worker : req[w].op = "complete" =>
      \A i \in req[w].done \intersect DOMAIN rows : rows[i].budget = budget[req[w].s]

\* "would silently break every other linked account": to disconnect one account
\* of Stripe, Basiq or Akahu leaves the other active ones with their provider.
SiblingsSparedAlone ==
  [][~ disturbed' /\ provider \in {"stripe", "basiq", "akahu"} =>
       \A w \in Worker : req[w].op = "revoke" /\ req'[w].op = "flip" =>
         \A i \in DOMAIN rows \ {req[w].row} :
           rows[i].status = "active" /\ Serves(rows[i].pid, rows[i].ref)
             => Serves(rows[i].pid, rows[i].ref)']_MCvars
=============================================================================
