----------------------------- MODULE MCRecords ------------------------------
(***************************************************************************)
(* Records that several requests write at once, for TLC: the duplicates of *)
(* a ledger (DuplicateMatch, whose names are used as they are), its limit  *)
(* alerts (LimitAlerts) and the credentials of a user (Identity).  None of *)
(* them reads what another writes, so a behaviour shows one, chosen at     *)
(* first; the variables of the others are None, or empty.                  *)
(***************************************************************************)
EXTENDS MCDuplicateMatch

CONSTANTS MaxRequests,
          Users, Categories, Amounts, Limits, Budget, MaxTroubles,
          Ids, Batches, Slots

VARIABLES part,
          spent, limit, alert, check, told, fresh, clean, crowded, requests, troubles,
          user, used_ids, creds, code, flow, opened, issued, sessions, request,
          erased, resetting, settled, enrolled, cut, begun

\* One set of model values names the ledger's rows and the ceremonies, which lets
\* the parts share their symmetries.
Alerts == INSTANCE MCLimitAlerts WITH Workers <- Worker, overlapped <- crowded
Credentials == INSTANCE MCIdentity
  WITH Workers <- Worker, Flows <- Row, MaxRequests <- MaxRequests + 4, req <- request,
       spent <- enrolled, requests <- begun

ASSUME RecordsAssumption ==
  Alerts!LimitAlertsAssumption /\ Alerts!SumsAssumption /\ Credentials!IdentityAssumption

InterchangeableRecords == Interchangeable \union Permutations(Categories)

ledgerVars == <<vars, overlapped, disturbed>>
alertVars == <<spent, limit, alert, check, told, fresh, clean, crowded, requests, troubles>>
credentialVars ==
  <<user, used_ids, creds, code, flow, opened, issued, sessions, request,
    erased, resetting, settled, enrolled, cut, begun>>

NoLedger ==
  /\ born = {} /\ live = {} /\ row = None /\ match = None /\ req = None
  /\ approvals = None /\ deletions = None /\ settlements = None
  /\ overlapped = None /\ disturbed = None
NoAlerts ==
  /\ spent = None /\ limit = None /\ alert = None /\ check = None /\ told = None
  /\ fresh = None /\ clean = None /\ crowded = None /\ requests = None /\ troubles = None
NoCredentials ==
  /\ user = None /\ used_ids = None /\ creds = None /\ code = None /\ flow = None
  /\ opened = None /\ issued = None /\ sessions = None /\ request = None
  /\ erased = None /\ resetting = None /\ settled = None /\ enrolled = None
  /\ cut = None /\ begun = None

RecordsInit ==
  \/ part = "ledger" /\ MCInit /\ NoAlerts /\ NoCredentials
  \/ part = "alerts" /\ NoLedger /\ Alerts!MCInit /\ NoCredentials
  \/ part = "credentials" /\ NoLedger /\ NoAlerts /\ Credentials!MCInit

RecordsNext ==
  /\ UNCHANGED part
  /\ \/ part = "ledger" /\ MCNext /\ UNCHANGED <<alertVars, credentialVars>>
     \/ part = "alerts" /\ Alerts!MCNext /\ UNCHANGED <<ledgerVars, credentialVars>>
     \/ part = "credentials" /\ Credentials!MCNext /\ UNCHANGED <<ledgerVars, alertVars>>

RecordsSpec ==
  RecordsInit /\ [][RecordsNext]_<<part, ledgerVars, alertVars, credentialVars>>

RecordsTypeOK ==
  /\ part = "ledger" => TypeOK
  /\ part = "alerts" => Alerts!TypeOK
  /\ part = "credentials" => Credentials!TypeOK

\* What the matcher promises while requests do not overlap, or nothing edits.
MatchedRightAlone ==
  part = "ledger" =>
    /\ LinkShape
    /\ OneImportPerTwinAlone
    /\ PairLinkedUndisturbed
    /\ ExcludedUnlinkedUndisturbed

\* The promises of LimitAlerts and Identity, of the behaviours that show them.
AlertsFollowChecks == part = "alerts" => Alerts!AlertsFollowChecks
SurfacedOnlyWhenWorse == [][part = "alerts" => Alerts!SurfacedIfWorse]_alertVars
WayInAlone == part = "credentials" => Credentials!WayInAlone
ResetHoldsAlone == part = "credentials" => Credentials!ResetHoldsAlone
ErasedForGood == part = "credentials" => Credentials!ErasedForGood
=============================================================================
