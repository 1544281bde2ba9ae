--------------------------- MODULE MCSharedBudget ---------------------------
EXTENDS SharedBudget, TLC

CONSTANTS MaxRequests, MaxChanges
VARIABLES requests, changes

\* Histories of each request under way: the most its caller could ever do to its
\* budget, the most the caller was given on a parent whose link was cut under the
\* check that had read it, whether the owner was ever paid up and the budget ever
\* open, and whether a grant changed while a budget was being chosen.
VARIABLES could, lent, paid, open, shaken
histories == <<could, lent, paid, open, shaken>>

\* What the sharing rules say a user may do, in their own words.
Shares(u, b, level) == share[<<b, u>>] >= level
MayDo(u, b) ==
  IF u = Owner[b] THEN Full
  ELSE IF \/ Shares(u, b, Edit)
          \/ parent[b] # None /\ (u = Owner[parent[b]] \/ Shares(u, parent[b], Edit))
    THEN Edit
  ELSE IF Shares(u, b, View) \/ (parent[b] # None /\ Shares(u, parent[b], View)) THEN View
  ELSE NoAccess

About(w) == req[w] # Idle /\ req[w].budget # None

\* A check that holds a parent which its budget has left since.
Torn(w) ==
  /\ req[w].at \in {"direct", "inherited"}
  /\ req[w].link \notin {None, parent[req[w].budget]}
Borrowed(w) ==
  IF Owner[req[w].link] = req[w].user THEN Edit ELSE DirectLevel(req[w].user, req[w].link)

\* A chat turn is choosing its budget: the preferred one, or else the default.
Choosing(w) == req[w].at \in {"look", "direct", "inherited"} /\ req[w].ask \in {"prefer", "resolved"}

MCInit ==
  /\ Init
  /\ \E b \in Budgets, u \in Users, level \in {NoAccess, Edit} :
       /\ parent[b] = None
       /\ share = [p \in Budgets \X Users |-> IF p = <<b, u>> THEN level ELSE NoAccess]
  /\ default = [u \in Users |-> IF OwnedBy(u) = {} THEN None ELSE CHOOSE b \in OwnedBy(u) : TRUE]
  /\ requests = 0 /\ changes = 0
  /\ could = [w \in Workers |-> NoAccess] /\ lent = [w \in Workers |-> NoAccess]
  /\ paid = {} /\ open = {} /\ shaken = {}

\* The histories go on while a request is about one budget, and start over with it.
Kept(w) == About(w) /\ About(w)' /\ req'[w].budget = req[w].budget
Watch ==
  /\ could' = [w \in Workers |->
       IF ~ About(w)' THEN NoAccess
       ELSE Max({MayDo(req[w].user, req[w].budget)'} \union (IF Kept(w) THEN {could[w]} ELSE {}))]
  /\ lent' = [w \in Workers |->
       Max({NoAccess} \union (IF Kept(w) THEN {lent[w]} ELSE {})
                      \union (IF Torn(w)' THEN {Borrowed(w)'} ELSE {}))]
  /\ paid' = {w \in Workers : About(w)' /\ (Owner[req'[w].budget] \notin lapsed' \/ (Kept(w) /\ w \in paid))}
  /\ open' = {w \in Workers : About(w)' /\ (req'[w].budget \notin closed' \/ (Kept(w) /\ w \in open))}
  /\ shaken' = {w \in Workers : Choosing(w)' /\ (w \in shaken \/ grants' # grants)}

MCNext ==
  /\ \/ \E w \in Workers : Step(w) /\ UNCHANGED <<requests, changes>>
     \/ /\ requests < MaxRequests /\ requests' = requests + 1 /\ UNCHANGED changes
        /\ \E w \in Workers, u \in Users :
             ChatResolve(w, u) \/ \E b \in Budgets, op \in Ops : RestCheck(w, u, b, op)
     \/ /\ changes < MaxChanges /\ changes' = changes + 1 /\ UNCHANGED requests
        /\ \/ \E u \in Users : ToggleLapsed(u)
           \/ \E b \in Budgets : Unrollup(b) \/ \E p \in Budgets : Rollup(b, p)
  /\ Watch

MCSpec == MCInit /\ [][MCNext]_<<vars, histories, requests, changes>>

\* However long a turn took and whatever changed meanwhile, a write is one its
\* caller could have made at some moment of the request: with the permission the
\* sharing rules gave, the owner paid up and, for a record, the budget open.  One
\* thing more is let through, since a permission is read in several statements: a
\* check whose budget left its parent half way may go by the caller's share of that
\* parent, given before or after the cut.  That is Edit at most: no owner's operation
\* ever rests on it.
WriteWasAllowed ==
  \A w \in Workers :
    Write(w) /\ req[w].op # "switch" =>
      /\ could[w] >= required_perm(req[w].op) \/ lent[w] >= required_perm(req[w].op)
      /\ required_perm(req[w].op) = Full => could[w] = Full
      /\ w \in paid
      /\ req[w].op = "record" => w \in open

\* A turn that names no budget falls back to one the user can see: it is refused
\* only if a grant changed while the budget was chosen and checked.
FallsBackUnshaken ==
  \A w \in Workers :
    /\ ReadBudget(w) \/ ReadDirect(w) \/ ReadInherited(w)
    /\ req[w].ask = "resolved" /\ req'[w] = Idle
    => w \in shaken
=============================================================================
