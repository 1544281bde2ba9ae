--------------------------- MODULE MCLimitAlerts ---------------------------
EXTENDS LimitAlerts, TLC

\* Histories.  told[u, s]: the level u's alerts of s stand at since a check of it
\* that nothing disturbed, or "unknown".  fresh: those whose figures have not
\* changed since.  clean: the requests whose current scope is so far undisturbed.
\* overlapped: two requests were ever under way at once.
VARIABLES told, fresh, clean, overlapped

histories == <<told, fresh, clean, overlapped>>

\* Bounds: requests, and quiet changes, dismissals and failures.
CONSTANTS MaxRequests, MaxTroubles
VARIABLES requests, troubles
bounds == <<requests, troubles>>
Pairs == Users \X Scopes

Past(w, u, s) == check[w].at \in {"spent", "clear", "raise"} /\ check[w].user = u /\ Scope(w) = s
Rivals(w) == {v \in Workers \ {w} : Past(v, check[w].user, Scope(w))}
Pair(w) == <<check[w].user, Scope(w)>>

Touched == {c \in Categories : spent'[c] # spent[c] \/ limit'[c] # limit[c]}
Moved == {p \in Pairs : p[2] \in Touched \/ (p[2] = Budget /\ Touched # {})}

\* A scope is clean from its first read to its last write if its figures did
\* not change, no rival reconciled it, and no statement failed.
Begins(w) == ReadCategory(w) \/ ReadBudgetLimit(w)
Writes(w) ==
  \/ check[w].at = "clear" /\ \A l \in stale_limit_keys(check[w].level) : alert'[<<check[w].user, Scope(w), l>>] = None
  \/ check[w].at = "raise" /\ alert'[KeyOf(w)] = Refreshed(w)
Ends(w) == (ClearStale(w) \/ RaiseAlert(w)) /\ check'[w].at # "raise"

\* Every category starts with a limit.
MCInit ==
  /\ Init /\ 0 \notin {limit[c] : c \in Categories}
  /\ told = [p \in Pairs |-> None] /\ fresh = Pairs /\ clean = {} /\ overlapped = FALSE
  /\ requests = 0 /\ troubles = 0

Quietly ==
  /\ fresh' = fresh \ Moved
  /\ clean' = {w \in clean : Pair(w) \notin Moved}
  /\ UNCHANGED told

Disturb(ps) ==
  /\ told' = [p \in Pairs |-> IF p \in ps THEN "unknown" ELSE told[p]]
  /\ fresh' = fresh \ ps

Step(w) ==
  \/ /\ Begins(w)
     /\ clean' = IF Rivals(w) = {} THEN clean \union {w} ELSE clean \ Rivals(w)
     /\ UNCHANGED <<told, fresh>>
  \/ ReadBudgetSpent(w) /\ UNCHANGED <<told, fresh, clean>>
  \/ /\ ClearStale(w) \/ RaiseAlert(w)
     /\ Writes(w)
     /\ IF w \in clean
          THEN IF Ends(w) THEN /\ told' = [told EXCEPT ![Pair(w)] = check[w].level]
                               /\ fresh' = fresh \union {Pair(w)}
                               /\ clean' = clean \ {w}
               ELSE UNCHANGED <<told, fresh, clean>>
          ELSE Disturb({Pair(w)}) /\ clean' = clean \ {w}

Fails(w) ==
  \/ /\ ReadFails(w) \/ CutOff(w)
     /\ IF check[w].at = "raise" THEN Disturb({Pair(w)}) ELSE UNCHANGED <<told, fresh>>
     /\ clean' = clean \ {w}
  \/ /\ ClearStale(w) \/ RaiseAlert(w)
     /\ ~ Writes(w)
     /\ Disturb({Pair(w)}) /\ clean' = clean \ {w}

Request ==
  /\ requests < MaxRequests /\ requests' = requests + 1
  /\ \E w \in Workers, u \in Users, c \in Categories :
       Spend(w, u, c) \/ \E d \in Categories : Move(w, u, c, d)
  /\ Quietly
  /\ overlapped' = (overlapped \/ \E w \in Workers : check[w] # Idle)

Trouble ==
  /\ troubles < MaxTroubles /\ troubles' = troubles + 1
  /\ \/ \E c \in Categories : ChangeQuietly(c) /\ Quietly
     \/ \E k \in Keys : Dismiss(k) /\ Disturb({<<k[1], k[2]>>}) /\ UNCHANGED clean
     \/ \E w \in Workers : Fails(w)

MCNext ==
  \/ Request /\ UNCHANGED troubles
  \/ Trouble /\ UNCHANGED <<requests, overlapped>>
  \/ \E w \in Workers : Step(w) /\ UNCHANGED <<bounds, overlapped>>

MCSpec == MCInit /\ [][MCNext]_<<vars, histories, bounds>>

AlertsOf(p) == [l \in Levels |-> alert[<<p[1], p[2], l>>]]
Due(s) == [l \in Levels |-> IF LevelNow(s) = l THEN Of(spent, s) ELSE None]

\* A request clears what is stale and refreshes the message "to the current
\* figure" (#388): after a check that nothing disturbed, and until the figures
\* move again, a scope has the alert of its level, with the figure of now, and no
\* other.  With one request at a time and no trouble that goes for every scope.
AlertsFollowChecks ==
  /\ \A p \in fresh : told[p] # "unknown" => AlertsOf(p) = Due(p[2])
  /\ troubles = 0 /\ ~ overlapped /\ (\A w \in Workers : check[w] = Idle)
       => \A s \in Scopes : \E u \in Users : AlertsOf(<<u, s>>) = Due(s)

Severity(lev) == IF lev = "exceeded" THEN 2 ELSE IF lev = "approaching" THEN 1 ELSE 0

\* A message is surfaced only when the scope got worse since the user was last
\* told: neither a refresh nor an improvement is shown again.
SurfacedIfWorse ==
  \A w \in Workers :
    RaiseAlert(w) /\ w \in clean /\ told[Pair(w)] # "unknown" /\ Surfaces(w)
      => Severity(check[w].level) > Severity(told[Pair(w)])
=============================================================================
