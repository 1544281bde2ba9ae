----------------------------- MODULE MCHoldings -----------------------------
EXTENDS Holdings, TLC

\* Histories.  overlapped: two requests were ever under way at once.  ragged: a
\* request failed, or a sync had no balance to write.  relinked: the accounts that
\* were linked again while linked.
VARIABLES overlapped, ragged, relinked
histories == <<overlapped, ragged, relinked>>

CONSTANTS MaxRequests  \* bound
VARIABLE requests

MCInit == Init /\ overlapped = FALSE /\ ragged = FALSE /\ relinked = {} /\ requests = 0

\* Assets are inserted in one order: which comes first makes no difference.
InOrder ==
  \A x \in Assets : asset[x] = None /\ asset'[x] # None => x = CHOOSE y \in Assets : asset[y] = None

MCNext ==
  /\ \/ /\ Report \/ ChangeTier \/ \E s \in Sessions : create_investment_link_token(s)
        /\ UNCHANGED <<histories, requests>>
     \/ \E w \in Workers :
          \/ /\ requests < MaxRequests /\ requests' = requests + 1
             /\ Starting(w)
             /\ overlapped' = (overlapped \/ \E v \in Workers : req[v] # Idle)
             /\ UNCHANGED <<ragged, relinked>>
          \/ /\ Advancing(w)
             /\ relinked' = relinked \union
                  {a \in Accounts : account[a] # None /\ account[a].status = "active"
                                     /\ account'[a].item # account[a].item}
             /\ UNCHANGED <<overlapped, ragged, requests>>
          \/ /\ Fails(w) \/ BalanceNotReported(w)
             /\ ~ ragged /\ ragged' = TRUE
             /\ UNCHANGED <<overlapped, relinked, requests>>
  /\ InOrder

MCSpec == MCInit /\ [][MCNext]_<<vars, histories, requests>>

\* "Close the assets this Item backed so the projection stops counting them": what
\* an active asset counts is of an account that is linked, whatever a sync or a
\* classification under way does after the disconnection.
CountedIsLinked ==
  \A x \in Assets :
    asset[x] # None /\ asset[x].status = "active" /\ (asset[x].holdings # None \/ asset[x].balance # None)
      => account[asset[x].of].status = "active" \/ asset[x].of \in relinked

\* "The unique implied asset-per-linked-account invariant", which no constraint
\* keeps when two classifications overlap; and the holdings and the balance of an
\* asset are of one snapshot, though written in two transactions.
OneSnapshotAlone ==
  /\ ~ overlapped => \A a \in Accounts : Cardinality(AssetsOf(a)) <= 1
  /\ ~ overlapped /\ ~ ragged /\ (\A w \in Workers : req[w] = Idle)
       => \A x \in Assets : asset[x] # None => asset[x].holdings = asset[x].balance
=============================================================================
