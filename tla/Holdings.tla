------------------------------ MODULE Holdings ------------------------------
(***************************************************************************)
(* Investment accounts of one user (backend/src/plaid_investments.rs and   *)
(* the writers of assets.rs): linking in two requests, the classification  *)
(* that makes an asset of an account, the sync of its holdings by refresh, *)
(* poll and classification, and the disconnection of a Plaid Item.  Plaid  *)
(* is external: its figures are numbered snapshots, an Item serves until   *)
(* it is removed, and any call may fail.                                   *)
(***************************************************************************)
EXTENDS Naturals, FiniteSets

CONSTANTS Accounts,     \* provider_account_id
          Items,        \* Plaid Items, with their access token
          Assets,       \* ids of the table assets
          Sessions,     \* investment_link_sessions
          Workers,      \* requests and polls
          MaxSnapshot,  \* bound on the vendor's figures
          None

Snapshots == 0 .. MaxSnapshot
Figure == Snapshots \union {None}
Rows == [item : Items, status : {"active", "disconnected"}]
AssetRows == [of : Accounts, status : {"active", "closed"}, holdings : Figure, balance : Figure]

HoldingsAssumption == MaxSnapshot \in Nat /\ None \notin Rows \union AssetRows \union Nat

VARIABLES serving,   \* external: the Items that Plaid serves
          granted,   \* external: the Items it has ever granted
          snapshot,  \* external: the latest figures of every account
          pro,       \* the caller's tier is Pro
          session,   \* "none", "pending" or "completed"
          account,   \* linked_accounts: None, or its Item and status
          asset,     \* assets: None, or its account, status and figures
          req

plaid == <<serving, granted, snapshot>>
vars == <<plaid, pro, session, account, asset, req>>

Idle == [at |-> "idle"]
Polled == Accounts \X Items   \* what a poll remembers of each row

TypeOK ==
  /\ serving \subseteq granted /\ granted \subseteq Items /\ snapshot \in Snapshots
  /\ pro \in BOOLEAN /\ session \in [Sessions -> {"none", "pending", "completed"}]
  /\ account \in [Accounts -> Rows \union {None}]
  /\ asset \in [Assets -> AssetRows \union {None}]
  /\ req \in [Workers -> {Idle} \union
       [at : {"exchange"}] \union
       [at : {"store"}, item : Items, todo : SUBSET Accounts] \union
       [at : {"insert"}, of : Accounts, item : Items] \union
       [at : {"poll"}, todo : SUBSET Polled] \union
       [at : {"fetch"}, of : Accounts, item : Items, asset : Assets, todo : SUBSET Polled] \union
       [at : {"holdings", "balance"}, of : Accounts, item : Items, asset : Assets,
        todo : SUBSET Polled, got : Snapshots] \union
       [at : {"remove", "disconnect"}, item : Items]]

Init ==
  /\ serving = {} /\ granted = {} /\ snapshot = 0
  /\ pro = TRUE /\ session = [s \in Sessions |-> "none"]
  /\ account = [a \in Accounts |-> None]
  /\ asset = [x \in Assets |-> None]
  /\ req = [w \in Workers |-> Idle]

Put(w, state) == req' = [req EXCEPT ![w] = state]
End(w) == Put(w, Idle)
AssetsOf(a) == {x \in Assets : asset[x] # None /\ asset[x].of = a}
Active(a) == {x \in AssetsOf(a) : asset[x].status = "active"}

\* The markets move, and subscriptions begin and lapse.
Report == snapshot < MaxSnapshot /\ snapshot' = snapshot + 1
          /\ UNCHANGED <<serving, granted, pro, session, account, asset, req>>
ChangeTier == pro' = ~ pro /\ UNCHANGED <<plaid, session, account, asset, req>>

-----------------------------------------------------------------------------
(* Linking *)

create_investment_link_token(s) ==
  /\ pro /\ session[s] = "none"
  /\ session' = [session EXCEPT ![s] = "pending"]
  /\ UNCHANGED <<plaid, pro, account, asset, req>>

\* complete_investment_link claims the session at once ...
ClaimSession(w, s) ==
  /\ req[w] = Idle /\ pro
  /\ session[s] = "pending" /\ session' = [session EXCEPT ![s] = "completed"]
  /\ Put(w, [at |-> "exchange"])
  /\ UNCHANGED <<plaid, pro, account, asset>>

\* ... exchanges the token for a new Item and lists the accounts the user chose,
\* which may be linked already ...
Exchange(w) ==
  /\ req[w].at = "exchange"
  /\ \E i \in Items \ granted, chosen \in (SUBSET Accounts) \ {{}} :
       /\ granted' = granted \union {i} /\ serving' = serving \union {i}
       /\ Put(w, [at |-> "store", item |-> i, todo |-> chosen])
  /\ UNCHANGED <<snapshot, pro, session, account, asset>>

\* ... and upserts them one by one.
StoreAccount(w, a) ==
  /\ req[w].at = "store" /\ a \in req[w].todo
  /\ account' = [account EXCEPT ![a] = [item |-> req[w].item, status |-> "active"]]
  /\ IF req[w].todo = {a} THEN End(w) ELSE Put(w, [req[w] EXCEPT !.todo = @ \ {a}])
  /\ UNCHANGED <<plaid, pro, session, asset>>

-----------------------------------------------------------------------------
(* Classification *)

\* The account may be disconnected; an asset of it, active or closed, is enough.
classify(w, s, a) ==
  /\ req[w] = Idle /\ pro
  /\ session[s] = "completed" /\ account[a] # None
  /\ IF AssetsOf(a) # {} THEN UNCHANGED req
     ELSE Put(w, [at |-> "insert", of |-> a, item |-> account[a].item])
  /\ UNCHANGED <<plaid, pro, session, account, asset>>

\* No constraint makes the asset of an account unique.  Its first sync follows.
insert_asset(w) ==
  /\ req[w].at = "insert"
  /\ \E x \in Assets :
       /\ asset[x] = None
       /\ asset' = [asset EXCEPT ![x] =
            [of |-> req[w].of, status |-> "active", holdings |-> None, balance |-> None]]
       /\ Put(w, [at |-> "fetch", of |-> req[w].of, item |-> req[w].item, asset |-> x, todo |-> {}])
  /\ UNCHANGED <<plaid, pro, session, account>>

-----------------------------------------------------------------------------
(* Refresh and poll *)

refresh_investment_account(w, a) ==
  /\ req[w] = Idle /\ pro
  /\ account[a] # None /\ account[a].status = "active"
  /\ \E x \in Active(a) :
       Put(w, [at |-> "fetch", of |-> a, item |-> account[a].item, asset |-> x, todo |-> {}])
  /\ UNCHANGED <<plaid, pro, session, account, asset>>

\* The poll reads every row it will sync, tokens included ...
poll_investment_accounts(w) ==
  LET rows == {<<a, account[a].item>> : a \in
                 {b \in Accounts : account[b] # None /\ account[b].status = "active" /\ Active(b) # {}}}
  IN /\ req[w] = Idle /\ rows # {}
     /\ Put(w, [at |-> "poll", todo |-> rows])
     /\ UNCHANGED <<plaid, pro, session, account, asset>>

\* ... and when its turn comes asks whether the owner is Pro and the asset active.
PollNext(w) ==
  /\ req[w].at = "poll"
  /\ \E row \in req[w].todo :
       LET rest == req[w].todo \ {row}
       IN IF pro /\ Active(row[1]) # {}
            THEN \E x \in Active(row[1]) :
                   Put(w, [at |-> "fetch", of |-> row[1], item |-> row[2], asset |-> x, todo |-> rest])
            ELSE IF rest = {} THEN End(w) ELSE Put(w, [at |-> "poll", todo |-> rest])
  /\ UNCHANGED <<plaid, pro, session, account, asset>>

-----------------------------------------------------------------------------
(* sync_investment_holdings *)

AfterSync(w) == IF req[w].todo = {} THEN End(w) ELSE Put(w, [at |-> "poll", todo |-> req[w].todo])

Fetch(w) ==
  /\ req[w].at = "fetch" /\ req[w].item \in serving
  /\ Put(w, [at |-> "holdings", of |-> req[w].of, item |-> req[w].item, asset |-> req[w].asset,
             todo |-> req[w].todo, got |-> snapshot])
  /\ UNCHANGED <<plaid, pro, session, account, asset>>

\* One transaction, of an asset in whatever state.  (Two at once on rows of their
\* own making break a unique index, and one of them fails.)
replace_holdings_for_asset(w) ==
  /\ req[w].at = "holdings"
  /\ asset' = [asset EXCEPT ![req[w].asset].holdings = req[w].got]
  /\ Put(w, [req[w] EXCEPT !.at = "balance"])
  /\ UNCHANGED <<plaid, pro, session, account>>

\* Bug to catch: a balance once reported is kept.
KeepBalance(w) == IF asset[req[w].asset].balance = None THEN req[w].got ELSE asset[req[w].asset].balance

Reported(w) == req[w].got

\* Another transaction.
update_reported_balance(w) ==
  /\ req[w].at = "balance"
  /\ asset' = [asset EXCEPT ![req[w].asset].balance = Reported(w)]
  /\ AfterSync(w)
  /\ UNCHANGED <<plaid, pro, session, account>>

\* The response has no balance for the account: the one it had stays.
BalanceNotReported(w) ==
  /\ req[w].at = "balance"
  /\ AfterSync(w)
  /\ UNCHANGED <<plaid, pro, session, account, asset>>

-----------------------------------------------------------------------------
(* disconnect_investment_account *)

ReadAccount(w, a) ==
  /\ req[w] = Idle /\ account[a] # None
  /\ Put(w, [at |-> "remove", item |-> account[a].item])
  /\ UNCHANGED <<plaid, pro, session, account, asset>>

\* Plaid first: a failed call, and one for an Item that is gone, ends the request.
RemoveItem(w) ==
  /\ req[w].at = "remove"
  /\ req[w].item \in serving /\ serving' = serving \ {req[w].item}
  /\ Put(w, [req[w] EXCEPT !.at = "disconnect"])
  /\ UNCHANGED <<granted, snapshot, pro, session, account, asset>>

\* Bug to catch: the rows are marked and their assets stay in the projection.
ClosesNothing(rows) == asset

Closes(rows) ==
  [x \in Assets |-> IF asset[x] # None /\ asset[x].of \in rows
                      THEN [asset[x] EXCEPT !.status = "closed"] ELSE asset[x]]

\* Then every row of the Item and every asset of those rows, in a transaction.
DisconnectItem(w) ==
  LET rows == {a \in Accounts : account[a] # None /\ account[a].item = req[w].item}
  IN /\ req[w].at = "disconnect"
     /\ account' = [a \in Accounts |->
          IF a \in rows THEN [account[a] EXCEPT !.status = "disconnected"] ELSE account[a]]
     /\ asset' = Closes(rows)
     /\ End(w)
     /\ UNCHANGED <<plaid, pro, session>>

\* A call or statement fails, or the process stops; a poll goes on to the next row.
Fails(w) ==
  /\ req[w] # Idle
  /\ IF req[w].at \in {"fetch", "holdings", "balance"} THEN AfterSync(w) \/ End(w) ELSE End(w)
  /\ UNCHANGED <<plaid, pro, session, account, asset>>

Starting(w) ==
  \/ \E s \in Sessions : ClaimSession(w, s) \/ \E a \in Accounts : classify(w, s, a)
  \/ \E a \in Accounts : refresh_investment_account(w, a) \/ ReadAccount(w, a)
  \/ poll_investment_accounts(w)

Advancing(w) ==
  \/ Exchange(w) \/ insert_asset(w) \/ PollNext(w) \/ RemoveItem(w) \/ DisconnectItem(w)
  \/ \E a \in Accounts : StoreAccount(w, a)
  \/ Fetch(w) \/ replace_holdings_for_asset(w) \/ update_reported_balance(w)

Next ==
  \/ Report \/ ChangeTier
  \/ \E s \in Sessions : create_investment_link_token(s)
  \/ \E w \in Workers : Starting(w) \/ Advancing(w) \/ BalanceNotReported(w) \/ Fails(w)

Spec == Init /\ [][Next]_vars

=============================================================================
