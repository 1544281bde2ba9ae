---------------------------- MODULE LedgerProofs -----------------------------
(***************************************************************************)
(* Proofs about a ledger that other hands change, for any transactions,    *)
(* categories, workers and bounds.  Of PlaidSync: what holds however syncs *)
(* overlap (NothingSkipped, ChoicesSurvive), and that syncs which do not   *)
(* overlap leave a mirror of the bank (CaughtUpAlone).  Of AutoCategory:   *)
(* what requests that come one at a time keep (ReclaimedAlone,             *)
(* CategoriesSparedAlone).                                                 *)
(***************************************************************************)
EXTENDS MCLedger, TLAPS

-----------------------------------------------------------------------------
(* The bank *)

\* Of the first k changes, the i-th is the last about p.
Speaks(i, p, k) == i \in 1..k /\ log[i].tx = p /\ \A j \in (i + 1)..k : log[j].tx # p
Seen(p, k) == \E i \in 1..k : log[i].tx = p
Retracted(p) == \E i \in DOMAIN log : log[i].tx = p /\ log[i].kind = "removed"

\* A transaction is added first, then corrected, then retracted for good.
BankSound ==
    /\ \A p \in Ptx : Known(p) => \E i \in DOMAIN log : Speaks(i, p, Len(log))
    /\ \A i \in DOMAIN log : log[i].kind = "removed" <=> log[i].look = None
    /\ \A i, j \in DOMAIN log : i < j /\ log[i].tx = log[j].tx =>
          log[i].kind # "removed" /\ log[j].kind # "added"

\* What the bank says of a transaction is its last change about it.
LEMMA LatestSpeaks ==
    ASSUME log \in Seq(Change), BankSound, NEW p \in Ptx, Known(p)
    PROVE  Speaks(Latest(p), p, Len(log)) /\ AtBank(p) = log[Latest(p)].look
<1>1. PICK i \in DOMAIN log : Speaks(i, p, Len(log))
  BY DEF BankSound
<1>2. /\ Latest(p) \in DOMAIN log
      /\ log[Latest(p)].tx = p
      /\ \A j \in (Latest(p) + 1)..Len(log) : log[j].tx # p
  BY <1>1 DEF Latest, Speaks
<1> QED BY <1>2 DEF Speaks, AtBank

\* A transaction the bank still has was never retracted.
LEMMA StillThere ==
    ASSUME log \in Seq(Change), BankSound, NEW p \in Ptx, AtBank(p) # None
    PROVE  Known(p) /\ ~Retracted(p)
<1>1. Known(p)
  BY DEF AtBank
<1>2. Speaks(Latest(p), p, Len(log)) /\ log[Latest(p)].look # None
  BY <1>1, LatestSpeaks
<1>3. SUFFICES ASSUME NEW i \in DOMAIN log, log[i].tx = p, log[i].kind = "removed"
               PROVE  FALSE
  BY <1>1 DEF Retracted
<1>4. i <= Latest(p)
  BY <1>2, <1>3 DEF Speaks
<1>5. i = Latest(p)
  BY <1>2, <1>3, <1>4 DEF Speaks, BankSound
<1> QED BY <1>2, <1>3, <1>5 DEF BankSound

\* What the log has said stays said, and a new change is one the bank may make.
LEMMA BankStepSound ==
    ASSUME TypeOK, BankSound, Bank
    PROVE  /\ log' \in Seq(Change) /\ Len(log') = Len(log) + 1 /\ Len(log') <= MaxLog
           /\ \A i \in DOMAIN log : log'[i] = log[i]
           /\ BankSound'
           /\ \A p \in Ptx : Retracted(p) => Retracted(p)'
           /\ \A p \in Ptx : ~Retracted(p)' => ~Retracted(p)
           /\ \A p \in Ptx, k \in 0..Len(log) :
                 log'[Len(log')].tx = p /\ Seen(p, k) => log'[Len(log')].kind # "added"
           /\ UNCHANGED <<ledger, saved, accountVars, sync, touched>>
<1>1. PICK kind \in {"added", "modified", "removed"}, p \in Ptx, look \in Look \cup {None} :
         /\ BankChange(kind, p, look)
         /\ kind = "removed" <=> look = None
         /\ kind = "added" <=> ~Known(p)
         /\ kind # "added" => AtBank(p) # None
  BY NoneAssumption DEF Bank, BankAdds, BankModifies, BankRetracts, AtBank
<1> DEFINE c == [kind |-> kind, tx |-> p, look |-> look]
           n == Len(log) + 1
<1>2. /\ log \in Seq(Change) /\ c \in Change /\ log' = Append(log, c) /\ Len(log) < MaxLog
  BY <1>1 DEF BankChange, TypeOK, Change
<1>3. /\ log' \in Seq(Change) /\ Len(log') = n /\ n \in Nat \ {0} /\ DOMAIN log' = 1..n /\ DOMAIN log = 1..(n - 1)
      /\ \A i \in DOMAIN log : log'[i] = log[i]
      /\ log'[n] = c
  BY <1>2
<1> HIDE DEF n
<1>4. c.kind = kind /\ c.tx = p /\ c.look = look
  OBVIOUS
<1> HIDE DEF c
<1>5. \A i \in DOMAIN log : log[i].tx = p => log[i].kind # "removed" /\ kind # "added"
  <2>1. CASE ~Known(p)
    BY <2>1 DEF Known
  <2>2. CASE Known(p)
    BY <1>1, <1>2, <2>2, StillThere DEF Retracted
  <2> QED BY <2>1, <2>2
<1>6. BankSound'
  <2>1. (\A q \in Ptx : Known(q) => \E i \in DOMAIN log : Speaks(i, q, Len(log)))'
    <3> SUFFICES ASSUME NEW q \in Ptx, Known(q)'
                 PROVE  \E i \in 1..n : (log'[i].tx = q /\ \A j \in (i + 1)..n : log'[j].tx # q)
      BY <1>3 DEF Speaks
    <3>1. CASE q = p
      <4>1. n \in 1..n /\ log'[n].tx = q /\ \A j \in (n + 1)..n : log'[j].tx # q
        BY <1>3, <1>4, <3>1
      <4> QED BY <4>1
    <3>2. CASE q # p
      <4>1. Known(q)
        BY <1>3, <1>4, <3>2 DEF Known
      <4>2. PICK i \in DOMAIN log : Speaks(i, q, Len(log))
        BY <4>1 DEF BankSound
      <4>3. /\ i \in 1..n /\ log'[i].tx = q
            /\ \A j \in (i + 1)..n : j \in DOMAIN log \/ j = n
        BY <4>2, <1>3 DEF Speaks
      <4>4. \A j \in (i + 1)..n : log'[j].tx # q
        <5> TAKE j \in (i + 1)..n
        <5>1. CASE j = n
          BY <5>1, <1>3, <1>4, <3>2
        <5>2. CASE j # n
          BY <5>2, <4>2, <4>3, <1>3 DEF Speaks
        <5> QED BY <5>1, <5>2
      <4> QED BY <4>3, <4>4
    <3> QED BY <3>1, <3>2
  <2>2. (\A i \in DOMAIN log : log[i].kind = "removed" <=> log[i].look = None)'
    BY <1>1, <1>3, <1>4 DEF BankSound
  <2>3. (\A i, j \in DOMAIN log : i < j /\ log[i].tx = log[j].tx =>
            log[i].kind # "removed" /\ log[j].kind # "added")'
    BY <1>3, <1>4, <1>5 DEF BankSound
  <2> QED BY <2>1, <2>2, <2>3 DEF BankSound
<1>7. \A q \in Ptx : Retracted(q) => Retracted(q)'
  BY <1>3 DEF Retracted
<1>8. UNCHANGED <<ledger, saved, accountVars, sync, touched>>
  BY <1>1 DEF BankChange
<1>9. \A q \in Ptx, k \in 0..Len(log) :
          log'[Len(log')].tx = q /\ Seen(q, k) => log'[Len(log')].kind # "added"
  BY <1>3, <1>4, <1>5 DEF Seen, n
<1>10. n <= MaxLog
  BY <1>2, BoundAssumption DEF n
<1> QED BY <1>3, <1>6, <1>7, <1>8, <1>9, <1>10 DEF n

-----------------------------------------------------------------------------
(* However syncs overlap *)

\* Every untouched transaction among the first k changes is in the ledger or retracted.
Reached(k) == \A p \in Ptx \ touched : Seen(p, k) /\ ~Retracted(p) => ledger[p] # None

\* What a page that is being applied holds, and what is done once it is empty.
Fetched(w) ==
    /\ sync[w].todo \subseteq {log[i] : i \in DOMAIN log}
    /\ sync[w].next # None => sync[w].next <= Len(log)
    /\ sync[w].at = "apply" /\ sync[w].next # None =>
          \A p \in Ptx \ touched :
             Seen(p, sync[w].next) /\ ~Retracted(p) =>
                ledger[p] # None \/ \E e \in sync[w].todo : e.tx = p

NothingLost ==
    /\ TypeOK
    /\ BankSound
    /\ Reached(saved)
    /\ \A w \in Worker : sync[w].cursor <= Len(log) /\ Reached(sync[w].cursor) /\ Fetched(w)

LEMMA NothingLostInit ==
    ASSUME Init
    PROVE  NothingLost
<1>1. /\ log = << >> /\ log \in Seq(Change) /\ Len(log) = 0 /\ DOMAIN log = {}
      /\ saved = 0 /\ touched = {}
  BY DEF Init
<1>2. Idle \in Sync /\ Idle.cursor = 0 /\ Idle.todo = {} /\ Idle.next = None /\ Idle.at = "idle"
  BY BoundAssumption DEF Idle, Sync
<1>3. \A w \in Worker : sync[w] = Idle
  BY DEF Init
<1>4. TypeOK
  <2>1. Len(log) <= MaxLog /\ saved \in 0..Len(log)
    BY <1>1, BoundAssumption
  <2>2. ledger \in [Ptx -> Row \cup {None}] /\ sync \in [Worker -> Sync]
    BY <1>2 DEF Init
  <2> QED BY <1>1, <2>1, <2>2 DEF Init, TypeOK
<1>5. BankSound
  BY <1>1 DEF BankSound, Known
<1>6. Reached(0)
  BY DEF Reached, Seen
<1>7. \A w \in Worker : Fetched(w)
  BY <1>2, <1>3 DEF Fetched
<1> QED BY <1>1, <1>2, <1>3, <1>4, <1>5, <1>6, <1>7 DEF NothingLost

LEMMA NothingLostBank ==
    ASSUME NothingLost, Bank
    PROVE  NothingLost'
<1>1. TypeOK /\ BankSound
  BY DEF NothingLost
<1>2. /\ log' \in Seq(Change) /\ Len(log') = Len(log) + 1 /\ Len(log') <= MaxLog
      /\ \A i \in DOMAIN log : log'[i] = log[i]
      /\ BankSound'
      /\ \A p \in Ptx : Retracted(p) => Retracted(p)'
      /\ UNCHANGED <<ledger, saved, accountVars, sync, touched>>
  BY <1>1, BankStepSound
<1>3. log \in Seq(Change) /\ DOMAIN log = 1..Len(log) /\ Len(log) \in Nat /\ DOMAIN log' = 1..Len(log')
  BY <1>1, <1>2 DEF TypeOK
<1>4. TypeOK'
  BY <1>1, <1>2, <1>3 DEF TypeOK, accountVars
<1>5. \A p \in Ptx, k \in 0..Len(log) : Seen(p, k)' <=> Seen(p, k)
  BY <1>2, <1>3 DEF Seen
<1>6. \A k \in 0..Len(log) : Reached(k) => Reached(k)'
  BY <1>2, <1>5 DEF Reached
<1>7. saved \in 0..Len(log) /\ \A w \in Worker : sync[w] \in Sync
  BY <1>1 DEF TypeOK
<1>8. \A w \in Worker : Fetched(w)'
  <2> TAKE w \in Worker
  <2>1. Fetched(w) /\ sync'[w] = sync[w]
    BY <1>2 DEF NothingLost
  <2>2. sync[w].next \in Nat \cup {None}
    BY <1>7 DEF Sync
  <2>3. (sync[w].todo \subseteq {log[i] : i \in DOMAIN log})'
    BY <2>1, <1>2, <1>3 DEF Fetched
  <2>4. CASE sync[w].next = None
    BY <2>1, <2>3, <2>4 DEF Fetched
  <2>5. CASE sync[w].next # None
    <3>1. sync[w].next \in 0..Len(log)
      BY <2>1, <2>2, <2>5, <1>3 DEF Fetched
    <3> QED BY <2>1, <2>3, <3>1, <1>2, <1>3, <1>5 DEF Fetched
  <2> QED BY <2>4, <2>5
<1>9. \A w \in Worker : (sync[w].cursor <= Len(log) /\ Reached(sync[w].cursor))'
  <2> TAKE w \in Worker
  <2>1. sync[w].cursor \in 0..Len(log) /\ Reached(sync[w].cursor)
    BY <1>3, <1>7 DEF NothingLost, Sync
  <2> QED BY <2>1, <1>2, <1>3, <1>6
<1>10. Reached(saved)'
  BY <1>2, <1>6, <1>7 DEF NothingLost
<1> QED BY <1>2, <1>4, <1>8, <1>9, <1>10 DEF NothingLost

\* The steps of a sync on a page, and those that touch no page.
LEMMA NothingLostSync ==
    ASSUME NothingLost, NEW w \in Worker, Syncing(w) \/ Abort(w)
    PROVE  NothingLost'
<1>1. /\ TypeOK /\ BankSound /\ Reached(saved)
      /\ log \in Seq(Change) /\ DOMAIN log = 1..Len(log) /\ Len(log) \in Nat /\ Len(log) <= MaxLog
      /\ saved \in 0..Len(log) /\ MaxLog \in Nat
      /\ sync \in [Worker -> Sync] /\ ledger \in [Ptx -> Row \cup {None}]
  BY BoundAssumption DEF NothingLost, TypeOK
<1>2. /\ sync[w] \in Sync /\ sync[w].cursor \in 0..Len(log)
      /\ Reached(sync[w].cursor) /\ Fetched(w)
  BY <1>1 DEF NothingLost, Sync
<1>3. Idle \in Sync /\ Idle.cursor = 0 /\ Idle.todo = {} /\ Idle.next = None /\ Idle.at = "idle"
  BY BoundAssumption DEF Idle, Sync
\* A step that leaves log and ledger alone and moves one sync, soundly.
<1>4. ASSUME UNCHANGED <<log, ledger, status, closed, touched>>,
             saved' \in {saved, sync[w].cursor},
             NEW s \in Sync, Become(w, s), s.cursor \in 0..Len(log), Reached(s.cursor),
             s.todo \subseteq {log[i] : i \in DOMAIN log},
             s.next # None => s.next <= Len(log),
             s.at = "apply" /\ s.next # None =>
                \A p \in Ptx \ touched :
                   Seen(p, s.next) /\ ~Retracted(p) =>
                      ledger[p] # None \/ \E e \in s.todo : e.tx = p
      PROVE  NothingLost'
  <2>1. sync' \in [Worker -> Sync] /\ sync'[w] = s /\ \A v \in Worker \ {w} : sync'[v] = sync[v]
    BY <1>1, <1>4 DEF Become
  <2>2. saved' \in 0..Len(log) /\ Reached(saved')
    BY <1>1, <1>2, <1>4
  <2>3. TypeOK'
    BY <1>1, <1>4, <2>1, <2>2 DEF TypeOK
  <2>4. BankSound'
    BY <1>1, <1>4 DEF BankSound, Known, Speaks
  <2>5. \A k : Reached(k) => Reached(k)'
    BY <1>4 DEF Reached, Seen, Retracted
  <2>6. Reached(saved)'
    BY <2>2, <1>4 DEF Reached, Seen, Retracted
  <2>7. ASSUME NEW v \in Worker
        PROVE  (sync[v].cursor <= Len(log) /\ Reached(sync[v].cursor) /\ Fetched(v))'
    <3>1. CASE v = w
      <4>1. (sync[v].cursor <= Len(log) /\ Reached(sync[v].cursor))'
        BY <1>4, <2>1, <2>5, <3>1 DEF Reached, Seen, Retracted
      <4>2. Fetched(v)'
        BY <1>4, <2>1, <3>1 DEF Fetched, Seen, Retracted
      <4> QED BY <4>1, <4>2
    <3>2. CASE v # w
      <4>1. sync'[v] = sync[v] /\ sync[v].cursor <= Len(log) /\ Reached(sync[v].cursor) /\ Fetched(v)
        BY <2>1, <3>2 DEF NothingLost
      <4> QED BY <4>1, <1>4 DEF Fetched, Reached, Seen, Retracted
    <3> QED BY <3>1, <3>2
  <2> QED BY <2>3, <2>4, <2>6, <2>7 DEF NothingLost
<1>5. CASE Start(w)
  <2> DEFINE s == [Idle EXCEPT !.at = "fetch", !.cursor = saved]
  <2>1. s \in Sync /\ s.cursor = saved /\ s.todo = {} /\ s.next = None /\ s.at = "fetch"
    <3>1. saved \in 0..MaxLog
      BY <1>1
    <3> QED BY <1>3, <3>1 DEF Sync
  <2>2. Become(w, s) /\ UNCHANGED <<log, ledger, saved, status, closed, touched>>
    BY <1>5 DEF Start, bankVars, accountVars
  <2> HIDE DEF s
  <2> QED BY <1>1, <1>4, <2>1, <2>2
<1>6. CASE FetchFails(w) \/ PagesSpent(w)
  <2> DEFINE s == [sync[w] EXCEPT !.at = "save"]
  <2>1. /\ s \in Sync /\ s.cursor = sync[w].cursor /\ s.todo = sync[w].todo
        /\ s.next = sync[w].next /\ s.at = "save"
    BY <1>2 DEF Sync
  <2>2. Become(w, s) /\ UNCHANGED <<log, ledger, saved, status, closed, touched>>
    BY <1>6 DEF FetchFails, PagesSpent, bankVars, accountVars
  <2> HIDE DEF s
  <2>3. s.todo \subseteq {log[i] : i \in DOMAIN log} /\ (s.next # None => s.next <= Len(log))
    BY <1>2, <2>1 DEF Fetched
  <2> QED BY <1>2, <1>4, <2>1, <2>2, <2>3
<1>7. CASE TurnPage(w)
  <2> DEFINE next == sync[w].next
             s == [sync[w] EXCEPT
                     !.cursor = IF next = None THEN @ ELSE next,
                     !.at = IF next # None /\ sync[w].more THEN "fetch" ELSE "save"]
  <2>1. next # None => next \in 0..Len(log) /\ next \in 0..MaxLog
    BY <1>1, <1>2 DEF Sync, Fetched
  <2>2. /\ s \in Sync /\ s.todo = sync[w].todo /\ s.next = next
        /\ s.at \in {"fetch", "save"}
        /\ s.cursor = IF next = None THEN sync[w].cursor ELSE next
    BY <1>2, <2>1 DEF Sync
  <2>3. /\ At(w, "apply") /\ sync[w].todo = {} /\ Become(w, s)
        /\ UNCHANGED <<log, ledger, saved, status, closed, touched>>
    BY <1>7 DEF TurnPage, bankVars, accountVars
  <2>4. next # None => Reached(next)
    BY <1>2, <2>3 DEF Fetched, Reached, At
  <2>5. s.todo \subseteq {log[i] : i \in DOMAIN log} /\ (s.next # None => s.next <= Len(log))
    BY <1>2, <2>2 DEF Fetched
  <2> HIDE DEF s, next
  <2>6. s.cursor \in 0..Len(log) /\ Reached(s.cursor)
    BY <1>2, <2>1, <2>2, <2>4
  <2> QED BY <1>4, <2>2, <2>3, <2>5, <2>6
<1>8. CASE Save(w) \/ Abort(w)
  <2>1. Become(w, Idle) /\ UNCHANGED <<log, ledger, status, closed, touched>>
        /\ saved' \in {saved, sync[w].cursor}
    BY <1>8 DEF Save, Abort, bankVars, accountVars
  <2>2. Reached(0)
    BY DEF Reached, Seen
  <2> QED BY <1>1, <1>3, <1>4, <2>1, <2>2
<1>9. ASSUME NEW n \in Pages(sync[w].cursor), NEW more \in BOOLEAN,
             NEW next \in {n, sync[w].cursor, None}, Fetch(w, n, next, more)
      PROVE  NothingLost'
  <2> DEFINE page == {log[i] : i \in (sync[w].cursor + 1)..n}
             s == [sync[w] EXCEPT
                     !.at = "apply", !.pages = @ + 1, !.next = next, !.more = more, !.todo = page]
  <2>1. n \in sync[w].cursor..Len(log)
    BY <1>9 DEF Pages
  <2>2. (sync[w].cursor + 1)..n \subseteq DOMAIN log
    BY <1>1, <1>2, <2>1
  <2>3. page \subseteq {log[i] : i \in DOMAIN log} /\ page \subseteq Change
    BY <1>1, <2>2
  <2>4. next \in 0..Len(log) \cup {None} /\ next \in 0..MaxLog \cup {None}
    BY <1>1, <1>2, <2>1
  <2>5. /\ s \in Sync /\ s.todo = page /\ s.next = next /\ s.cursor = sync[w].cursor
    <3>1. sync[w].pages + 1 \in 0..MaxPages
      BY <1>2, <1>9, BoundAssumption DEF Sync, Fetch
    <3> HIDE DEF page
    <3> QED BY <1>2, <2>3, <2>4, <3>1 DEF Sync
  <2>6. Become(w, s) /\ UNCHANGED <<log, ledger, saved, status, closed, touched>>
    BY <1>9 DEF Fetch, bankVars, accountVars
  <2>7. next # None => \A p \in Ptx \ touched :
           Seen(p, next) /\ ~Retracted(p) => ledger[p] # None \/ \E e \in page : e.tx = p
    <3> SUFFICES ASSUME next # None, NEW p \in Ptx \ touched, Seen(p, next), ~Retracted(p)
                 PROVE  ledger[p] # None \/ \E e \in page : e.tx = p
      OBVIOUS
    <3>1. PICK i \in 1..next : log[i].tx = p
      BY DEF Seen
    <3>2. CASE i <= sync[w].cursor
      BY <1>2, <2>4, <3>1, <3>2 DEF Reached, Seen
    <3>3. CASE i > sync[w].cursor
      BY <1>2, <2>1, <2>4, <3>1, <3>3
    <3> QED BY <1>2, <2>4, <3>2, <3>3
  <2> HIDE DEF s, page
  <2>8. s.next # None => s.next <= Len(log)
    BY <1>1, <2>4, <2>5
  <2> QED BY <1>2, <1>4, <2>3, <2>5, <2>6, <2>7, <2>8
<1>10. ASSUME NEW e \in sync[w].todo, Apply(w, e)
       PROVE  NothingLost'
  <2> DEFINE s == [sync[w] EXCEPT !.todo = @ \ {e}]
  <2>1. PICK i \in DOMAIN log : e = log[i]
    BY <1>2, <1>10 DEF Fetched
  <2>2. e \in Change /\ (e.kind # "removed" => e.look \in Look)
    <3>1. e \in Change
      BY <1>1, <2>1
    <3>2. e.kind # "removed" => e.look # None
      BY <1>1, <2>1 DEF BankSound
    <3> QED BY <3>1, <3>2 DEF Change
  <2>3. Applied(e) \in Row \cup {None} /\ (e.kind # "removed" => Applied(e) \in Row)
    BY <1>1, <2>2 DEF Applied, Row, Change
  <2>4. /\ ledger' = [ledger EXCEPT ![e.tx] = Applied(e)]
        /\ sync' = [sync EXCEPT ![w] = s]
        /\ UNCHANGED <<log, saved, status, closed, touched>>
    BY <1>10 DEF Apply, Become, bankVars, accountVars
  <2>5. ledger' \in [Ptx -> Row \cup {None}]
    BY <1>1, <2>2, <2>3, <2>4 DEF Change
  <2>6. s \in Sync /\ s.cursor = sync[w].cursor /\ s.next = sync[w].next /\ s.at = sync[w].at
        /\ s.todo = sync[w].todo \ {e}
    BY <1>2 DEF Sync
  <2> HIDE DEF s
  <2>7. sync' \in [Worker -> Sync] /\ sync'[w] = s /\ \A v \in Worker \ {w} : sync'[v] = sync[v]
    BY <1>1, <2>4, <2>6
  <2>8. TypeOK'
    BY <1>1, <2>4, <2>5, <2>7 DEF NothingLost, TypeOK
  <2>9. BankSound'
    BY <1>1, <2>4 DEF BankSound, Known, Speaks
  <2>10. \A p \in Ptx : Retracted(p)' <=> Retracted(p)
    BY <2>4 DEF Retracted
  <2>11. \A p \in Ptx : \A k : Seen(p, k)' <=> Seen(p, k)
    BY <2>4 DEF Seen
  <2>12. \A p \in Ptx \ touched :
            ~Retracted(p) /\ (ledger[p] # None \/ p = e.tx) => ledger'[p] # None
    <3> TAKE p \in Ptx \ touched
    <3>1. CASE p = e.tx /\ ~Retracted(p)
      <4>1. e.kind # "removed"
        BY <2>1, <3>1 DEF Retracted
      <4> QED BY <1>1, <2>3, <2>4, <3>1, <4>1, NoneAssumption
    <3>2. CASE p # e.tx
      BY <1>1, <2>4, <3>2
    <3> QED BY <3>1, <3>2
  <2>13. \A k : Reached(k) => Reached(k)'
    BY <2>4, <2>10, <2>11, <2>12 DEF Reached
  <2>14. ASSUME NEW v \in Worker
         PROVE  (sync[v].cursor <= Len(log) /\ Reached(sync[v].cursor) /\ Fetched(v))'
    <3>1. sync[v].cursor <= Len(log) /\ Reached(sync[v].cursor) /\ Fetched(v)
      BY DEF NothingLost
    <3>2. /\ sync'[v].cursor = sync[v].cursor /\ sync'[v].next = sync[v].next
          /\ sync'[v].at = sync[v].at
          /\ sync'[v].todo \subseteq sync[v].todo /\ sync[v].todo \ {e} \subseteq sync'[v].todo
      BY <2>6, <2>7
    <3>3. (sync[v].cursor <= Len(log) /\ Reached(sync[v].cursor))'
      BY <2>4, <2>13, <3>1, <3>2
    <3>4. Fetched(v)'
      <4>1. (sync[v].todo \subseteq {log[j] : j \in DOMAIN log})'
        BY <2>4, <3>1, <3>2 DEF Fetched
      <4>2. (sync[v].next # None => sync[v].next <= Len(log))'
        BY <2>4, <3>1, <3>2 DEF Fetched
      <4>3. ASSUME sync[v].at = "apply", sync[v].next # None, NEW p \in Ptx \ touched,
                   Seen(p, sync[v].next), ~Retracted(p)
            PROVE  ledger'[p] # None \/ \E f \in sync'[v].todo : f.tx = p
        BY <2>12, <3>1, <3>2, <4>3 DEF Fetched
      <4> QED BY <2>4, <2>10, <2>11, <3>2, <4>1, <4>2, <4>3 DEF Fetched
    <3> QED BY <3>3, <3>4
  <2>15. Reached(saved)'
    BY <1>1, <2>4, <2>13
  <2> QED BY <2>8, <2>9, <2>14, <2>15 DEF NothingLost
<1> QED BY <1>5, <1>6, <1>7, <1>8, <1>9, <1>10 DEF Syncing

LEMMA NothingLostElsewhere ==
    ASSUME NothingLost, User \/ Account \/ UNCHANGED vars
    PROVE  NothingLost'
<1>1. /\ log' = log /\ saved' = saved /\ sync' = sync /\ touched \subseteq touched'
      /\ \A p \in Ptx \ touched' : ledger'[p] = ledger[p]
      /\ TypeOK'
  <2>1. CASE User
    <3>1. PICK p \in Ptx, row \in Row \cup {None} :
             /\ ledger' = [ledger EXCEPT ![p] = row] /\ touched' = touched \cup {p}
             /\ UNCHANGED <<log, saved, status, closed, sync>>
      BY <2>1 DEF User, UserEdits, UserDeletes, Row, bankVars, accountVars
    <3> QED BY <3>1 DEF NothingLost, TypeOK
  <2>2. CASE Account \/ UNCHANGED vars
    BY <2>2 DEF Account, LoginRequired, Disconnect, Relink, CloseBudget, vars, bankVars,
                NothingLost, TypeOK
  <2> QED BY <2>1, <2>2
<1>2. BankSound'
  BY <1>1 DEF NothingLost, BankSound, Known, Speaks
<1>3. \A p : Retracted(p)' <=> Retracted(p)
  BY <1>1 DEF Retracted
<1>4. \A p, k : Seen(p, k)' <=> Seen(p, k)
  BY <1>1 DEF Seen
<1>5. \A k : Reached(k) => Reached(k)'
  BY <1>1, <1>3, <1>4 DEF Reached
<1>6. ASSUME NEW w \in Worker
      PROVE  (sync[w].cursor <= Len(log) /\ Reached(sync[w].cursor) /\ Fetched(w))'
  <2>1. sync[w].cursor <= Len(log) /\ Reached(sync[w].cursor) /\ Fetched(w)
    BY DEF NothingLost
  <2> QED BY <1>1, <1>3, <1>4, <1>5, <2>1 DEF Fetched
<1>7. Reached(saved)'
  BY <1>1, <1>5 DEF NothingLost
<1> QED BY <1>1, <1>2, <1>6, <1>7 DEF NothingLost

\* Whatever syncs overlap, fail or are cut off: no bank transaction behind the saved
\* cursor is missing from the ledger, unless it was retracted or a user deleted it
\* (sync_account_transactions saves only the cursor of what it applied).
THEOREM NothingIsSkipped == Spec => [](TypeOK /\ NothingSkipped)
<1>1. Init => NothingLost
  BY NothingLostInit
<1>2. NothingLost /\ [Next]_vars => NothingLost'
  BY NothingLostBank, NothingLostSync, NothingLostElsewhere DEF Next, SyncNext
<1>3. NothingLost => TypeOK /\ NothingSkipped
  BY StillThere DEF NothingLost, TypeOK, NothingSkipped, Reached, Seen
<1> QED BY <1>1, <1>2, <1>3, PTL DEF Spec

\* A step of a sync changes of a row that stays only what the bank is the source of,
\* and an `added` entry changes nothing of it (the two ON CONFLICT clauses).
THEOREM UserChoicesSurvive == Spec => ChoicesSurvive
<1>1. Spec => []TypeOK
  <2>1. TypeOK /\ NothingSkipped => TypeOK
    OBVIOUS
  <2> QED BY <2>1, NothingIsSkipped, PTL
<1>2. ASSUME TypeOK, NEW w \in Worker, NEW e \in sync[w].todo, NEW p \in Ptx,
             Apply(w, e), ledger[p] # None, ledger'[p] # None
      PROVE  /\ ledger'[p].mine = ledger[p].mine
             /\ e.kind = "added" => ledger'[p] = ledger[p]
  <2>1. ledger[p] \in Row /\ ledger' = [ledger EXCEPT ![e.tx] = Applied(e)]
        /\ ledger \in [Ptx -> Row \cup {None}]
    BY <1>2 DEF TypeOK, Apply
  <2>2. CASE p # e.tx
    BY <2>1, <2>2
  <2>3. CASE p = e.tx
    <3>1. ledger'[p] = Applied(e) /\ e.kind # "removed"
      BY <1>2, <2>1, <2>3 DEF Applied
    <3> QED BY <1>2, <2>1, <2>3, <3>1 DEF Applied, Row
  <2> QED BY <2>2, <2>3
<1>3. TypeOK /\ [Next]_vars =>
         [\A w \in Worker : \A e \in sync[w].todo, p \in Ptx :
             Apply(w, e) /\ ledger[p] # None /\ ledger'[p] # None =>
                /\ ledger'[p].mine = ledger[p].mine
                /\ e.kind = "added" => ledger'[p] = ledger[p]]_vars
  BY <1>2
<1> QED BY <1>1, <1>3, PTL DEF Spec, ChoicesSurvive

-----------------------------------------------------------------------------
(* Syncs that do not overlap *)

\* The row of p is what the first k changes, or what the first k or more, say of it.
Shows(p, k) ==
    IF Seen(p, k)
      THEN \E i \in 1..k :
              /\ Speaks(i, p, k)
              /\ IF log[i].look = None THEN ledger[p] = None
                 ELSE ledger[p] # None /\ ledger[p].look = log[i].look
      ELSE ledger[p] = None
ShowsSince(p, k) == \E m \in k..Len(log) : Shows(p, m)

\* A page ends at the n-th change; what it still has to say of p is in todo.
Applying(w) ==
    \E n \in sync[w].cursor..Len(log) :
       /\ sync[w].todo \subseteq {log[i] : i \in (sync[w].cursor + 1)..n}
       /\ \A i, j \in (sync[w].cursor + 1)..n : log[i].tx = log[j].tx => i = j
       /\ sync[w].next \in {n, sync[w].cursor, None}
       /\ \A p \in Ptx \ touched : (\E e \in sync[w].todo : e.tx = p) \/ ShowsSince(p, n)

OneAtATime == \A v, w \in Worker : v # w => At(v, "idle") \/ At(w, "idle")

\* The ledger shows no less than what the saved cursor says, and no less than the
\* cursor of the sync that runs.
InStep ==
    /\ OneAtATime
    /\ \A p \in Ptx \ touched : ShowsSince(p, saved)
    /\ \A w \in Worker : ~At(w, "idle") =>
          /\ saved <= sync[w].cursor
          /\ \A p \in Ptx \ touched : ShowsSince(p, sync[w].cursor)
          /\ At(w, "apply") => Applying(w)

LEMMA ShowsLater ==
    ASSUME NEW k \in Nat, NEW m \in k..Len(log), NEW p, ShowsSince(p, m)
    PROVE  ShowsSince(p, k)
BY DEF ShowsSince

\* Changes about others leave what is said of p as it is.
LEMMA ShowsOn ==
    ASSUME log \in Seq(Change), NEW m \in 0..Len(log), NEW n \in m..Len(log), NEW p,
           Shows(p, m), \A i \in (m + 1)..n : log[i].tx # p
    PROVE  Shows(p, n)
<1>1. \A i \in 1..n : i \in 1..m \/ i \in (m + 1)..n
  OBVIOUS
<1>2. Seen(p, n) <=> Seen(p, m)
  BY <1>1 DEF Seen
<1>3. \A i \in 1..m : Speaks(i, p, m) => Speaks(i, p, n)
  BY <1>1 DEF Speaks
<1> QED BY <1>1, <1>2, <1>3 DEF Shows

\* At the end of the log, that is the mirror of the bank.
LEMMA ShowsMirror ==
    ASSUME log \in Seq(Change), BankSound, NEW p \in Ptx, Shows(p, Len(log))
    PROVE  Mirrored(p)
<1>1. Known(p) <=> Seen(p, Len(log))
  BY DEF Known, Seen
<1>2. CASE ~Known(p)
  BY <1>1, <1>2 DEF Shows, Mirrored, AtBank
<1>3. CASE Known(p)
  <2>1. PICK i \in 1..Len(log) :
           /\ Speaks(i, p, Len(log))
           /\ IF log[i].look = None THEN ledger[p] = None
              ELSE ledger[p] # None /\ ledger[p].look = log[i].look
    BY <1>1, <1>3 DEF Shows
  <2>2. Speaks(Latest(p), p, Len(log)) /\ AtBank(p) = log[Latest(p)].look
    BY <1>3, LatestSpeaks
  <2>3. i = Latest(p)
    BY <2>1, <2>2 DEF Speaks
  <2> QED BY <2>1, <2>2, <2>3 DEF Mirrored
<1> QED BY <1>2, <1>3

\* The page that remains, once one of its entries is applied.
LEMMA AppliedShows ==
    ASSUME NothingLost, NEW w \in Worker, NEW e \in sync[w].todo, Apply(w, e),
           NEW n \in sync[w].cursor..Len(log), NEW i \in (sync[w].cursor + 1)..n, e = log[i],
           \A j \in (sync[w].cursor + 1)..n : log[j].tx = e.tx => j = i,
           e.tx \in Ptx \ touched, ShowsSince(e.tx, sync[w].cursor)
    PROVE  \E m \in n..Len(log) : Shows(e.tx, m)'
<1> DEFINE p == e.tx
           c == sync[w].cursor
<1>1. /\ log \in Seq(Change) /\ DOMAIN log = 1..Len(log) /\ Len(log) \in Nat
      /\ c \in Nat /\ n \in c..Len(log) /\ BankSound
      /\ sync \in [Worker -> Sync] /\ ledger \in [Ptx -> Row \cup {None}]
  BY DEF NothingLost, TypeOK, Sync
<1>2. i \in 1..n /\ i \in DOMAIN log /\ i > c
  BY <1>1
<1>3. /\ ledger'[p] = Applied(e) /\ log' = log
      /\ e.look = None <=> e.kind = "removed"
      /\ e.look # None => e.look \in Look
  <2>1. e \in Change
    BY <1>1, <1>2
  <2>2. e.look = None <=> e.kind = "removed"
    BY <1>1, <1>2 DEF BankSound
  <2> QED BY <1>1, <2>1, <2>2 DEF Apply, bankVars, Change
<1>4. Speaks(i, p, n)
  BY <1>1, <1>2 DEF Speaks
<1>5. CASE \/ e.look = None /\ ledger'[p] = None
           \/ e.look # None /\ ledger'[p] # None /\ ledger'[p].look = e.look
  <2>1. (Seen(p, n) /\ Speaks(i, p, n))'
    BY <1>2, <1>3, <1>4 DEF Seen, Speaks
  <2>2. Shows(p, n)'
    BY <1>2, <1>3, <1>5, <2>1 DEF Shows
  <2> QED BY <1>1, <2>2
<1>6. CASE e.kind = "added" /\ ledger[p] # None
  <2>1. ledger'[p] = ledger[p]
    BY <1>3, <1>6 DEF Applied
  <2>2. PICK m \in c..Len(log) : Shows(p, m)
    BY DEF ShowsSince
  <2>3. Shows(p, m)'
    BY <1>3, <2>1, <2>2 DEF Shows, Seen, Speaks
  <2>4. PICK j \in 1..m : Speaks(j, p, m)
    BY <1>6, <2>2 DEF Shows
  <2>5. j \in DOMAIN log /\ log[j].tx = p /\ j >= i
    <3>1. j \in DOMAIN log /\ log[j].tx = p
      BY <1>1, <2>2, <2>4 DEF Speaks
    <3>2. ~(j < i)
      BY <1>1, <1>2, <1>6, <3>1 DEF BankSound
    <3> QED BY <1>1, <1>2, <3>1, <3>2
  <2>6. CASE m >= n
    BY <1>1, <2>2, <2>3, <2>6
  <2>7. CASE m < n
    <3>1. \A k \in (m + 1)..n : log[k].tx # p
      BY <1>1, <1>2, <2>2, <2>4, <2>5, <2>7
    <3>2. Shows(p, n)
      BY <1>1, <2>2, <2>7, <3>1, ShowsOn
    <3>3. Shows(p, n)'
      BY <1>3, <2>1, <3>2 DEF Shows, Seen, Speaks
    <3> QED BY <1>1, <3>3
  <2> QED BY <1>1, <2>2, <2>6, <2>7
<1>7. Applied(e) = None \/ Applied(e) \in Row
  BY <1>1, <1>3 DEF Applied, Row
<1>8. e.kind = "removed" => Applied(e) = None
  BY DEF Applied
<1>9. e.kind # "removed" /\ ~(e.kind = "added" /\ ledger[p] # None) =>
         Applied(e) # None /\ Applied(e).look = e.look
  <2>1. CASE ledger[p] = None
    <3>1. e.look # None => [look |-> e.look, mine |-> FALSE] \in Row
      BY <1>3 DEF Row
    <3> QED BY <1>3, <2>1, <3>1, NoneAssumption DEF Applied
  <2>2. CASE ledger[p] # None
    <3>1. ledger[p] \in Row
      BY <1>1, <2>2
    <3> QED BY <1>3, <2>2, <3>1, NoneAssumption DEF Applied, Row
  <2> QED BY <2>1, <2>2
<1> QED BY <1>3, <1>5, <1>6, <1>8, <1>9

\* With its page fetched, a sync still has to say what the ledger does not show.
LEMMA FetchedApplying ==
    ASSUME NothingLost, NEW w \in Worker, NEW n \in Pages(sync[w].cursor), NEW more \in BOOLEAN,
           NEW next \in {n, sync[w].cursor, None}, Fetch(w, n, next, more),
           \A p \in Ptx \ touched : ShowsSince(p, sync[w].cursor)
    PROVE  Applying(w)' /\ sync'[w].cursor = sync[w].cursor
<1> DEFINE c == sync[w].cursor
           page == {log[i] : i \in (c + 1)..n}
<1>1. /\ log \in Seq(Change) /\ Len(log) \in Nat /\ sync \in [Worker -> Sync]
      /\ c \in Nat /\ n \in c..Len(log) /\ sync[w] \in Sync
      /\ log' = log /\ ledger' = ledger /\ touched' = touched
  BY DEF NothingLost, TypeOK, Sync, Pages, Fetch, bankVars
<1>2. sync'[w].cursor = c /\ sync'[w].todo = page /\ sync'[w].next = next
  BY <1>1 DEF Fetch, Become, Sync
<1>3. \A i, j \in (c + 1)..n : log[i].tx = log[j].tx => i = j
  BY DEF Pages, IsInjective
<1>4. ASSUME NEW p \in Ptx \ touched, \A e \in page : e.tx # p
      PROVE  ShowsSince(p, n)
  <2>1. PICK m \in c..Len(log) : Shows(p, m)
    BY DEF ShowsSince
  <2>2. CASE m >= n
    BY <1>1, <2>1, <2>2 DEF ShowsSince
  <2>3. CASE m < n
    <3>1. \A i \in (m + 1)..n : log[i].tx # p
      BY <1>1, <1>4, <2>1
    <3>2. Shows(p, n)
      BY <1>1, <2>1, <2>3, <3>1, ShowsOn
    <3> QED BY <1>1, <3>2 DEF ShowsSince
  <2> QED BY <1>1, <2>1, <2>2, <2>3
<1>5. \A p \in Ptx \ touched : ShowsSince(p, n) => ShowsSince(p, n)'
  BY <1>1 DEF ShowsSince, Shows, Seen, Speaks
<1> HIDE DEF page
<1>6. \A p \in Ptx \ touched : (\E e \in sync'[w].todo : e.tx = p) \/ ShowsSince(p, n)'
  BY <1>2, <1>4, <1>5
<1>7. page \subseteq {log[i] : i \in (c + 1)..n}
  BY DEF page
<1> QED BY <1>1, <1>2, <1>3, <1>6, <1>7 DEF Applying

LEMMA InStepBank ==
    ASSUME NothingLost, InStep, Bank
    PROVE  InStep'
<1>1. /\ log' \in Seq(Change) /\ Len(log') = Len(log) + 1
      /\ \A i \in DOMAIN log : log'[i] = log[i]
      /\ UNCHANGED <<ledger, saved, accountVars, sync, touched>>
      /\ log \in Seq(Change) /\ DOMAIN log = 1..Len(log) /\ Len(log) \in Nat
      /\ saved \in Nat /\ \A w \in Worker : sync[w] \in Sync
  BY BankStepSound DEF NothingLost, TypeOK
<1>2. \A p \in Ptx, k \in 0..Len(log) : Shows(p, k) => Shows(p, k)'
  <2> TAKE p \in Ptx, k \in 0..Len(log)
  <2>1. \A i \in 1..k : log'[i] = log[i]
    BY <1>1
  <2> QED BY <1>1, <2>1 DEF Shows, Seen, Speaks
<1>3. \A p \in Ptx, k \in Nat : ShowsSince(p, k) => ShowsSince(p, k)'
  BY <1>1, <1>2 DEF ShowsSince
<1>4. \A w \in Worker : Applying(w) => Applying(w)'
  <2> SUFFICES ASSUME NEW w \in Worker, Applying(w) PROVE Applying(w)'
    OBVIOUS
  <2>1. sync[w].cursor \in Nat /\ sync' = sync /\ touched' = touched
    BY <1>1 DEF Sync
  <2>2. PICK n \in sync[w].cursor..Len(log) :
           /\ sync[w].todo \subseteq {log[i] : i \in (sync[w].cursor + 1)..n}
           /\ \A i, j \in (sync[w].cursor + 1)..n : log[i].tx = log[j].tx => i = j
           /\ sync[w].next \in {n, sync[w].cursor, None}
           /\ \A p \in Ptx \ touched : (\E e \in sync[w].todo : e.tx = p) \/ ShowsSince(p, n)
    BY DEF Applying
  <2>3. \A i \in (sync[w].cursor + 1)..n : log'[i] = log[i]
    BY <1>1, <2>1, <2>2
  <2>4. n \in sync[w].cursor..Len(log') /\ n \in Nat
    BY <1>1, <2>1, <2>2
  <2>5. \A p \in Ptx \ touched : (\E e \in sync[w].todo : e.tx = p) \/ ShowsSince(p, n)'
    BY <1>3, <2>2, <2>4
  <2>6. sync[w].todo \subseteq {log'[i] : i \in (sync[w].cursor + 1)..n}
    BY <2>2, <2>3
  <2>7. (/\ sync[w].todo \subseteq {log[i] : i \in (sync[w].cursor + 1)..n}
         /\ \A i, j \in (sync[w].cursor + 1)..n : log[i].tx = log[j].tx => i = j
         /\ sync[w].next \in {n, sync[w].cursor, None}
         /\ \A p \in Ptx \ touched : (\E e \in sync[w].todo : e.tx = p) \/ ShowsSince(p, n))'
    BY <2>1, <2>2, <2>3, <2>5, <2>6
  <2> QED BY <2>1, <2>4, <2>7 DEF Applying
<1>5. \A w \in Worker : sync[w].cursor \in Nat
  BY <1>1 DEF Sync
<1> QED BY <1>1, <1>3, <1>4, <1>5 DEF InStep, OneAtATime, At

LEMMA InStepElsewhere ==
    ASSUME NothingLost, InStep, User \/ Account \/ UNCHANGED vars
    PROVE  InStep'
<1>1. /\ log' = log /\ saved' = saved /\ sync' = sync /\ touched \subseteq touched'
      /\ \A p \in Ptx \ touched' : ledger'[p] = ledger[p]
  <2>1. CASE User
    BY <2>1 DEF User, UserEdits, UserDeletes, bankVars, accountVars, NothingLost, TypeOK
  <2>2. CASE Account \/ UNCHANGED vars
    BY <2>2 DEF Account, LoginRequired, Disconnect, Relink, CloseBudget, vars, bankVars
  <2> QED BY <2>1, <2>2
<1>2. \A p \in Ptx \ touched' : \A k : ShowsSince(p, k) => ShowsSince(p, k)'
  BY <1>1 DEF ShowsSince, Shows, Seen, Speaks
<1>3. \A w \in Worker : Applying(w) => Applying(w)'
  BY <1>1, <1>2 DEF Applying
<1> QED BY <1>1, <1>2, <1>3 DEF InStep, OneAtATime, At

\* A step of the one sync that runs.
LEMMA InStepSync ==
    ASSUME NothingLost, InStep, NEW w \in Worker, Syncing(w) \/ Abort(w), OneAtATime'
    PROVE  InStep'
<1>1. /\ log \in Seq(Change) /\ DOMAIN log = 1..Len(log) /\ Len(log) \in Nat
      /\ saved \in 0..Len(log) /\ sync \in [Worker -> Sync]
      /\ sync[w] \in Sync /\ sync[w].cursor \in 0..Len(log)
      /\ ledger \in [Ptx -> Row \cup {None}]
  BY DEF NothingLost, TypeOK, Sync
<1>2. /\ log' = log /\ touched' = touched /\ \A v \in Worker \ {w} : sync'[v] = sync[v]
  BY <1>1 DEF Syncing, Abort, Start, FetchFails, PagesSpent, Apply, TurnPage, Save, Fetch, Become,
              bankVars
<1>3. ASSUME ledger' = ledger
      PROVE  \A p \in Ptx \ touched : \A k : ShowsSince(p, k) => ShowsSince(p, k)'
  BY <1>2, <1>3 DEF ShowsSince, Shows, Seen, Speaks
<1>4. CASE At(w, "idle")
  <2>1. Start(w)
    BY <1>4 DEF Syncing, Abort, FetchFails, PagesSpent, Apply, TurnPage, Save, Fetch, At
  <2>2. /\ sync'[w].cursor = saved /\ sync'[w].at = "fetch"
        /\ saved' = saved /\ ledger' = ledger
    BY <1>1, <2>1 DEF Start, Become, Idle
  <2>3. \A v \in Worker \ {w} : At(v, "idle")'
    BY <2>2 DEF OneAtATime, At
  <2> QED BY <1>1, <1>2, <1>3, <2>2, <2>3 DEF InStep, At
<1>5. CASE ~At(w, "idle")
  <2>1. /\ \A v \in Worker \ {w} : At(v, "idle") /\ At(v, "idle")'
        /\ \A p \in Ptx \ touched : ShowsSince(p, saved) /\ ShowsSince(p, sync[w].cursor)
        /\ saved <= sync[w].cursor
        /\ At(w, "apply") => Applying(w)
    BY <1>2, <1>5 DEF InStep, OneAtATime, At
  <2>2. CASE FetchFails(w) \/ PagesSpent(w)
    <3>1. /\ sync'[w].cursor = sync[w].cursor /\ sync'[w].at = "save"
          /\ saved' = saved /\ ledger' = ledger
      BY <1>1, <2>2 DEF FetchFails, PagesSpent, Become, Sync
    <3> QED BY <1>2, <1>3, <2>1, <3>1 DEF InStep, At
  <2>3. CASE Save(w) \/ Abort(w)
    <3>1. /\ sync'[w].at = "idle" /\ ledger' = ledger /\ saved' \in {saved, sync[w].cursor}
      BY <1>1, <2>3 DEF Save, Abort, Become, Idle
    <3> QED BY <1>2, <1>3, <2>1, <3>1 DEF InStep, At
  <2>4. CASE TurnPage(w)
    <3>1. /\ At(w, "apply") /\ sync[w].todo = {} /\ sync'[w].at \in {"fetch", "save"}
          /\ sync'[w].cursor = IF sync[w].next = None THEN sync[w].cursor ELSE sync[w].next
          /\ saved' = saved /\ ledger' = ledger
      BY <1>1, <2>4 DEF TurnPage, Become, Sync
    <3>2. PICK n \in sync[w].cursor..Len(log) :
             /\ sync[w].next \in {n, sync[w].cursor, None}
             /\ \A p \in Ptx \ touched : ShowsSince(p, n)
      BY <2>1, <3>1 DEF Applying
    <3>3. /\ saved <= sync'[w].cursor
          /\ \A p \in Ptx \ touched : ShowsSince(p, sync'[w].cursor)
      BY <1>1, <2>1, <3>1, <3>2
    <3> QED BY <1>2, <1>3, <2>1, <3>1, <3>3 DEF InStep, At
  <2>5. ASSUME NEW n \in Pages(sync[w].cursor), NEW more \in BOOLEAN,
               NEW next \in {n, sync[w].cursor, None}, Fetch(w, n, next, more)
        PROVE  InStep'
    <3>1. Applying(w)' /\ sync'[w].cursor = sync[w].cursor
      BY <2>1, <2>5, FetchedApplying
    <3>2. saved' = saved /\ ledger' = ledger
      BY <2>5 DEF Fetch
    <3> QED BY <1>2, <1>3, <2>1, <3>1, <3>2 DEF InStep
  <2>6. ASSUME NEW e \in sync[w].todo, Apply(w, e)
        PROVE  InStep'
    <3>1. /\ At(w, "apply") /\ saved' = saved
          /\ ledger' = [ledger EXCEPT ![e.tx] = Applied(e)]
          /\ sync'[w].at = "apply" /\ sync'[w].cursor = sync[w].cursor
          /\ sync'[w].next = sync[w].next /\ sync'[w].todo = sync[w].todo \ {e}
      BY <1>1, <2>6 DEF Apply, Become, At, Sync
    <3>2. PICK n \in sync[w].cursor..Len(log) :
             /\ sync[w].todo \subseteq {log[i] : i \in (sync[w].cursor + 1)..n}
             /\ \A i, j \in (sync[w].cursor + 1)..n : log[i].tx = log[j].tx => i = j
             /\ sync[w].next \in {n, sync[w].cursor, None}
             /\ \A p \in Ptx \ touched : (\E f \in sync[w].todo : f.tx = p) \/ ShowsSince(p, n)
      BY <2>1, <3>1 DEF Applying
    <3>3. PICK i \in (sync[w].cursor + 1)..n : e = log[i]
      BY <2>6, <3>2
    <3>4. e.tx \in Ptx \ touched => ShowsSince(e.tx, n)'
      BY <1>2, <2>1, <2>6, <3>2, <3>3, AppliedShows DEF ShowsSince
    <3>5. ASSUME NEW p \in Ptx \ touched, NEW k, p # e.tx, ShowsSince(p, k)
          PROVE  ShowsSince(p, k)'
      <4>1. ledger'[p] = ledger[p]
        BY <1>1, <3>1, <3>5
      <4> QED BY <1>2, <3>5, <4>1 DEF ShowsSince, Shows, Seen, Speaks
    <3>6. \A p \in Ptx \ touched : (\E f \in sync'[w].todo : f.tx = p) \/ ShowsSince(p, n)'
      BY <3>1, <3>2, <3>4, <3>5
    <3>7. Applying(w)'
      BY <1>2, <3>1, <3>2, <3>6 DEF Applying
    <3>8. n \in Nat /\ saved \in 0..n /\ sync[w].cursor \in 0..n
      BY <1>1, <2>1, <3>2
    <3>9. e.tx \in Ptx \ touched => ShowsSince(e.tx, saved)' /\ ShowsSince(e.tx, sync[w].cursor)'
      <4>1. \A k \in 0..n : ShowsSince(e.tx, n)' => ShowsSince(e.tx, k)'
        BY <1>1, <1>2, <3>8 DEF ShowsSince
      <4> QED BY <3>1, <3>4, <3>8, <4>1
    <3>10. \A p \in Ptx \ touched : ShowsSince(p, saved)' /\ ShowsSince(p, sync[w].cursor)'
      BY <1>2, <2>1, <3>1, <3>5, <3>9
    <3> QED BY <1>2, <2>1, <3>1, <3>7, <3>10 DEF InStep
  <2> QED BY <1>5, <2>2, <2>3, <2>4, <2>5, <2>6 DEF Syncing, Start
<1> QED BY <1>4, <1>5

\* As long as the syncs of an account do not overlap, and whatever else happens, the
\* ledger is a mirror of the bank once the saved cursor is at its end and nothing runs:
\* pages are applied again after a failure without harm.
THEOREM CaughtUpIfAlone == ObservedSpec => []CaughtUpAlone
<1> DEFINE Inv == NothingLost /\ (overlapped \/ InStep)
<1>1. MCInit => Inv
  <2> SUFFICES ASSUME MCInit PROVE Inv
    OBVIOUS
  <2>1. Init /\ NothingLost
    BY NothingLostInit DEF MCInit
  <2>2. \A w \in Worker : At(w, "idle")
    BY <2>1 DEF Init, At, Idle
  <2>3. \A p \in Ptx : ShowsSince(p, 0)
    BY <2>1 DEF Init, ShowsSince, Shows, Seen
  <2> QED BY <2>1, <2>2, <2>3 DEF Init, InStep, OneAtATime
<1>2. Inv /\ [Next /\ Observed]_<<vars, overlapped>> => Inv'
  <2> SUFFICES ASSUME NothingLost, overlapped \/ InStep, [Next /\ Observed]_<<vars, overlapped>> PROVE Inv'
    OBVIOUS
  <2>1. [Next]_vars
    OBVIOUS
  <2>2. NothingLost'
    BY <2>1, NothingLostBank, NothingLostSync, NothingLostElsewhere DEF Next, SyncNext
  <2>3. CASE overlapped'
    BY <2>2, <2>3
  <2>4. CASE ~overlapped' /\ UNCHANGED <<vars, overlapped>>
    BY <2>2, <2>4, InStepElsewhere
  <2>5. CASE ~overlapped' /\ Next /\ Observed
    <3>1. ~overlapped /\ OneAtATime'
      BY <2>5, Zenon DEF Observed, OneAtATime, At
    <3> QED
      BY <2>2, <2>5, <3>1, InStepBank, InStepSync, InStepElsewhere DEF Next, SyncNext
  <2> QED BY <2>3, <2>4, <2>5
<1>3. Inv => CaughtUpAlone
  <2> SUFFICES ASSUME NothingLost, InStep, saved = Len(log), NEW p \in Ptx \ touched
               PROVE  Mirrored(p)
    BY DEF CaughtUpAlone, CaughtUp
  <2>1. log \in Seq(Change) /\ BankSound /\ ShowsSince(p, Len(log))
    BY DEF NothingLost, TypeOK, InStep
  <2>2. Shows(p, Len(log))
    BY <2>1 DEF ShowsSince
  <2> QED BY <2>1, <2>2, ShowsMirror
<1> QED BY <1>1, <1>2, <1>3, PTL DEF ObservedSpec

-----------------------------------------------------------------------------
(* Categories. *)

\* A transaction that is gone is in no category.
GoneFromAll == \A t \in Ptx \ txs : in[t] = None

\* The request locates a transaction before it moves or deletes it.
Locating(q) ==
    \/ q.at \in {"chatUpdate", "restUpdate", "delete"}
    \/ q.at \in {"select", "insertCat", "reselect"} /\ q.tx # None

\* What a request that runs alone remembers is true still.
StandsOn(q) ==
    /\ Locating(q) => q.tx \in txs /\ in[q.tx] = q.old
    /\ q.at \in {"select", "insertCat", "reselect"} => q.name # None
    /\ q.at = "chatUpdate" /\ q.name = None => q.to = q.old
    /\ q.at = "insertCat" => Categories!Matches(q.name) = {}
    /\ q.at = "cleanupDelete" => Categories!Orphaned(q.old)

\* A category that the request is about to use, or to remove if it is empty.
Minds(q, c) ==
    \/ q.at \in {"insertTx", "chatUpdate"} /\ q.to = c
    \/ q.at \in {"cleanup", "cleanupDelete"} /\ q.old = c

Minded(q) == \A c \in cats : cat[c].auto /\ Categories!Empty(c) => Minds(q, c)

OneRequest == \A v, w \in Worker : req[v].at # "idle" /\ req[w].at # "idle" => v = w

CategoriesAlone ==
    ~mixed =>
        /\ OneRequest
        /\ \A w \in Worker : StandsOn(req[w])
        /\ ~cut => \A c \in cats : cat[c].auto /\ Categories!Empty(c) =>
                       \E w \in Worker : Minds(req[w], c)

CategoriesSafe == Categories!TypeOK /\ GoneFromAll /\ CategoriesAlone

\* What a request is, by its fields.
LEMMA CategoryRequest ==
    ASSUME Categories!TypeOK, NEW w \in Worker
    PROVE  /\ req[w].at \in Categories!Step /\ req[w].tx \in Ptx \cup {None}
           /\ req[w].name \in Spelling \cup {None} /\ req[w].auto \in BOOLEAN
           /\ req[w].to \in Look \cup {None} /\ req[w].old \in Look \cup {None}
           /\ req[w] \in Categories!Request
BY DEF Categories!TypeOK, Categories!Request

\* A worker's step replaces its own request.
LEMMA RequestPut ==
    ASSUME Categories!TypeOK, NEW w \in Worker, NEW q, Categories!Become(w, q)
    PROVE  /\ req' = [req EXCEPT ![w] = q] /\ req'[w] = q
           /\ \A v \in Worker \ {w} : req'[v] = req[v]
           /\ q \in Categories!Request => req' \in [Worker -> Categories!Request]
BY DEF Categories!Become, Categories!TypeOK

LEMMA LoggingTyped ==
    ASSUME Categories!TypeOK, NEW w \in Worker, Categories!Logging(w)
    PROVE  Categories!TypeOK'
<1>1. req[w] \in Categories!Request /\ Categories!Idle \in Categories!Request
  BY CategoryRequest DEF Categories!Idle, Categories!Request, Categories!Step
<1>2. ASSUME NEW q \in Categories!Request, Categories!Become(w, q),
             UNCHANGED << catBorn, cats, cat, txBorn, txs, in >>
      PROVE  Categories!TypeOK'
  BY <1>2, RequestPut DEF Categories!TypeOK
<1>3. ASSUME NEW name \in Spelling, NEW auto \in BOOLEAN, Categories!BeginLog(w, name, auto)
      PROVE  Categories!TypeOK'
  <2>1. PICK q : q = [Categories!Idle EXCEPT !.at = "select", !.name = name, !.auto = auto]
    OBVIOUS
  <2>2. q \in Categories!Request
    BY <2>1 DEF Categories!Idle, Categories!Request, Categories!Step
  <2> QED BY <1>2, <1>3, <2>1, <2>2 DEF Categories!BeginLog, Categories!catVars, Categories!txVars
<1>4. ASSUME NEW c \in Look, Categories!BeginLogInto(w, c)
      PROVE  Categories!TypeOK'
  <2>1. PICK q : q = [Categories!Idle EXCEPT !.at = "insertTx", !.to = c]
    OBVIOUS
  <2>2. q \in Categories!Request
    BY <2>1 DEF Categories!Idle, Categories!Request, Categories!Step
  <2> QED BY <1>2, <1>4, <2>1, <2>2 DEF Categories!BeginLogInto, Categories!catVars, Categories!txVars
<1>5. ASSUME NEW c \in Look
      PROVE  Categories!Resolved(req[w], c) \in Categories!Request
  BY <1>1 DEF Categories!Resolved, Categories!Request, Categories!Step
<1>6. ASSUME NEW step \in Categories!Step
      PROVE  [req[w] EXCEPT !.at = step] \in Categories!Request
  BY <1>1 DEF Categories!Request
<1>7. {"insertCat", "reselect"} \subseteq Categories!Step /\ cats \subseteq Look
  BY DEF Categories!Step, Categories!TypeOK
<1>8. CASE Categories!Select(w)
  <2>1. PICK found : found = Categories!Matches(req[w].name) /\ found \subseteq cats
    BY DEF Categories!Matches
  <2>2. CASE found = {}
    BY <1>2, <1>6, <1>7, <1>8, <2>1, <2>2
       DEF Categories!Select, Categories!catVars, Categories!txVars
  <2>3. CASE found # {}
    <3>1. PICK c \in found : Categories!Become(w, Categories!Resolved(req[w], c))
      BY <1>8, <2>1, <2>3 DEF Categories!Select
    <3> QED BY <1>2, <1>5, <1>7, <1>8, <2>1, <3>1
            DEF Categories!Select, Categories!catVars, Categories!txVars
  <2> QED BY <2>2, <2>3
<1>9. CASE Categories!Reselect(w)
  <2>1. PICK found : found = Categories!Matches(req[w].name) /\ found \subseteq cats
    BY DEF Categories!Matches
  <2>2. CASE found = {}
    BY <1>1, <1>2, <1>9, <2>1, <2>2
       DEF Categories!Reselect, Categories!Finish, Categories!catVars, Categories!txVars
  <2>3. CASE found # {}
    <3>1. PICK c \in found : Categories!Become(w, Categories!Resolved(req[w], c))
      BY <1>9, <2>1, <2>3 DEF Categories!Reselect
    <3> QED BY <1>2, <1>5, <1>7, <1>9, <2>1, <3>1
            DEF Categories!Reselect, Categories!catVars, Categories!txVars
  <2> QED BY <2>2, <2>3
<1>10. CASE Categories!InsertCat(w)
  <2>1. CASE Categories!Taken(req[w].name)
    BY <1>2, <1>6, <1>7, <1>10, <2>1
       DEF Categories!InsertCat, Categories!catVars, Categories!txVars
  <2>2. CASE ~ Categories!Taken(req[w].name)
    <3>1. PICK c \in Look : /\ Categories!InsertCategory(c, req[w].name, req[w].auto)
                            /\ Categories!Become(w, Categories!Resolved(req[w], c))
      BY <1>10, <2>2 DEF Categories!InsertCat
    <3>2. req' \in [Worker -> Categories!Request]
      BY <1>5, <3>1, RequestPut
    <3>3. req[w].name \in Spelling \cup {None} /\ req[w].auto \in BOOLEAN
      BY CategoryRequest
    <3>4. cats' \subseteq catBorn' /\ catBorn' \subseteq Look
          /\ cat' \in [Look -> [name : Spelling \cup {None}, auto : BOOLEAN]]
      BY <3>1, <3>3 DEF Categories!InsertCategory, Categories!TypeOK
    <3>5. txs' \subseteq txBorn' /\ txBorn' \subseteq Ptx /\ in' \in [Ptx -> cats' \cup {None}]
      BY <3>1 DEF Categories!InsertCategory, Categories!txVars, Categories!TypeOK
    <3> QED BY <3>2, <3>4, <3>5 DEF Categories!TypeOK
  <2> QED BY <2>1, <2>2
<1>11. CASE Categories!InsertTx(w)
  <2>1. req' \in [Worker -> Categories!Request]
    BY <1>1, <1>11, RequestPut DEF Categories!InsertTx, Categories!Finish
  <2>2. UNCHANGED << catBorn, cats, cat >>
    BY <1>11 DEF Categories!InsertTx, Categories!catVars
  <2>3. txs' \subseteq txBorn' /\ txBorn' \subseteq Ptx /\ in' \in [Ptx -> cats \cup {None}]
    BY <1>11 DEF Categories!InsertTx, Categories!txVars, Categories!TypeOK
  <2> QED BY <2>1, <2>2, <2>3 DEF Categories!TypeOK
<1> QED BY <1>3, <1>4, <1>8, <1>9, <1>10, <1>11 DEF Categories!Logging

LEMMA DropTyped ==
    ASSUME Categories!TypeOK, NEW c, Categories!DropCategory(c), req' \in [Worker -> Categories!Request]
    PROVE  Categories!TypeOK'
<1>1. UNCHANGED << catBorn, txBorn, txs >> /\ cats' = cats \ {c}
  BY DEF Categories!DropCategory
<1>2. cat' \in [Look -> [name : Spelling \cup {None}, auto : BOOLEAN]]
  <2>1. Categories!NoRow \in [name : Spelling \cup {None}, auto : BOOLEAN]
    BY DEF Categories!NoRow
  <2>2. cat' = [cat EXCEPT ![c] = Categories!NoRow]
    BY DEF Categories!DropCategory
  <2> QED BY <2>1, <2>2 DEF Categories!TypeOK
<1>3. in' \in [Ptx -> cats' \cup {None}]
  BY <1>1 DEF Categories!DropCategory, Categories!TypeOK
<1> QED BY <1>1, <1>2, <1>3 DEF Categories!TypeOK

LEMMA MovingTyped ==
    ASSUME Categories!TypeOK, NEW w \in Worker, Categories!Moving(w)
    PROVE  Categories!TypeOK'
<1>1. req[w] \in Categories!Request /\ Categories!Idle \in Categories!Request
  BY CategoryRequest DEF Categories!Idle, Categories!Request, Categories!Step
<1>2. ASSUME NEW q \in Categories!Request, Categories!Become(w, q),
             UNCHANGED << catBorn, cats, cat, txBorn >>,
             txs' \subseteq txs, in' \in [Ptx -> cats \cup {None}]
      PROVE  Categories!TypeOK'
  BY <1>2, RequestPut DEF Categories!TypeOK
<1>3. ASSUME NEW t \in Ptx, NEW name \in Spelling \cup {None}, Categories!BeginChatEdit(w, t, name)
      PROVE  Categories!TypeOK'
  <2>1. PICK q : q = [Categories!Idle EXCEPT !.at = IF name = None THEN "chatUpdate" ELSE "select",
                                  !.tx = t, !.name = name, !.auto = TRUE, !.old = in[t], !.to = in[t]]
    OBVIOUS
  <2>2. in[t] \in Look \cup {None}
    BY DEF Categories!TypeOK
  <2>3. q \in Categories!Request
    BY <2>1, <2>2 DEF Categories!Idle, Categories!Request, Categories!Step
  <2>4. Categories!Become(w, q) /\ UNCHANGED << catBorn, cats, cat, txBorn, txs, in >>
    BY <1>3, <2>1 DEF Categories!BeginChatEdit, Categories!catVars, Categories!txVars
  <2> QED BY <1>2, <2>3, <2>4 DEF Categories!TypeOK
<1>4. ASSUME NEW t \in Ptx, NEW c \in Look, Categories!BeginRestEdit(w, t, c)
      PROVE  Categories!TypeOK'
  <2>1. PICK q : q = [Categories!Idle EXCEPT !.at = "restUpdate", !.tx = t, !.to = c, !.old = in[t]]
    OBVIOUS
  <2>2. in[t] \in Look \cup {None}
    BY DEF Categories!TypeOK
  <2>3. q \in Categories!Request
    BY <2>1, <2>2 DEF Categories!Idle, Categories!Request, Categories!Step
  <2>4. Categories!Become(w, q) /\ UNCHANGED << catBorn, cats, cat, txBorn, txs, in >>
    BY <1>4, <2>1 DEF Categories!BeginRestEdit, Categories!catVars, Categories!txVars
  <2> QED BY <1>2, <2>3, <2>4 DEF Categories!TypeOK
<1>5. ASSUME NEW t \in Ptx, Categories!BeginDelete(w, t)
      PROVE  Categories!TypeOK'
  <2>1. PICK q : q = [Categories!Idle EXCEPT !.at = "delete", !.tx = t, !.old = in[t]]
    OBVIOUS
  <2>2. in[t] \in Look \cup {None}
    BY DEF Categories!TypeOK
  <2>3. q \in Categories!Request
    BY <2>1, <2>2 DEF Categories!Idle, Categories!Request, Categories!Step
  <2>4. Categories!Become(w, q) /\ UNCHANGED << catBorn, cats, cat, txBorn, txs, in >>
    BY <1>5, <2>1 DEF Categories!BeginDelete, Categories!catVars, Categories!txVars
  <2> QED BY <1>2, <2>3, <2>4 DEF Categories!TypeOK
<1>6. ASSUME NEW step \in Categories!Step
      PROVE  [req[w] EXCEPT !.at = step] \in Categories!Request
  BY <1>1 DEF Categories!Request
<1>7. {"cleanup", "idle", "cleanupDelete"} \subseteq Categories!Step
  BY DEF Categories!Step
<1>8. Categories!Cleaning(w) \/ Categories!Finish(w)
        => \E q \in Categories!Request : Categories!Become(w, q)
  BY <1>1, <1>6, <1>7 DEF Categories!Cleaning, Categories!Finish
<1>9. CASE Categories!ChatUpdate(w)
  <2>1. \E q \in Categories!Request : Categories!Become(w, q)
    BY <1>8, <1>9 DEF Categories!ChatUpdate
  <2>2. UNCHANGED << catBorn, cats, cat, txBorn, txs >>
    BY <1>9 DEF Categories!ChatUpdate, Categories!catVars
  <2>3. in' \in [Ptx -> cats \cup {None}]
    BY <1>9 DEF Categories!ChatUpdate, Categories!TypeOK
  <2> QED BY <1>2, <2>1, <2>2, <2>3
<1>10. CASE Categories!RestUpdate(w)
  <2>1. \E q \in Categories!Request : Categories!Become(w, q)
    BY <1>8, <1>10 DEF Categories!RestUpdate
  <2>2. UNCHANGED << catBorn, cats, cat, txBorn, txs >>
    BY <1>10 DEF Categories!RestUpdate, Categories!catVars
  <2>3. in' \in [Ptx -> cats \cup {None}]
    BY <1>10 DEF Categories!RestUpdate, Categories!TypeOK
  <2> QED BY <1>2, <2>1, <2>2, <2>3
<1>11. CASE Categories!Delete(w)
  <2>1. \E q \in Categories!Request : Categories!Become(w, q)
    BY <1>6, <1>7, <1>8, <1>11 DEF Categories!Delete
  <2>2. UNCHANGED << catBorn, cats, cat, txBorn >> /\ txs' \subseteq txs
    BY <1>11 DEF Categories!Delete, Categories!catVars
  <2>3. in' \in [Ptx -> cats \cup {None}]
    BY <1>11 DEF Categories!Delete, Categories!TypeOK
  <2> QED BY <1>2, <2>1, <2>2, <2>3
<1>12. CASE Categories!CleanupScan(w)
  <2>1. \E q \in Categories!Request : Categories!Become(w, q)
    BY <1>6, <1>7, <1>8, <1>12 DEF Categories!CleanupScan
  <2>2. UNCHANGED << catBorn, cats, cat, txBorn, txs, in >>
    BY <1>12 DEF Categories!CleanupScan, Categories!catVars, Categories!txVars
  <2> QED BY <1>2, <2>1, <2>2 DEF Categories!TypeOK
<1>13. CASE Categories!CleanupDelete(w)
  <2>1. req' \in [Worker -> Categories!Request]
    BY <1>1, <1>13, RequestPut DEF Categories!CleanupDelete, Categories!Finish
  <2> QED BY <1>13, <2>1, DropTyped DEF Categories!CleanupDelete
<1> QED BY <1>3, <1>4, <1>5, <1>9, <1>10, <1>11, <1>12, <1>13 DEF Categories!Moving

LEMMA ElsewhereTyped ==
    ASSUME Categories!TypeOK
    PROVE  /\ \A w \in Worker : Categories!Managing(w) \/ Categories!Abort(w) => Categories!TypeOK'
           /\ \A t \in Ptx : Categories!BankRemove(t) => Categories!TypeOK'
<1>1. ASSUME NEW w \in Worker, NEW c \in Look, NEW name \in Spelling,
             Categories!CreateCategory(w, c, name)
      PROVE  Categories!TypeOK'
  BY <1>1 DEF Categories!CreateCategory, Categories!InsertCategory, Categories!txVars, Categories!TypeOK
<1>2. ASSUME NEW w \in Worker, NEW c \in Look, NEW name \in Spelling,
             Categories!RenameCategory(w, c, name)
      PROVE  Categories!TypeOK'
  <2>1. cat' \in [Look -> [name : Spelling \cup {None}, auto : BOOLEAN]]
    BY <1>2 DEF Categories!RenameCategory, Categories!TypeOK
  <2> QED BY <1>2, <2>1 DEF Categories!RenameCategory, Categories!txVars, Categories!TypeOK
<1>3. ASSUME NEW w \in Worker, NEW c \in Look, Categories!DeleteCategory(w, c)
      PROVE  Categories!TypeOK'
  BY <1>3, DropTyped DEF Categories!DeleteCategory, Categories!TypeOK
<1>4. ASSUME NEW w \in Worker, Categories!Abort(w) PROVE Categories!TypeOK'
  <2>1. Categories!Idle \in Categories!Request
    BY DEF Categories!Idle, Categories!Request, Categories!Step
  <2>2. req' \in [Worker -> Categories!Request]
    BY <1>4, <2>1, RequestPut DEF Categories!Abort, Categories!Finish
  <2> QED BY <1>4, <2>2 DEF Categories!Abort, Categories!catVars, Categories!txVars, Categories!TypeOK
<1>5. ASSUME NEW t \in Ptx, Categories!BankRemove(t) PROVE Categories!TypeOK'
  BY <1>5 DEF Categories!BankRemove, Categories!catVars, Categories!TypeOK
<1> QED BY <1>1, <1>2, <1>3, <1>4, <1>5 DEF Categories!Managing

LEMMA CategoriesTyped ==
    ASSUME Categories!TypeOK, Categories!Next
    PROVE  Categories!TypeOK'
BY LoggingTyped, MovingTyped, ElsewhereTyped DEF Categories!Next, Categories!UserNext

\* The categories' model values are their own.
LEMMA CategoryValues ==
    ASSUME Categories!AutoCategoryAssumption
    PROVE  None \notin Look /\ None \notin Ptx /\ None \notin Spelling
BY DEF Categories!AutoCategoryAssumption

LEMMA GoneKept ==
    ASSUME Categories!TypeOK, GoneFromAll, Categories!Next
    PROVE  GoneFromAll'
<1>1. ASSUME UNCHANGED << txBorn, txs, in >> PROVE GoneFromAll'
  BY <1>1 DEF GoneFromAll
<1>2. ASSUME NEW c, Categories!DropCategory(c) PROVE GoneFromAll'
  BY <1>2 DEF GoneFromAll, Categories!DropCategory
<1>3. ASSUME NEW w \in Worker, Categories!Logging(w) PROVE GoneFromAll'
  <2>1. CASE Categories!InsertTx(w)
    BY <2>1 DEF GoneFromAll, Categories!InsertTx, Categories!txVars, Categories!TypeOK
  <2>2. CASE Categories!InsertCat(w)
    BY <1>1, <2>2 DEF Categories!InsertCat, Categories!InsertCategory, Categories!txVars
  <2>3. CASE Categories!Select(w) \/ Categories!Reselect(w)
    BY <1>1, <2>3 DEF Categories!Select, Categories!Reselect, Categories!txVars
  <2>4. CASE \/ \E name \in Spelling, auto \in BOOLEAN : Categories!BeginLog(w, name, auto)
             \/ \E c \in Look : Categories!BeginLogInto(w, c)
    BY <1>1, <2>4 DEF Categories!BeginLog, Categories!BeginLogInto, Categories!txVars
  <2> QED BY <1>3, <2>1, <2>2, <2>3, <2>4 DEF Categories!Logging
<1>4. ASSUME NEW w \in Worker, Categories!Moving(w) PROVE GoneFromAll'
  <2>1. CASE \E t \in Ptx : \/ \E name \in Spelling \cup {None} : Categories!BeginChatEdit(w, t, name)
                            \/ \E c \in Look : Categories!BeginRestEdit(w, t, c)
                            \/ Categories!BeginDelete(w, t)
    BY <1>1, <2>1
       DEF Categories!BeginChatEdit, Categories!BeginRestEdit, Categories!BeginDelete, Categories!txVars
  <2>2. CASE Categories!ChatUpdate(w) \/ Categories!RestUpdate(w)
    BY <2>2 DEF GoneFromAll, Categories!ChatUpdate, Categories!RestUpdate, Categories!TypeOK
  <2>3. CASE Categories!Delete(w)
    BY <2>3 DEF GoneFromAll, Categories!Delete, Categories!TypeOK
  <2>4. CASE Categories!CleanupScan(w)
    BY <1>1, <2>4 DEF Categories!CleanupScan, Categories!txVars
  <2>5. CASE Categories!CleanupDelete(w)
    BY <1>2, <2>5 DEF Categories!CleanupDelete
  <2> QED BY <1>4, <2>1, <2>2, <2>3, <2>4, <2>5 DEF Categories!Moving
<1>5. ASSUME NEW w \in Worker, Categories!Managing(w) PROVE GoneFromAll'
  BY <1>1, <1>2, <1>5
     DEF Categories!Managing, Categories!CreateCategory, Categories!InsertCategory,
         Categories!RenameCategory, Categories!DeleteCategory, Categories!txVars
<1>6. ASSUME NEW t \in Ptx, Categories!BankRemove(t) PROVE GoneFromAll'
  BY <1>6 DEF GoneFromAll, Categories!BankRemove, Categories!TypeOK
<1>7. ASSUME NEW w \in Worker, Categories!Abort(w) PROVE GoneFromAll'
  BY <1>1, <1>7 DEF Categories!Abort, Categories!txVars
<1> QED BY <1>3, <1>4, <1>5, <1>6, <1>7 DEF Categories!Next, Categories!UserNext

-----------------------------------------------------------------------------
(* One request at a time. *)

\* The request goes on remembering what is true, and minds what it leaves empty.
GoesOn(w) ==
    \E q : /\ Categories!Become(w, q) /\ StandsOn(q)'
           /\ Minded(req[w]) => Minded(q)'

Quiet == UNCHANGED << catBorn, cats, cat, txBorn, txs, in >>

\* A step that only moves the request along keeps what it still minds.
LEMMA QuietGoes ==
    ASSUME NEW w \in Worker, NEW q, Quiet, Categories!Become(w, q), StandsOn(q),
           \A c \in cats : cat[c].auto /\ Categories!Empty(c) /\ Minds(req[w], c) => Minds(q, c)
    PROVE  GoesOn(w)
<1>1. StandsOn(q)'
  BY DEF Quiet, StandsOn, Locating, Categories!Matches, Categories!Orphaned, Categories!Empty
<1>2. Minded(req[w]) => Minded(q)
  BY DEF Minded
<1>3. Minded(q) => Minded(q)'
  BY DEF Quiet, Minded, Minds, Categories!Empty
<1> QED BY <1>1, <1>2, <1>3 DEF GoesOn

LEMMA IdleStands == StandsOn(Categories!Idle)
BY DEF Categories!Idle, StandsOn, Locating

\* A request that names a category minds none.
LEMMA BeginLogGoes ==
    ASSUME Categories!AutoCategoryAssumption, NEW w \in Worker, NEW name \in Spelling,
           NEW auto \in BOOLEAN, Categories!BeginLog(w, name, auto)
    PROVE  GoesOn(w)
<1>1. PICK q : q = [Categories!Idle EXCEPT !.at = "select", !.name = name, !.auto = auto]
  OBVIOUS
<1>2. q.at = "select" /\ q.name = name /\ q.tx = None
  BY <1>1 DEF Categories!Idle
<1>3. Quiet /\ Categories!Become(w, q) /\ req[w].at = "idle"
  BY <1>1 DEF Categories!BeginLog, Categories!At, Quiet, Categories!catVars, Categories!txVars
<1>4. StandsOn(q)
  BY <1>2, CategoryValues DEF StandsOn, Locating
<1> QED BY <1>3, <1>4, QuietGoes DEF Minds

LEMMA BeginLogIntoGoes ==
    ASSUME NEW w \in Worker, NEW c \in Look, Categories!BeginLogInto(w, c)
    PROVE  GoesOn(w)
<1>1. PICK q : q = [Categories!Idle EXCEPT !.at = "insertTx", !.to = c]
  OBVIOUS
<1>2. q.at = "insertTx"
  BY <1>1 DEF Categories!Idle
<1>3. Quiet /\ Categories!Become(w, q) /\ req[w].at = "idle"
  BY <1>1 DEF Categories!BeginLogInto, Categories!At, Quiet, Categories!catVars, Categories!txVars
<1>4. StandsOn(q)
  BY <1>2 DEF StandsOn, Locating
<1> QED BY <1>3, <1>4, QuietGoes DEF Minds

\* What a request that has found its category goes on as.
LEMMA ResolvedGoes ==
    ASSUME NEW r \in Categories!Request, r.at \in {"select", "insertCat", "reselect"}, StandsOn(r), NEW c,
           NEW q, q = Categories!Resolved(r, c)
    PROVE  /\ q.to = c /\ q.tx = r.tx /\ q.old = r.old /\ q.name = r.name /\ q.name # None
           /\ q.at \in {"insertTx", "chatUpdate"} /\ (q.at = "chatUpdate" => r.tx # None)
           /\ StandsOn(q)
<1>1. /\ q.to = c /\ q.tx = r.tx /\ q.old = r.old /\ q.name = r.name
      /\ q.at = IF r.tx = None THEN "insertTx" ELSE "chatUpdate"
  BY DEF Categories!Resolved, Categories!Request
<1>2. q.name # None
  BY <1>1 DEF StandsOn
<1> QED BY <1>1, <1>2 DEF StandsOn, Locating

LEMMA SelectGoes ==
    ASSUME Categories!TypeOK, NEW w \in Worker, StandsOn(req[w]), Categories!Select(w)
    PROVE  GoesOn(w)
<1>1. Quiet /\ req[w].at = "select" /\ req[w] \in Categories!Request
  BY CategoryRequest DEF Categories!Select, Categories!At, Quiet, Categories!catVars, Categories!txVars
<1>2. CASE Categories!Matches(req[w].name) = {}
  <2>1. PICK q : q = [req[w] EXCEPT !.at = "insertCat"]
    OBVIOUS
  <2>2. q.at = "insertCat" /\ q.tx = req[w].tx /\ q.name = req[w].name /\ q.old = req[w].old
    BY <1>1, <2>1 DEF Categories!Request
  <2>3. StandsOn(q)
    BY <1>1, <1>2, <2>2 DEF StandsOn, Locating
  <2>4. Categories!Become(w, q)
    BY <1>2, <2>1 DEF Categories!Select
  <2> QED BY <1>1, <2>3, <2>4, QuietGoes DEF Minds
<1>3. CASE Categories!Matches(req[w].name) # {}
  <2>1. PICK c : Categories!Become(w, Categories!Resolved(req[w], c))
    BY <1>3 DEF Categories!Select
  <2>2. PICK q : q = Categories!Resolved(req[w], c)
    OBVIOUS
  <2>3. StandsOn(q) /\ Categories!Become(w, q)
    BY <1>1, <2>1, <2>2, ResolvedGoes
  <2> QED BY <1>1, <2>3, QuietGoes DEF Minds
<1> QED BY <1>2, <1>3

LEMMA ReselectGoes ==
    ASSUME Categories!TypeOK, NEW w \in Worker, StandsOn(req[w]), Categories!Reselect(w)
    PROVE  GoesOn(w)
<1>1. Quiet /\ req[w].at = "reselect" /\ req[w] \in Categories!Request
  BY CategoryRequest DEF Categories!Reselect, Categories!At, Quiet, Categories!catVars, Categories!txVars
<1>2. CASE Categories!Matches(req[w].name) = {}
  <2>1. Categories!Become(w, Categories!Idle)
    BY <1>2 DEF Categories!Reselect, Categories!Finish
  <2> QED BY <1>1, <2>1, IdleStands, QuietGoes DEF Minds
<1>3. CASE Categories!Matches(req[w].name) # {}
  <2>1. PICK c : Categories!Become(w, Categories!Resolved(req[w], c))
    BY <1>3 DEF Categories!Reselect
  <2>2. PICK q : q = Categories!Resolved(req[w], c)
    OBVIOUS
  <2>3. StandsOn(q) /\ Categories!Become(w, q)
    BY <1>1, <2>1, <2>2, ResolvedGoes
  <2> QED BY <1>1, <2>3, QuietGoes DEF Minds
<1> QED BY <1>2, <1>3

LEMMA InsertCatGoes ==
    ASSUME Categories!TypeOK, NEW w \in Worker, StandsOn(req[w]), Categories!InsertCat(w)
    PROVE  GoesOn(w)
<1>1. req[w].at = "insertCat" /\ req[w] \in Categories!Request
  BY CategoryRequest DEF Categories!InsertCat, Categories!At
<1>2. CASE Categories!Taken(req[w].name)
  <2>1. PICK q : q = [req[w] EXCEPT !.at = "reselect"]
    OBVIOUS
  <2>2. q.at = "reselect" /\ q.tx = req[w].tx /\ q.name = req[w].name /\ q.old = req[w].old
    BY <1>1, <2>1 DEF Categories!Request
  <2>3. StandsOn(q)
    BY <1>1, <2>2 DEF StandsOn, Locating
  <2>4. Quiet /\ Categories!Become(w, q)
    BY <1>2, <2>1 DEF Categories!InsertCat, Quiet, Categories!catVars, Categories!txVars
  <2> QED BY <1>1, <2>3, <2>4, QuietGoes DEF Minds
<1>3. CASE ~ Categories!Taken(req[w].name)
  <2>1. PICK c \in Look : /\ Categories!InsertCategory(c, req[w].name, req[w].auto)
                          /\ Categories!Become(w, Categories!Resolved(req[w], c))
    BY <1>3 DEF Categories!InsertCat
  <2>2. PICK q : q = Categories!Resolved(req[w], c)
    OBVIOUS
  <2>3. /\ q.to = c /\ q.name # None /\ StandsOn(q)
        /\ q.at \in {"insertTx", "chatUpdate"} /\ Categories!Become(w, q)
    BY <1>1, <2>1, <2>2, ResolvedGoes
  <2>4. UNCHANGED << txBorn, txs, in >> /\ cats' = cats \cup {c}
        /\ \A d \in cats : d # c /\ cat'[d] = cat[d]
    BY <2>1 DEF Categories!InsertCategory, Categories!txVars, Categories!TypeOK
  <2>5. StandsOn(q)'
    BY <2>3, <2>4 DEF StandsOn, Locating
  <2>6. ASSUME Minded(req[w]) PROVE Minded(q)'
    <3>1. \A d \in cats : cat[d].auto => ~ Categories!Empty(d)
      BY <1>1, <2>6 DEF Minded, Minds
    <3>2. \A d \in cats : cat'[d].auto => ~ Categories!Empty(d)'
      BY <2>4, <3>1 DEF Categories!Empty
    <3>3. Minds(q, c)'
      BY <2>3 DEF Minds
    <3> QED BY <2>4, <3>2, <3>3 DEF Minded
  <2> QED BY <2>3, <2>5, <2>6 DEF GoesOn
<1> QED BY <1>2, <1>3

LEMMA InsertTxGoes ==
    ASSUME Categories!AutoCategoryAssumption, Categories!TypeOK, GoneFromAll, NEW w \in Worker,
           Categories!InsertTx(w)
    PROVE  GoesOn(w)
<1>1. req[w].at = "insertTx" /\ Categories!Become(w, Categories!Idle)
      /\ cats' = cats /\ cat' = cat
  BY DEF Categories!InsertTx, Categories!At, Categories!Finish, Categories!catVars
<1>2. StandsOn(Categories!Idle)'
  BY IdleStands DEF StandsOn, Locating, Categories!Idle
<1>3. ASSUME Minded(req[w]) PROVE Minded(Categories!Idle)'
  <2>1. \A d \in cats : cat[d].auto /\ Categories!Empty(d) => d = req[w].to
    BY <1>1, <1>3 DEF Minded, Minds
  <2>2. CASE req[w].to \in cats
    <3>1. PICK t \in Ptx : t \notin txBorn /\ txs' = txs \cup {t} /\ in' = [in EXCEPT ![t] = req[w].to]
      BY <2>2 DEF Categories!InsertTx
    <3>2. in'[t] = req[w].to /\ t \in txs' /\ \A u \in txs : u \in txs' /\ in'[u] = in[u]
      BY <3>1 DEF Categories!TypeOK
    <3>3. \A d \in cats : cat[d].auto => ~ Categories!Empty(d)'
      BY <2>1, <3>2 DEF Categories!Empty
    <3> QED BY <1>1, <3>3 DEF Minded
  <2>3. CASE req[w].to \notin cats
    <3>1. UNCHANGED << txs, in >>
      BY <2>3 DEF Categories!InsertTx, Categories!txVars
    <3>2. \A d \in cats : cat[d].auto => ~ Categories!Empty(d)'
      BY <2>1, <2>3, <3>1 DEF Categories!Empty
    <3> QED BY <1>1, <3>2 DEF Minded
  <2> QED BY <2>2, <2>3
<1> QED BY <1>1, <1>2, <1>3 DEF GoesOn

LEMMA BeginChatEditGoes ==
    ASSUME NEW w \in Worker, NEW t \in Ptx, NEW name \in Spelling \cup {None},
           Categories!BeginChatEdit(w, t, name)
    PROVE  GoesOn(w)
<1>1. PICK q : q = [Categories!Idle EXCEPT !.at = IF name = None THEN "chatUpdate" ELSE "select",
                                !.tx = t, !.name = name, !.auto = TRUE, !.old = in[t], !.to = in[t]]
  OBVIOUS
<1>2. /\ q.at = IF name = None THEN "chatUpdate" ELSE "select"
      /\ q.tx = t /\ q.name = name /\ q.old = in[t] /\ q.to = in[t]
  BY <1>1 DEF Categories!Idle
<1>3. Quiet /\ Categories!Become(w, q) /\ req[w].at = "idle" /\ t \in txs
  BY <1>1 DEF Categories!BeginChatEdit, Categories!At, Quiet, Categories!catVars, Categories!txVars
<1>4. StandsOn(q)
  BY <1>2, <1>3 DEF StandsOn, Locating
<1> QED BY <1>3, <1>4, QuietGoes DEF Minds

LEMMA BeginRestEditGoes ==
    ASSUME NEW w \in Worker, NEW t \in Ptx, NEW c \in Look, Categories!BeginRestEdit(w, t, c)
    PROVE  GoesOn(w)
<1>1. PICK q : q = [Categories!Idle EXCEPT !.at = "restUpdate", !.tx = t, !.to = c, !.old = in[t]]
  OBVIOUS
<1>2. q.at = "restUpdate" /\ q.tx = t /\ q.old = in[t]
  BY <1>1 DEF Categories!Idle
<1>3. Quiet /\ Categories!Become(w, q) /\ req[w].at = "idle" /\ t \in txs
  BY <1>1 DEF Categories!BeginRestEdit, Categories!At, Quiet, Categories!catVars, Categories!txVars
<1>4. StandsOn(q)
  BY <1>2, <1>3 DEF StandsOn, Locating
<1> QED BY <1>3, <1>4, QuietGoes DEF Minds

LEMMA BeginDeleteGoes ==
    ASSUME NEW w \in Worker, NEW t \in Ptx, Categories!BeginDelete(w, t)
    PROVE  GoesOn(w)
<1>1. PICK q : q = [Categories!Idle EXCEPT !.at = "delete", !.tx = t, !.old = in[t]]
  OBVIOUS
<1>2. q.at = "delete" /\ q.tx = t /\ q.old = in[t]
  BY <1>1 DEF Categories!Idle
<1>3. Quiet /\ Categories!Become(w, q) /\ req[w].at = "idle" /\ t \in txs
  BY <1>1 DEF Categories!BeginDelete, Categories!At, Quiet, Categories!catVars, Categories!txVars
<1>4. StandsOn(q)
  BY <1>2, <1>3 DEF StandsOn, Locating
<1> QED BY <1>3, <1>4, QuietGoes DEF Minds

\* A move fills the category it goes to, and may empty the one it leaves, for the
\* cleanup to see.
LEMMA MoveGoes ==
    ASSUME Categories!TypeOK, NEW w \in Worker, StandsOn(req[w]), Locating(req[w]),
           req[w].at \in {"chatUpdate", "restUpdate"}, req[w].to \in cats \cup {None},
           in' = [in EXCEPT ![req[w].tx] = req[w].to], Categories!Cleaning(w),
           UNCHANGED << cats, cat, txs >>
    PROVE  GoesOn(w)
<1>1. req[w] \in Categories!Request /\ req[w].tx \in txs /\ in[req[w].tx] = req[w].old
  BY CategoryRequest DEF StandsOn
<1>2. PICK q : q = [req[w] EXCEPT !.at = IF req[w].to # req[w].old THEN "cleanup" ELSE "idle"]
  OBVIOUS
<1>3. q.at = (IF req[w].to # req[w].old THEN "cleanup" ELSE "idle") /\ q.old = req[w].old
  BY <1>1, <1>2 DEF Categories!Request
<1>4. Categories!Become(w, q)
  BY <1>2 DEF Categories!Cleaning
<1>5. StandsOn(q)'
  BY <1>3 DEF StandsOn, Locating
<1>6. in'[req[w].tx] = req[w].to /\ \A u \in txs : u # req[w].tx => in'[u] = in[u]
  BY <1>1 DEF Categories!TypeOK
<1>7. ASSUME Minded(req[w]) PROVE Minded(q)'
  <2>1. \A d \in cats : cat[d].auto /\ Categories!Empty(d) => d = req[w].to
    BY <1>7 DEF Minded, Minds
  <2>2. \A d \in cats : cat[d].auto /\ Categories!Empty(d)' => d # req[w].to /\ d = req[w].old
    <3> TAKE d \in cats
    <3> HAVE cat[d].auto /\ Categories!Empty(d)'
    <3>1. d # req[w].to
      BY <1>1, <1>6 DEF Categories!Empty
    <3>2. ~ Categories!Empty(d)
      BY <2>1, <3>1
    <3> QED BY <1>1, <1>6, <3>1, <3>2 DEF Categories!Empty
  <2>3. \A d \in cats : cat[d].auto /\ Categories!Empty(d)' => Minds(q, d)'
    BY <1>3, <2>2 DEF Minds
  <2> QED BY <2>3 DEF Minded
<1> QED BY <1>4, <1>5, <1>7 DEF GoesOn

\* A request that ends minds no more: nothing it minded was there, or is empty.
LEMMA EndGoes ==
    ASSUME NEW w \in Worker, Quiet, Categories!Finish(w),
           \A c \in cats : cat[c].auto /\ Categories!Empty(c) => ~ Minds(req[w], c)
    PROVE  GoesOn(w)
BY IdleStands, QuietGoes DEF Categories!Finish

LEMMA ChatUpdateGoes ==
    ASSUME Categories!TypeOK, NEW w \in Worker, StandsOn(req[w]), Categories!ChatUpdate(w)
    PROVE  GoesOn(w)
<1>1. req[w].at = "chatUpdate" /\ Locating(req[w]) /\ req[w].tx \in txs
      /\ UNCHANGED << catBorn, cats, cat, txBorn, txs >>
  BY DEF Categories!ChatUpdate, Categories!At, Categories!catVars, StandsOn, Locating
<1>2. CASE req[w].to \in cats \cup {None}
  BY <1>1, <1>2, MoveGoes DEF Categories!ChatUpdate
<1>3. CASE req[w].to \notin cats \cup {None}
  BY <1>1, <1>3, EndGoes DEF Categories!ChatUpdate, Quiet, Minds
<1> QED BY <1>2, <1>3

LEMMA RestUpdateGoes ==
    ASSUME Categories!TypeOK, NEW w \in Worker, StandsOn(req[w]), Categories!RestUpdate(w)
    PROVE  GoesOn(w)
<1>1. req[w].at = "restUpdate" /\ Locating(req[w]) /\ req[w].tx \in txs
      /\ UNCHANGED << catBorn, cats, cat, txBorn, txs >>
  BY DEF Categories!RestUpdate, Categories!At, Categories!catVars, StandsOn, Locating
<1>2. CASE req[w].to \in cats
  BY <1>1, <1>2, MoveGoes DEF Categories!RestUpdate
<1>3. CASE req[w].to \notin cats
  BY <1>1, <1>3, EndGoes DEF Categories!RestUpdate, Quiet, Minds
<1> QED BY <1>2, <1>3

LEMMA DeleteGoes ==
    ASSUME Categories!TypeOK, NEW w \in Worker, StandsOn(req[w]), Categories!Delete(w)
    PROVE  GoesOn(w)
<1>1. req[w].at = "delete" /\ req[w].tx \in txs /\ in[req[w].tx] = req[w].old
      /\ req[w] \in Categories!Request
  BY CategoryRequest DEF Categories!Delete, Categories!At, StandsOn, Locating
<1>2. PICK q : q = [req[w] EXCEPT !.at = "cleanup"]
  OBVIOUS
<1>3. q.at = "cleanup" /\ q.old = req[w].old
  BY <1>1, <1>2 DEF Categories!Request
<1>4. /\ txs' = txs \ {req[w].tx} /\ in' = [in EXCEPT ![req[w].tx] = None]
      /\ Categories!Become(w, q) /\ cats' = cats /\ cat' = cat
  BY <1>1, <1>2 DEF Categories!Delete, Categories!catVars
<1>5. StandsOn(q)'
  BY <1>3 DEF StandsOn, Locating
<1>6. \A u \in txs : u # req[w].tx => u \in txs' /\ in'[u] = in[u]
  BY <1>4 DEF Categories!TypeOK
<1>7. ASSUME Minded(req[w]) PROVE Minded(q)'
  <2>1. \A d \in cats : cat[d].auto => ~ Categories!Empty(d)
    BY <1>1, <1>7 DEF Minded, Minds
  <2>2. \A d \in cats : cat[d].auto /\ Categories!Empty(d)' => d = req[w].old
    BY <1>1, <1>6, <2>1 DEF Categories!Empty
  <2>3. \A d \in cats : cat[d].auto /\ Categories!Empty(d)' => Minds(q, d)'
    BY <1>3, <2>2 DEF Minds
  <2> QED BY <1>4, <2>3 DEF Minded
<1> QED BY <1>4, <1>5, <1>7 DEF GoesOn

LEMMA CleanupScanGoes ==
    ASSUME Categories!TypeOK, NEW w \in Worker, Categories!CleanupScan(w)
    PROVE  GoesOn(w)
<1>1. req[w].at = "cleanup" /\ req[w] \in Categories!Request /\ Quiet
  BY CategoryRequest
     DEF Categories!CleanupScan, Categories!At, Quiet, Categories!catVars, Categories!txVars
<1>2. CASE Categories!Orphaned(req[w].old)
  <2>1. PICK q : q = [req[w] EXCEPT !.at = "cleanupDelete"]
    OBVIOUS
  <2>2. q.at = "cleanupDelete" /\ q.old = req[w].old
    BY <1>1, <2>1 DEF Categories!Request
  <2>3. Categories!Become(w, q) /\ StandsOn(q)
    BY <1>2, <2>1, <2>2 DEF Categories!CleanupScan, StandsOn, Locating
  <2> QED BY <1>1, <2>2, <2>3, QuietGoes DEF Minds
<1>3. CASE ~ Categories!Orphaned(req[w].old)
  <2>1. Categories!Finish(w)
    BY <1>3 DEF Categories!CleanupScan
  <2> QED BY <1>1, <1>3, <2>1, EndGoes DEF Minds, Categories!Orphaned
<1> QED BY <1>2, <1>3

\* What is left empty by a category's end was empty before.
LEMMA DropLeaves ==
    ASSUME Categories!TypeOK, NEW c, Categories!DropCategory(c)
    PROVE  \A d \in cats' : d \in cats /\ d # c /\ cat'[d] = cat[d]
                            /\ (Categories!Empty(d)' => Categories!Empty(d))
BY DEF Categories!DropCategory, Categories!Empty, Categories!TypeOK

LEMMA CleanupDeleteGoes ==
    ASSUME Categories!TypeOK, NEW w \in Worker, Categories!CleanupDelete(w)
    PROVE  GoesOn(w)
<1>1. req[w].at = "cleanupDelete" /\ Categories!DropCategory(req[w].old)
      /\ Categories!Become(w, Categories!Idle)
  BY DEF Categories!CleanupDelete, Categories!At, Categories!Finish
<1>2. StandsOn(Categories!Idle)'
  BY DEF StandsOn, Locating, Categories!Idle
<1>3. ASSUME Minded(req[w]) PROVE Minded(Categories!Idle)'
  <2>1. \A d \in cats : cat[d].auto /\ Categories!Empty(d) => d = req[w].old
    BY <1>1, <1>3 DEF Minded, Minds
  <2>2. \A d \in cats' : cat'[d].auto => ~ Categories!Empty(d)'
    BY <1>1, <2>1, DropLeaves
  <2> QED BY <2>2 DEF Minded
<1> QED BY <1>1, <1>2, <1>3 DEF GoesOn

LEMMA UserGoes ==
    ASSUME Categories!AutoCategoryAssumption, Categories!TypeOK, GoneFromAll, NEW w \in Worker,
           StandsOn(req[w]), Categories!Logging(w) \/ Categories!Moving(w)
    PROVE  GoesOn(w)
<1>1. CASE Categories!Logging(w)
  BY <1>1, BeginLogGoes, BeginLogIntoGoes, SelectGoes, InsertCatGoes, ReselectGoes, InsertTxGoes
     DEF Categories!Logging
<1>2. CASE Categories!Moving(w)
  BY <1>2, BeginChatEditGoes, BeginRestEditGoes, BeginDeleteGoes, ChatUpdateGoes, RestUpdateGoes,
     DeleteGoes, CleanupScanGoes, CleanupDeleteGoes
     DEF Categories!Moving
<1> QED BY <1>1, <1>2

LEMMA CategoriesStart ==
    ASSUME Categories!MCInit
    PROVE  CategoriesSafe
<1>1. Categories!TypeOK
  BY DEF Categories!MCInit, Categories!Init, Categories!TypeOK, Categories!NoRow, Categories!Idle,
         Categories!Request, Categories!Step
<1>2. GoneFromAll
  BY DEF Categories!MCInit, Categories!Init, GoneFromAll
<1>3. CategoriesAlone
  BY IdleStands
     DEF Categories!MCInit, Categories!Init, CategoriesAlone, OneRequest, Categories!Idle
<1> QED BY <1>1, <1>2, <1>3 DEF CategoriesSafe

\* What ends where every request is idle.
LEMMA AllIdle ==
    ASSUME \A w \in Worker : req'[w].at = "idle",
           ~cut' => \A c \in cats' : cat'[c].auto => ~ Categories!Empty(c)'
    PROVE  CategoriesAlone'
BY DEF CategoriesAlone, OneRequest, StandsOn, Locating

LEMMA AloneKept ==
    ASSUME Categories!AutoCategoryAssumption, CategoriesSafe, Categories!MCNext
    PROVE  CategoriesAlone'
<1> SUFFICES ASSUME ~mixed' PROVE CategoriesAlone'
  BY DEF CategoriesAlone
<1> USE DEF CategoriesSafe
<1>1. /\ ~mixed /\ OneRequest /\ \A w \in Worker : StandsOn(req[w])
      /\ \A w \in Worker : req[w].at # "idle" => req'[w] # req[w]
  BY DEF Categories!MCNext, CategoriesAlone, Categories!At
<1>2. cut' = (cut \/ ~ Categories!UserNext)
  BY DEF Categories!MCNext
<1>3. ASSUME NEW w \in Worker, Categories!Logging(w) \/ Categories!Moving(w)
      PROVE  CategoriesAlone'
  <2>1. GoesOn(w)
    BY <1>1, <1>3, UserGoes
  <2>2. PICK q : Categories!Become(w, q) /\ StandsOn(q)' /\ (Minded(req[w]) => Minded(q)')
    BY <2>1 DEF GoesOn
  <2>3. req'[w] = q /\ \A v \in Worker \ {w} : req'[v] = req[v] /\ req[v].at = "idle"
    BY <1>1, <2>2, RequestPut
  <2>4. OneRequest'
    BY <2>3 DEF OneRequest
  <2>5. \A v \in Worker : StandsOn(req[v])'
    BY <2>2, <2>3 DEF StandsOn, Locating
  <2>6. ASSUME ~cut', NEW d \in cats', cat'[d].auto, Categories!Empty(d)'
        PROVE  \E v \in Worker : Minds(req[v], d)'
    <3>1. ~cut
      BY <1>2, <2>6
    <3>2. Minded(req[w])
      BY <1>1, <2>3, <3>1 DEF CategoriesAlone, Minded, Minds
    <3>3. Minds(q, d)'
      BY <2>2, <2>6, <3>2 DEF Minded
    <3> QED BY <2>3, <3>3 DEF Minds
  <2> QED BY <2>4, <2>5, <2>6 DEF CategoriesAlone
<1>4. ASSUME UNCHANGED req, cut' \/ (~cut => \A c \in cats' : c \in cats /\ cat'[c].auto =>
                              cat[c].auto /\ (Categories!Empty(c)' => Categories!Empty(c))),
             \A c \in cats' \ cats : ~ cat'[c].auto
      PROVE  CategoriesAlone'
  <2>1. \A w \in Worker : req[w].at = "idle" /\ req'[w] = req[w]
    BY <1>1, <1>4
  <2>2. ~cut => \A c \in cats : cat[c].auto => ~ Categories!Empty(c)
    BY <1>1, <2>1 DEF CategoriesAlone, Minds
  <2>3. ~cut' => ~cut
    BY <1>2
  <2>4. ~cut' => \A c \in cats' : cat'[c].auto => ~ Categories!Empty(c)'
    BY <1>4, <2>2, <2>3
  <2> QED BY <2>1, <2>4, AllIdle
<1>5. ASSUME NEW w \in Worker, Categories!Managing(w)
      PROVE  CategoriesAlone'
  <2>1. ASSUME NEW c \in Look, NEW name \in Spelling, Categories!CreateCategory(w, c, name)
        PROVE  CategoriesAlone'
    BY <1>4, <2>1
       DEF Categories!CreateCategory, Categories!InsertCategory, Categories!txVars, Categories!Empty,
           Categories!TypeOK
  <2>2. ASSUME NEW c \in Look, NEW name \in Spelling, Categories!RenameCategory(w, c, name)
        PROVE  CategoriesAlone'
    <3>1. /\ UNCHANGED << cats, txs, in, req >>
          /\ \A d \in cats : cat'[d].auto = cat[d].auto
      BY <2>2 DEF Categories!RenameCategory, Categories!txVars, Categories!TypeOK
    <3> QED BY <1>4, <3>1 DEF Categories!Empty
  <2>3. ASSUME NEW c \in Look, Categories!DeleteCategory(w, c)
        PROVE  CategoriesAlone'
    BY <1>4, <2>3, DropLeaves DEF Categories!DeleteCategory
  <2> QED BY <1>5, <2>1, <2>2, <2>3 DEF Categories!Managing
<1>6. ASSUME ~ Categories!UserNext, NEW w \in Worker, Categories!Abort(w)
      PROVE  CategoriesAlone'
  <2>1. req'[w] = Categories!Idle /\ \A v \in Worker \ {w} : req'[v] = req[v] /\ req[v].at = "idle"
    BY <1>1, <1>6, RequestPut DEF Categories!Abort, Categories!Finish
  <2>2. \A v \in Worker : req'[v].at = "idle"
    BY <2>1 DEF Categories!Idle
  <2>3. cut'
    BY <1>2, <1>6
  <2> QED BY <2>2, <2>3, AllIdle
<1>7. ASSUME ~ Categories!UserNext, NEW t \in Ptx, Categories!BankRemove(t)
      PROVE  CategoriesAlone'
  BY <1>2, <1>4, <1>7 DEF Categories!BankRemove, Categories!catVars
<1> QED BY <1>3, <1>5, <1>6, <1>7 DEF Categories!MCNext, Categories!Next, Categories!UserNext

CategoriesInv == part = "categories" => CategoriesSafe

LEMMA CategoriesInvHolds ==
    LedgerSpec => []CategoriesInv
<1>1. LedgerInit => CategoriesInv
  BY CategoriesStart DEF LedgerInit, CategoriesInv
<1>2. CategoriesInv /\ [LedgerNext]_<<part, syncVars, categoryVars>> => CategoriesInv'
  <2> SUFFICES ASSUME CategoriesInv, [LedgerNext]_<<part, syncVars, categoryVars>>,
                      part' = "categories"
               PROVE  CategoriesSafe'
    BY DEF CategoriesInv
  <2>1. CASE UNCHANGED <<part, syncVars, categoryVars>>
    <3>1. CategoriesSafe /\ UNCHANGED categoryVars
      BY <2>1 DEF CategoriesInv
    <3> QED BY <3>1
            DEF categoryVars, CategoriesSafe, Categories!TypeOK, GoneFromAll, CategoriesAlone, OneRequest,
                StandsOn, Locating, Minds, Categories!Matches, Categories!Orphaned, Categories!Empty
  <2>2. CASE LedgerNext
    <3>1. CategoriesSafe /\ Categories!MCNext
      BY <2>2 DEF LedgerNext, CategoriesInv
    <3>2. Categories!TypeOK' /\ GoneFromAll'
      BY <3>1, CategoriesTyped, GoneKept DEF CategoriesSafe, Categories!MCNext
    <3> QED BY <3>1, <3>2, AloneKept, LedgerAssumption DEF CategoriesSafe
  <2> QED BY <2>1, <2>2
<1> QED BY <1>1, <1>2, PTL DEF LedgerSpec

\* Between requests that come one at a time and are not cut off, every disposable
\* category holds a transaction.
THEOREM EmptiesAreReclaimed == LedgerSpec => []ReclaimedAlone
<1>1. CategoriesInv => ReclaimedAlone
  BY DEF CategoriesInv, ReclaimedAlone, Categories!ReclaimedAlone, Categories!Reclaimed,
         Categories!At, CategoriesSafe, CategoriesAlone, Minds
<1> QED BY <1>1, CategoriesInvHolds, PTL

\* A request that runs alone adds no second spelling of a category, takes a category away
\* from no transaction when it cleans up, and moves none that it was not asked to move.
THEOREM CategoriesSpared == LedgerSpec => CategoriesSparedAlone
<1>1. CategoriesInv => [part = "categories" => Categories!SparedAlone]_categoryVars
  <2> SUFFICES ASSUME CategoriesSafe PROVE Categories!SparedAlone
    BY DEF CategoriesInv
  <2>1. Categories!NoSecondSpelling
    BY DEF Categories!NoSecondSpelling, CategoriesSafe, CategoriesAlone, StandsOn, Categories!InsertCat,
           Categories!At, Categories!Matches
  <2>2. Categories!CleanupSparesUsed
    <3> SUFFICES ASSUME ~mixed, NEW w \in Worker, Categories!CleanupDelete(w) PROVE in' = in
      BY DEF Categories!CleanupSparesUsed
    <3>1. Categories!Orphaned(req[w].old)
      BY DEF CategoriesSafe, CategoriesAlone, StandsOn, Categories!CleanupDelete, Categories!At
    <3>2. \A t \in Ptx : in[t] # req[w].old
      BY <3>1, CategoryValues, LedgerAssumption
         DEF Categories!Orphaned, Categories!Empty, CategoriesSafe, GoneFromAll, Categories!TypeOK
    <3> QED BY <3>2
            DEF Categories!CleanupDelete, Categories!DropCategory, CategoriesSafe, Categories!TypeOK
  <2>3. Categories!EditKeepsCategory
    <3> SUFFICES ASSUME ~mixed, NEW w \in Worker, Categories!ChatUpdate(w), req[w].name = None
                 PROVE  in' = in
      BY DEF Categories!EditKeepsCategory
    <3>1. req[w].at = "chatUpdate" /\ req[w].to = req[w].old /\ in[req[w].tx] = req[w].old
          /\ req[w].tx \in txs
      BY DEF CategoriesSafe, CategoriesAlone, StandsOn, Locating, Categories!ChatUpdate, Categories!At
    <3> QED BY <3>1 DEF Categories!ChatUpdate, CategoriesSafe, Categories!TypeOK
  <2> QED BY <2>1, <2>2, <2>3 DEF Categories!SparedAlone
<1> QED BY <1>1, CategoriesInvHolds, PTL DEF CategoriesSparedAlone

-----------------------------------------------------------------------------
(* Both *)

\* While the categories are shown the account rests, so it is never but observed.
LEMMA LedgerObserves == LedgerSpec => ObservedSpec
<1>1. LedgerInit => MCInit
  BY DEF LedgerInit
<1>2. [LedgerNext]_<<part, syncVars, categoryVars>> => [Next /\ Observed]_<<vars, overlapped>>
  BY DEF LedgerNext, MCNext, syncVars
<1> QED BY <1>1, <1>2, PTL DEF LedgerSpec, ObservedSpec

\* Rows, cursors, pages and requests keep their types.  A transaction's category is always
\* a category that exists.
THEOREM LedgerTyped == LedgerSpec => []LedgerTypeOK
<1>1. ObservedSpec => Spec
  <2>1. MCInit => Init
    BY DEF MCInit
  <2>2. [Next /\ Observed]_<<vars, overlapped>> => [Next]_vars
    OBVIOUS
  <2> QED BY <2>1, <2>2, PTL DEF ObservedSpec, Spec
<1>2. (TypeOK /\ NothingSkipped) /\ CategoriesInv => LedgerTypeOK
  BY DEF CategoriesInv, CategoriesSafe, LedgerTypeOK
<1> QED BY <1>1, <1>2, LedgerObserves, NothingIsSkipped, CategoriesInvHolds, PTL
=============================================================================
