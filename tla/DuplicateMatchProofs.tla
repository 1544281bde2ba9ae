------------------------ MODULE DuplicateMatchProofs ------------------------
(***************************************************************************)
(* Proofs about DuplicateMatch, for any number of rows, requests and looks *)
(* and any relation Similar that satisfies the module's assumption.        *)
(*                                                                         *)
(* LinkShape and MergeSparesImports are not inductive: the UPDATE that     *)
(* writes a link, and the one that excludes a twin, work from what the     *)
(* request read some statements earlier.  RequestShape says what such a    *)
(* memory is still worth: ids never change their source and are never      *)
(* reused, so a remembered twin is a logged row, live or not.              *)
(*                                                                         *)
(* MatchedSound is the invariant of MCDuplicateMatch, whose histories tell *)
(* of requests that came one at a time, and of inserts alone.              *)
(***************************************************************************)
EXTENDS MCDuplicateMatch, FiniteSetTheorems, TLAPS

RequestShape ==
    \A w \in Worker :
        LET q == req[w] IN
        /\ q.at # "idle" => q.id \in born
        /\ q.at \in {"findTwin", "linkImport"} => IsImport(q.id)
        /\ q.at \in {"findImport", "linkLogged"} => ~IsImport(q.id)
        /\ q.at \in {"linkImport", "mergeExclude"} =>
              q.got \in born /\ ~IsImport(q.got)
        /\ q.at = "linkLogged" => q.got \in born /\ IsImport(q.got)

AuditShape ==
    \A r \in Row :
        /\ approvals[r] \in {0, 1}
        /\ approvals[r] = 1 => r \in born /\ row[r].review = "reviewed"
        /\ deletions[r] \in {0, 1}
        /\ deletions[r] = 1 => r \in born \ live

IInv == TypeOK /\ LinkShape /\ RequestShape /\ AuditShape

\* The state a ledger starts in satisfies the invariant.
LEMMA InitIInv == Init => IInv
BY NoneAssumption DEF Init, IInv, TypeOK, LinkShape, RequestShape, AuditShape,
   Idle, Columns, Source, Request, Step, IsImport

\* What a request remembers is replaced as a whole.
LEMMA RequestUpdate ==
    ASSUME TypeOK, NEW w \in Worker, NEW step \in Step,
           NEW r \in Row \cup {None}, NEW got \in Row \cup Look \cup {None}
    PROVE  /\ GoTo(w, step, r, got) => req' \in [Worker -> Request]
           /\ Begin(w, step, r) => req' \in [Worker -> Request]
           /\ Finish(w) => req' \in [Worker -> Request]
BY DEF TypeOK, Request, Idle, Step, GoTo, Finish, Begin

\* Marking a row reviewed keeps its columns well typed.
LEMMA MarkedType ==
    ASSUME TypeOK, NEW r \in Row
    PROVE  /\ MarkedReviewed(r) \in [Row -> Columns]
           /\ [row EXCEPT ![r].excluded = TRUE] \in [Row -> Columns]
           /\ row \in [Row -> Columns]
BY DEF TypeOK, MarkedReviewed, Columns

\* Recording a settlement, or not, keeps the counts natural numbers.
LEMMA SettledType ==
    ASSUME TypeOK, NEW r, NEW changed \in BOOLEAN, Settled(r, changed)
    PROVE  settlements' \in [Row -> Nat]
<1>1. \/ settlements' = [settlements EXCEPT ![r] = settlements[r] + 1]
      \/ settlements' = [settlements EXCEPT ![r] = settlements[r]]
  BY Zenon DEF Settled
<1> QED
  BY <1>1 DEF TypeOK

\* Every step keeps the columns, links, requests and audit counts well typed.
LEMMA TypeStep == TypeOK /\ [Next]_vars => TypeOK'
<1> SUFFICES ASSUME TypeOK, [Next]_vars PROVE TypeOK'
  OBVIOUS
<1> USE DEF audits
<1>0. /\ \A w \in Worker : /\ req[w].id \in Row \cup {None}
                            /\ req[w].got \in Row \cup Look \cup {None}
      /\ \A r \in Row : row[r].look \in Look \cup {None}
      /\ live \subseteq Row
  BY DEF TypeOK, Request, Columns
<1>1. ASSUME NEW w \in Worker, Matching(w) PROVE TypeOK'
  <2>1. ASSUME NEW r \in Row, NEW look \in Look, NEW excluded \in BOOLEAN,
               ImportInsert(w, r, look, excluded)
        PROVE  TypeOK'
    <3>1. req' \in [Worker -> Request]
      BY <2>1, RequestUpdate DEF ImportInsert, Step
    <3> QED
      BY <2>1, <3>1 DEF ImportInsert, Insert, TypeOK, Columns, Source
  <2>2. ASSUME NEW r \in Row, NEW look \in Look, LogInsert(w, r, look)
        PROVE  TypeOK'
    <3>1. req' \in [Worker -> Request]
      BY <2>2, RequestUpdate DEF LogInsert, Step
    <3> QED
      BY <2>2, <3>1 DEF LogInsert, Insert, TypeOK, Columns, Source
  <2>3. CASE LoadImport(w)
    <3>1. req' \in [Worker -> Request]
      BY <2>3, <1>0, RequestUpdate DEF LoadImport, Step
    <3> QED
      BY <2>3, <3>1 DEF LoadImport, TypeOK
  <2>4. CASE FindTwin(w)
    <3>1. req' \in [Worker -> Request]
      BY <2>4, <1>0, RequestUpdate DEF FindTwin, TwinCandidates, Step
    <3> QED
      BY <2>4, <3>1 DEF FindTwin, TypeOK
  <2>5. CASE LinkImport(w)
    <3>1. req' \in [Worker -> Request]
      BY <2>5, <1>0, RequestUpdate DEF LinkImport, Step
    <3> QED
      BY <2>5, <3>1 DEF LinkImport, SetLink, TypeOK
  <2>6. CASE LoadLogged(w)
    <3>1. req' \in [Worker -> Request]
      BY <2>6, <1>0, RequestUpdate DEF LoadLogged, Step
    <3> QED
      BY <2>6, <3>1 DEF LoadLogged, TypeOK
  <2>7. CASE FindImport(w)
    <3>1. req' \in [Worker -> Request]
      BY <2>7, <1>0, RequestUpdate DEF FindImport, ImportCandidates, Step
    <3> QED
      BY <2>7, <3>1 DEF FindImport, TypeOK
  <2>8. CASE LinkLogged(w)
    <3>1. req' \in [Worker -> Request]
      BY <2>8, <1>0, RequestUpdate DEF LinkLogged, Step
    <3> QED
      BY <2>8, <3>1 DEF LinkLogged, SetLink, TypeOK
  <2>9. QED
    BY <1>1, <2>1, <2>2, <2>3, <2>4, <2>5, <2>6, <2>7, <2>8 DEF Matching
<1>2. ASSUME NEW w \in Worker, Settling(w) PROVE TypeOK'
  <2>1. ASSUME NEW r \in Row, ApproveRead(w, r) PROVE TypeOK'
    <3>1. req' \in [Worker -> Request]
      BY <2>1, RequestUpdate DEF ApproveRead, Step
    <3> QED
      BY <2>1, <3>1 DEF ApproveRead, TypeOK
  <2>2. ASSUME NEW r \in Row, DeleteRead(w, r) PROVE TypeOK'
    <3>1. req' \in [Worker -> Request]
      BY <2>2, RequestUpdate DEF DeleteRead, Step
    <3> QED
      BY <2>2, <3>1 DEF DeleteRead, TypeOK
  <2>3. ASSUME NEW r \in Row, NEW step \in {"mergeExclude", "dismiss"},
               ResolveRead(w, r, step)
        PROVE  TypeOK'
    <3>1. req' \in [Worker -> Request]
      <4>1. match[r] \in Row \cup {None} /\ step \in Step
        BY DEF TypeOK, Step
      <4> QED
        BY <2>3, <4>1, RequestUpdate DEF ResolveRead
    <3> QED
      BY <2>3, <3>1 DEF ResolveRead, TypeOK
  <2>4. CASE ApproveUpdate(w)
    <3>1. req' \in [Worker -> Request]
      BY <2>4, <1>0, RequestUpdate DEF ApproveUpdate, Step
    <3>2. row' \in [Row -> Columns] /\ approvals' \in [Row -> Nat]
      <4>1. CASE AwaitsReview(req[w].id)
        <5>1. MarkedReviewed(req[w].id) \in [Row -> Columns]
          BY <4>1, <1>0, MarkedType DEF AwaitsReview
        <5>2. row' = MarkedReviewed(req[w].id)
          BY <2>4, <4>1 DEF ApproveUpdate
        <5>3. approvals' \in [Row -> Nat]
          BY <2>4, <4>1 DEF ApproveUpdate, TypeOK
        <5> QED
          BY <5>1, <5>2, <5>3
      <4>2. CASE ~AwaitsReview(req[w].id)
        BY <2>4, <4>2 DEF ApproveUpdate, TypeOK
      <4> QED
        BY <4>1, <4>2
    <3> QED
      BY <2>4, <3>1, <3>2 DEF ApproveUpdate, TypeOK
  <2>5. CASE DeleteExec(w)
    <3>1. req' \in [Worker -> Request]
      BY <2>5, <1>0, RequestUpdate DEF DeleteExec, Step
    <3> QED
      BY <2>5, <3>1, <1>0 DEF DeleteExec, Remove, TypeOK
  <2>6. CASE MergeExclude(w)
    <3>1. req' \in [Worker -> Request]
      BY <2>6, <1>0, RequestUpdate DEF MergeExclude, Step
    <3>2. row' \in [Row -> Columns]
      BY <2>6, <1>0, MarkedType DEF MergeExclude, TypeOK
    <3> QED
      BY <2>6, <3>1, <3>2 DEF MergeExclude, TypeOK
  <2>7. CASE MergeReview(w)
    <3>1. req' \in [Worker -> Request]
      BY <2>7, <1>0, RequestUpdate DEF MergeReview, Step
    <3>2. row' \in [Row -> Columns]
      <4>1. CASE req[w].id \in live
        <5>1. MarkedReviewed(req[w].id) \in [Row -> Columns]
          BY <4>1, <1>0, MarkedType
        <5>2. row' = MarkedReviewed(req[w].id) \/ row' = row
          BY <2>7 DEF MergeReview
        <5> QED
          BY <5>1, <5>2 DEF TypeOK
      <4>2. CASE req[w].id \notin live
        BY <2>7, <4>2 DEF MergeReview, TypeOK
      <4> QED
        BY <4>1, <4>2
    <3>3. settlements' \in [Row -> Nat]
      BY <2>7, SettledType, Zenon DEF MergeReview
    <3> QED
      BY <2>7, <3>1, <3>2, <3>3 DEF MergeReview, TypeOK
  <2>8. CASE Dismiss(w)
    <3>1. req' \in [Worker -> Request]
      BY <2>8, <1>0, RequestUpdate DEF Dismiss, Step
    <3>2. row' \in [Row -> Columns]
      <4>1. CASE req[w].id \in live
        <5>1. MarkedReviewed(req[w].id) \in [Row -> Columns]
          BY <4>1, <1>0, MarkedType
        <5>2. row' = MarkedReviewed(req[w].id) \/ row' = row
          BY <2>8 DEF Dismiss
        <5> QED
          BY <5>1, <5>2 DEF TypeOK
      <4>2. CASE req[w].id \notin live
        BY <2>8, <4>2 DEF Dismiss, TypeOK
      <4> QED
        BY <4>1, <4>2
    <3>3. settlements' \in [Row -> Nat]
      BY <2>8, SettledType, Zenon DEF Dismiss
    <3> QED
      BY <2>8, <3>1, <3>2, <3>3 DEF Dismiss, TypeOK
  <2>9. QED
    BY <1>2, <2>1, <2>2, <2>3, <2>4, <2>5, <2>6, <2>7, <2>8 DEF Settling
<1>3. ASSUME NEW w \in Worker, Abort(w) PROVE TypeOK'
  <2>1. req' \in [Worker -> Request]
    BY <1>3, <1>0, RequestUpdate DEF Abort, Step
  <2> QED
    BY <1>3, <2>1 DEF Abort, TypeOK
<1>4. CASE Ledger
  <2>1. ASSUME NEW r \in Row, BankRemove(r) PROVE TypeOK'
    BY <2>1 DEF BankRemove, Remove, TypeOK
  <2>2. ASSUME NEW r \in Row, NEW look \in Look, NEW excluded \in BOOLEAN,
               Edit(r, look, excluded)
        PROVE  TypeOK'
    BY <2>2 DEF Edit, TypeOK, Columns
  <2>3. ASSUME NEW r \in Row, NEW look \in Look, NEW excluded \in BOOLEAN,
               ImportUnmatched(r, look, excluded)
        PROVE  TypeOK'
    BY <2>3 DEF ImportUnmatched, Insert, TypeOK, Columns, Source
  <2>4. QED
    BY <1>4, <2>1, <2>2, <2>3 DEF Ledger
<1>5. CASE UNCHANGED vars
  BY <1>5 DEF vars, TypeOK
<1>6. QED
  BY <1>1, <1>2, <1>3, <1>4, <1>5 DEF Next

\* Ids are never reused and a row never changes its source.
LEMMA SourceStable ==
    ASSUME TypeOK, [Next]_vars
    PROVE  /\ born \subseteq born'
           /\ \A r \in born : IsImport(r)' <=> IsImport(r)
<1> USE DEF TypeOK, IsImport, Columns
<1>1. ASSUME NEW r \in Row, NEW cols, Insert(r, cols)
      PROVE  /\ born \subseteq born'
             /\ \A x \in born : IsImport(x)' <=> IsImport(x)
  BY <1>1 DEF Insert
<1>2. ASSUME UNCHANGED born,
             \/ row' = row
             \/ \E r \in Row : row' = MarkedReviewed(r)
             \/ \E r \in Row, e \in BOOLEAN : row' = [row EXCEPT ![r].excluded = e]
             \/ \E r \in Row, look \in Look, e \in BOOLEAN : Edit(r, look, e)
      PROVE  /\ born \subseteq born'
             /\ \A x \in born : IsImport(x)' <=> IsImport(x)
  <2>1. ASSUME NEW r \in Row, NEW look \in Look, NEW e \in BOOLEAN,
               Edit(r, look, e), NEW x \in Row
        PROVE  row'[x].source = row[x].source
    BY <2>1, Zenon DEF Edit
  <2> QED
    BY <1>2, <2>1 DEF MarkedReviewed
<1>3. ASSUME NEW w \in Worker, Matching(w)
      PROVE  /\ born \subseteq born'
             /\ \A x \in born : IsImport(x)' <=> IsImport(x)
  <2>1. \/ \E r \in Row, cols \in Columns : Insert(r, cols)
        \/ UNCHANGED <<born, row>>
    BY <1>3 DEF Matching, ImportInsert, LoadImport, FindTwin, LinkImport,
       LogInsert, LoadLogged, FindImport, LinkLogged, Source
  <2> QED
    BY <2>1, <1>1, <1>2
<1>4. ASSUME NEW w \in Worker, Settling(w) \/ Abort(w)
      PROVE  /\ born \subseteq born'
             /\ \A x \in born : IsImport(x)' <=> IsImport(x)
  <2>1. UNCHANGED born
    BY <1>4 DEF Settling, Abort, ApproveRead, ApproveUpdate, DeleteRead,
       DeleteExec, Remove, ResolveRead, MergeExclude, MergeReview, Dismiss
  <2>2. \/ row' = row
        \/ \E r \in Row : row' = MarkedReviewed(r)
        \/ \E r \in Row, e \in BOOLEAN : row' = [row EXCEPT ![r].excluded = e]
    BY <1>4 DEF Settling, Abort, ApproveRead, ApproveUpdate, DeleteRead,
       DeleteExec, Remove, ResolveRead, MergeExclude, MergeReview, Dismiss,
       AwaitsReview
  <2> QED
    BY <2>1, <2>2, <1>2
<1>5. CASE Ledger
  <2>1. \/ \E r \in Row, cols \in Columns : Insert(r, cols)
        \/ /\ UNCHANGED born
           /\ \/ row' = row
              \/ \E r \in Row, look \in Look, e \in BOOLEAN : Edit(r, look, e)
    BY <1>5 DEF Ledger, BankRemove, Remove, Edit, ImportUnmatched, Source
  <2> QED
    BY <2>1, <1>1, <1>2
<1>6. CASE UNCHANGED vars
  BY <1>6 DEF vars
<1> QED
  BY <1>3, <1>4, <1>5, <1>6 DEF Next

\* A link is written only on a remembered pair of the right sources, and the
\* foreign key clears it when its twin goes.
LEMMA LinkStep ==
    ASSUME TypeOK, LinkShape, RequestShape, [Next]_vars
    PROVE  LinkShape'
<1> USE NoneAssumption DEF LinkShape, TypeOK
<1>0. /\ born \subseteq born'
      /\ \A r \in born : IsImport(r)' <=> IsImport(r)
  BY SourceStable
<1>1. CASE UNCHANGED <<live, match>>
  BY <1>0, <1>1
<1>2. ASSUME NEW r \in Row, NEW cols, Insert(r, cols) PROVE LinkShape'
  BY <1>0, <1>2 DEF Insert
<1>3. ASSUME NEW r \in Row, Remove(r) PROVE LinkShape'
  BY <1>0, <1>3 DEF Remove
<1>4. ASSUME NEW r \in born, NEW t \in born, IsImport(r), ~IsImport(t),
             SetLink(r, t), UNCHANGED live
      PROVE  LinkShape'
  BY <1>0, <1>4 DEF SetLink
<1>5. ASSUME NEW w \in Worker, Matching(w) PROVE LinkShape'
  <2>1. CASE LinkImport(w)
    BY <2>1, <1>4 DEF LinkImport, RequestShape, At
  <2>2. CASE LinkLogged(w)
    BY <2>2, <1>4 DEF LinkLogged, RequestShape, At
  <2>3. CASE ~LinkImport(w) /\ ~LinkLogged(w)
    BY <1>5, <2>3, <1>1, <1>2
    DEF Matching, ImportInsert, LoadImport, FindTwin, LogInsert, LoadLogged,
        FindImport
  <2> QED
    BY <2>1, <2>2, <2>3
<1>6. ASSUME NEW w \in Worker, Settling(w) \/ Abort(w) PROVE LinkShape'
  <2>1. CASE Dismiss(w)
    BY <1>0, <2>1 DEF Dismiss
  <2>2. CASE DeleteExec(w)
    BY <2>2, <1>1, <1>3 DEF DeleteExec
  <2>3. CASE ~Dismiss(w) /\ ~DeleteExec(w)
    BY <1>6, <2>3, <1>1
    DEF Settling, Abort, ApproveRead, ApproveUpdate, DeleteRead, ResolveRead,
        MergeExclude, MergeReview
  <2> QED
    BY <2>1, <2>2, <2>3
<1>7. CASE Ledger
  BY <1>7, <1>1, <1>2, <1>3 DEF Ledger, BankRemove, Edit, ImportUnmatched
<1>8. CASE UNCHANGED vars
  BY <1>8, <1>1 DEF vars
<1> QED
  BY <1>5, <1>6, <1>7, <1>8 DEF Next

\* A step of one request leaves what the others remember true, so only what
\* the request itself remembers next has to be checked.
LEMMA OneRequest ==
    ASSUME TypeOK, RequestShape, [Next]_vars, NEW w \in Worker,
           NEW q \in Request, req' = [req EXCEPT ![w] = q],
           /\ q.at # "idle" => q.id \in born'
           /\ q.at \in {"findTwin", "linkImport"} => IsImport(q.id)'
           /\ q.at \in {"findImport", "linkLogged"} => ~IsImport(q.id)'
           /\ q.at \in {"linkImport", "mergeExclude"} =>
                 q.got \in born' /\ ~IsImport(q.got)'
           /\ q.at = "linkLogged" => q.got \in born' /\ IsImport(q.got)'
    PROVE  RequestShape'
<1>1. /\ born \subseteq born'
      /\ \A r \in born : IsImport(r)' <=> IsImport(r)
  BY SourceStable
<1>2. ASSUME NEW v \in Worker, v # w PROVE req'[v] = req[v]
  BY <1>2 DEF TypeOK
<1>3. req'[w] = q
  BY DEF TypeOK
<1> QED
  BY <1>1, <1>2, <1>3 DEF RequestShape, IsImport

\* Every memory of a request stays as good as RequestShape says.
LEMMA RequestStep ==
    ASSUME TypeOK, LinkShape, RequestShape, [Next]_vars
    PROVE  RequestShape'
<1>0. /\ \A w \in Worker : /\ req[w].id \in Row \cup {None}
                            /\ req[w].got \in Row \cup Look \cup {None}
      /\ \A r \in Row : row[r].look \in Look \cup {None}
      /\ \A r \in Row : match[r] \in Row \cup {None}
      /\ live \subseteq born /\ born \subseteq Row
  BY DEF TypeOK, Request, Columns
<1>1. /\ born \subseteq born'
      /\ \A r \in born : IsImport(r)' <=> IsImport(r)
  BY SourceStable
<1>2. CASE UNCHANGED req
  BY <1>1, <1>2 DEF RequestShape, IsImport
<1>3. ASSUME NEW w \in Worker, Finish(w) PROVE RequestShape'
  BY <1>3, OneRequest DEF Finish, Idle, Request, Step
<1>4. ASSUME NEW w \in Worker, NEW r \in born',
             NEW step \in {"loadImport", "loadLogged", "approve", "delete"},
             Begin(w, step, r)
      PROVE  RequestShape'
  <2>1. born' \subseteq Row
    BY TypeStep DEF TypeOK
  <2> QED
    BY <1>4, <2>1, OneRequest DEF Begin, GoTo, Request, Step
<1>5. ASSUME NEW w \in Worker, Matching(w) PROVE RequestShape'
  <2>1. ASSUME NEW r \in Row, NEW look \in Look, NEW excluded \in BOOLEAN,
               ImportInsert(w, r, look, excluded)
        PROVE  RequestShape'
    BY <2>1, <1>4 DEF ImportInsert, Insert
  <2>2. ASSUME NEW r \in Row, NEW look \in Look, LogInsert(w, r, look)
        PROVE  RequestShape'
    BY <2>2, <1>4 DEF LogInsert, Insert
  <2>3. CASE LoadImport(w)
    <3>1. CASE GoTo(w, "findTwin", req[w].id, row[req[w].id].look)
               /\ req[w].id \in live /\ IsImport(req[w].id)
      BY <3>1, <1>0, <1>1, OneRequest DEF GoTo, Request, Step
    <3> QED
      BY <2>3, <3>1, <1>3 DEF LoadImport
  <2>4. CASE FindTwin(w)
    <3>1. ASSUME NEW t \in TwinCandidates(req[w].id, req[w].got),
                 GoTo(w, "linkImport", req[w].id, t)
          PROVE  RequestShape'
      <4>1. t \in born /\ ~IsImport(t)
        BY <1>0 DEF TwinCandidates
      <4>2. req[w].id \in born /\ IsImport(req[w].id)
        BY <2>4 DEF FindTwin, RequestShape, At
      <4> QED
        BY <3>1, <4>1, <4>2, <1>0, <1>1, OneRequest DEF GoTo, Request, Step
    <3> QED
      BY <2>4, <3>1, <1>3 DEF FindTwin
  <2>5. CASE LoadLogged(w)
    <3>1. CASE GoTo(w, "findImport", req[w].id, row[req[w].id].look)
               /\ req[w].id \in live /\ ~IsImport(req[w].id)
      BY <3>1, <1>0, <1>1, OneRequest DEF GoTo, Request, Step
    <3> QED
      BY <2>5, <3>1, <1>3 DEF LoadLogged
  <2>6. CASE FindImport(w)
    <3>1. ASSUME NEW t \in ImportCandidates(req[w].id, req[w].got),
                 GoTo(w, "linkLogged", req[w].id, t)
          PROVE  RequestShape'
      <4>1. t \in born /\ IsImport(t)
        BY <1>0 DEF ImportCandidates
      <4>2. req[w].id \in born /\ ~IsImport(req[w].id)
        BY <2>6 DEF FindImport, RequestShape, At
      <4> QED
        BY <3>1, <4>1, <4>2, <1>0, <1>1, OneRequest DEF GoTo, Request, Step
    <3> QED
      BY <2>6, <3>1, <1>3 DEF FindImport
  <2> QED
    BY <1>5, <2>1, <2>2, <2>3, <2>4, <2>5, <2>6, <1>3
    DEF Matching, LinkImport, LinkLogged
<1>6. ASSUME NEW w \in Worker, Settling(w) \/ Abort(w) PROVE RequestShape'
  <2>1. ASSUME NEW r \in Row, ApproveRead(w, r) \/ DeleteRead(w, r)
        PROVE  RequestShape'
    BY <2>1, <1>0, <1>4 DEF ApproveRead, DeleteRead
  <2>2. ASSUME NEW r \in Row, NEW step \in {"mergeExclude", "dismiss"},
               ResolveRead(w, r, step)
        PROVE  RequestShape'
    <3>1. r \in born /\ match[r] \in born /\ ~IsImport(match[r])
      BY <2>2, <1>0 DEF ResolveRead, LinkShape
    <3> QED
      BY <2>2, <3>1, <1>0, <1>1, OneRequest DEF ResolveRead, GoTo, Request, Step
  <2>3. CASE MergeExclude(w)
    <3>1. ASSUME NEW got \in {req[w].got, None},
                 GoTo(w, "mergeReview", req[w].id, got)
          PROVE  RequestShape'
      <4>1. req[w].id \in born
        BY <2>3 DEF MergeExclude, RequestShape, At
      <4> QED
        BY <3>1, <4>1, <1>0, <1>1, OneRequest DEF GoTo, Request, Step
    <3> QED
      BY <2>3, <3>1 DEF MergeExclude
  <2> QED
    BY <1>6, <2>1, <2>2, <2>3, <1>3
    DEF Settling, Abort, ApproveUpdate, DeleteExec, MergeReview, Dismiss
<1>7. CASE Ledger
  BY <1>7, <1>2 DEF Ledger, BankRemove, Edit, ImportUnmatched
<1>8. CASE UNCHANGED vars
  BY <1>8, <1>2 DEF vars
<1> QED
  BY <1>5, <1>6, <1>7, <1>8 DEF Next

\* A reviewed row stays reviewed and a deleted id stays deleted, so neither
\* audit can be written twice.
LEMMA AuditStep ==
    ASSUME TypeOK, AuditShape, [Next]_vars
    PROVE  AuditShape'
<1> USE DEF AuditShape, TypeOK
<1>0. \A w \in Worker : req[w].id \in Row \cup {None}
  BY DEF Request
<1>1. ASSUME UNCHANGED <<approvals, deletions>>,
             born \subseteq born', live' \subseteq live \cup (born' \ born),
             \A r \in born : row[r].review = "reviewed" => row'[r].review = "reviewed"
      PROVE  AuditShape'
  BY <1>1
<1>2. ASSUME NEW r \in Row, NEW cols, Insert(r, cols), UNCHANGED audits
      PROVE  AuditShape'
  BY <1>1, <1>2 DEF Insert, audits
<1>3. ASSUME NEW r \in Row
      PROVE  /\ MarkedReviewed(r)[r].review = "reviewed"
             /\ \A x \in Row \ {r} : MarkedReviewed(r)[x] = row[x]
  BY DEF MarkedReviewed, Columns
<1>4. ASSUME \E r \in Row : row' = MarkedReviewed(r),
             UNCHANGED <<born, live, approvals, deletions>>
      PROVE  AuditShape'
  BY <1>1, <1>3, <1>4
<1>5. ASSUME NEW w \in Worker, Matching(w) PROVE AuditShape'
  <2>1. \/ \E r \in Row, cols \in Columns : Insert(r, cols) /\ UNCHANGED audits
        \/ UNCHANGED <<born, live, row, audits>>
    BY <1>5 DEF Matching, ImportInsert, LoadImport, FindTwin, LinkImport,
       LogInsert, LoadLogged, FindImport, LinkLogged, Columns, Source
  <2> QED
    BY <2>1, <1>1, <1>2 DEF audits
<1>6. ASSUME NEW w \in Worker, Settling(w) \/ Abort(w) PROVE AuditShape'
  <2>1. CASE ApproveUpdate(w)
    <3>1. CASE AwaitsReview(req[w].id)
      <4> DEFINE r == req[w].id
      <4>1. r \in Row /\ r \in born /\ approvals[r] = 0
        BY <3>1 DEF AwaitsReview
      <4>2. /\ row' = MarkedReviewed(r)
            /\ approvals' = [approvals EXCEPT ![r] = @ + 1]
            /\ UNCHANGED <<born, live, deletions>>
        BY <2>1, <3>1 DEF ApproveUpdate
      <4> QED
        BY <4>1, <4>2, <1>3
    <3>2. CASE ~AwaitsReview(req[w].id)
      BY <2>1, <3>2, <1>1 DEF ApproveUpdate
    <3> QED
      BY <3>1, <3>2
  <2>2. CASE DeleteExec(w)
    <3>1. CASE req[w].id \in live
      BY <2>2, <3>1 DEF DeleteExec, Remove
    <3>2. CASE req[w].id \notin live
      BY <2>2, <3>2, <1>1 DEF DeleteExec
    <3> QED
      BY <3>1, <3>2
  <2>3. CASE MergeExclude(w)
    <3>1. ASSUME NEW r \in Row
          PROVE  row'[r].review = row[r].review
      BY <2>3 DEF MergeExclude, Columns
    <3> QED
      BY <2>3, <3>1, <1>1 DEF MergeExclude, audits
  <2>4. CASE MergeReview(w)
    BY <2>4, <1>1, <1>4 DEF MergeReview
  <2>5. CASE Dismiss(w)
    BY <2>5, <1>1, <1>4 DEF Dismiss
  <2> QED
    BY <1>6, <2>1, <2>2, <2>3, <2>4, <2>5, <1>1
    DEF Settling, Abort, ApproveRead, DeleteRead, ResolveRead, audits
<1>7. CASE Ledger
  <2>1. ASSUME NEW r \in Row, NEW look \in Look, NEW e \in BOOLEAN,
               Edit(r, look, e), NEW x \in Row
        PROVE  row'[x].review = row[x].review
    BY <2>1 DEF Edit, Columns
  <2>2. ASSUME NEW r \in Row, NEW look \in Look, NEW e \in BOOLEAN,
               Edit(r, look, e)
        PROVE  AuditShape'
    BY <2>2, <2>1, <1>1 DEF Edit, audits
  <2>3. ASSUME NEW r \in Row, BankRemove(r) PROVE AuditShape'
    BY <2>3, <1>1 DEF BankRemove, Remove, audits
  <2> QED
    BY <1>7, <2>2, <2>3, <1>2 DEF Ledger, ImportUnmatched
<1>8. CASE UNCHANGED vars
  BY <1>8, <1>1 DEF vars, audits
<1> QED
  BY <1>5, <1>6, <1>7, <1>8 DEF Next

\* The inductive invariant holds in every reachable state of the ledger.
THEOREM Invariance == Spec => []IInv
<1>1. IInv /\ [Next]_vars => IInv'
  BY TypeStep, LinkStep, RequestStep, AuditStep DEF IInv
<1> QED
  BY InitIInv, <1>1, PTL DEF Spec

\* Rows, links and requests keep their types in every reachable state.
THEOREM TypeCorrect == Spec => []TypeOK
BY Invariance, PTL DEF IInv

\* Whatever inserts, edits, deletions, merges and bank retractions interleave,
\* a link runs from a live import to a live logged row.
THEOREM LinksWellFormed == Spec => []LinkShape
BY Invariance, PTL DEF IInv

\* However many requests approve one row at once, one of them is audited.
THEOREM AtMostOneApproval == Spec => []ApprovedOnce
<1>1. IInv => ApprovedOnce
  BY DEF IInv, AuditShape, ApprovedOnce, TypeOK
<1> QED
  BY Invariance, <1>1, PTL

\* However many requests and retractions delete one row, one audit is written,
\* and only once the row is gone for good.
THEOREM AtMostOneDeletion == Spec => []DeletedOnce
<1>1. IInv => DeletedOnce
  BY DEF IInv, AuditShape, DeletedOnce, TypeOK
<1> QED
  BY Invariance, <1>1, PTL

\* No race of requests and retractions writes an approval or a deletion twice.
THEOREM AuditTrail == Spec => []AuditedOnce
BY AtMostOneApproval, AtMostOneDeletion, PTL DEF AuditedOnce

\* A merge working from a link that has changed since still never takes an
\* imported row out of the budget.
THEOREM MergesSpareImports == Spec => MergeSparesImports
<1> DEFINE Spares == \A r \in live, w \in Worker :
                       MergeExclude(w) /\ IsImport(r) => row'[r] = row[r]
<1>1. IInv /\ [Next]_vars => Spares
  <2> SUFFICES ASSUME IInv, NEW r \in live, NEW w \in Worker,
                      MergeExclude(w), IsImport(r)
               PROVE  row'[r] = row[r]
    OBVIOUS
  <2> r \in Row
    BY DEF IInv, TypeOK
  <2>1. req[w].got # r
    BY DEF IInv, RequestShape, MergeExclude, At
  <2> QED
    BY <2>1 DEF MergeExclude, IInv, TypeOK
<1> QED
  BY Invariance, <1>1, PTL DEF Spec, MergeSparesImports


-----------------------------------------------------------------------------
(* Requests that come one at a time *)

Busy == {w \in Worker : req[w].at # "idle"}
Lone == \A v, w \in Busy : v = w

\* The twin a request is about to link is free, as is the row it has inserted.
FreeFor(w) ==
    /\ req[w].at = "linkImport" => ~Claimed(req[w].got)
    /\ req[w].at \in {"loadLogged", "findImport", "linkLogged"} => ~Claimed(req[w].id)

AloneShape == Lone /\ OneImportPerTwin /\ \A w \in Worker : FreeFor(w)

\* A step is of one request, or of none.
LEMMA OneMoves ==
    ASSUME TypeOK, NEW w \in Worker, Matching(w) \/ Settling(w) \/ Abort(w)
    PROVE  \A v \in Worker : v # w => req'[v] = req[v]
BY DEF TypeOK, Matching, Settling, Abort, ImportInsert, LogInsert, LoadImport, FindTwin, LinkImport,
    LoadLogged, FindImport, LinkLogged, ApproveRead, ApproveUpdate, DeleteRead, DeleteExec,
    ResolveRead, MergeExclude, MergeReview, Dismiss, Begin, GoTo, Finish

\* A second request is seen the moment it begins.
LEMMA LoneStep ==
    ASSUME TypeOK, Lone, Next, ~ Cardinality(Busy') > 1
    PROVE  Lone'
<1> SUFFICES ASSUME NEW x \in Busy', NEW y \in Busy', x # y
             PROVE  FALSE
  BY DEF Lone
<1>1. CASE \E w \in Worker : Matching(w) \/ Settling(w) \/ Abort(w)
  <2>1. PICK w \in Worker : Matching(w) \/ Settling(w) \/ Abort(w)
    BY <1>1
  <2>2. Busy' \subseteq Busy \cup {w}
    BY <2>1, OneMoves DEF Busy
  <2>3. Busy' \subseteq {x, y}
    BY <2>2 DEF Lone
  <2>4. Busy' = {x} \cup {y}
    BY <2>3
  <2>5. IsFiniteSet({x}) /\ Cardinality({x}) = 1 /\ y \notin {x}
    BY FS_Singleton
  <2>6. Cardinality({x} \cup {y}) = 2
    BY <2>5, FS_AddElement
  <2> QED
    BY <2>4, <2>6
<1>2. CASE UNCHANGED req
  BY <1>2 DEF Busy, Lone
<1> QED
  BY <1>1, <1>2 DEF Next, Ledger, BankRemove, Edit, ImportUnmatched

\* Only the two UPDATEs of the matcher make a link.
LEMMA OthersLinkNothing ==
    ASSUME TypeOK, LinkShape, Next, \A w \in Worker : ~LinkImport(w) /\ ~LinkLogged(w)
    PROVE  \A m \in live' : match'[m] # None => m \in live /\ match'[m] = match[m]
<1> USE DEF TypeOK
<1>1. CASE UNCHANGED <<live, match>>
  BY <1>1
<1>2. ASSUME NEW r \in Row, NEW cols, Insert(r, cols)
      PROVE  \A m \in live' : match'[m] # None => m \in live /\ match'[m] = match[m]
  BY <1>2 DEF Insert, LinkShape
<1>3. ASSUME NEW r \in Row, Remove(r)
      PROVE  \A m \in live' : match'[m] # None => m \in live /\ match'[m] = match[m]
  BY <1>3 DEF Remove
<1>4. ASSUME NEW w \in Worker, Matching(w) \/ Settling(w) \/ Abort(w)
      PROVE  \A m \in live' : match'[m] # None => m \in live /\ match'[m] = match[m]
  <2>1. CASE Dismiss(w)
    BY <2>1 DEF Dismiss
  <2>2. CASE DeleteExec(w)
    BY <2>2, <1>1, <1>3 DEF DeleteExec
  <2> QED
    BY <1>4, <2>1, <2>2, <1>1, <1>2
    DEF Matching, Settling, Abort, ImportInsert, LogInsert, LoadImport, FindTwin, LoadLogged, FindImport,
        ApproveRead, ApproveUpdate, DeleteRead, ResolveRead, MergeExclude, MergeReview
<1> QED
  BY <1>1, <1>2, <1>3, <1>4 DEF Next, Ledger, BankRemove, Edit, ImportUnmatched


\* One at a time, what a request found free is still free when it links it.
LEMMA AloneStep ==
    ASSUME TypeOK, LinkShape, RequestShape, AloneShape, Next, ~ Cardinality(Busy') > 1
    PROVE  AloneShape'
<1>1. Lone'
  BY LoneStep DEF AloneShape
<1>2. /\ \A w \in Worker : req[w].at # "idle" => req[w].id \in Row
      /\ \A w \in Worker : req[w].at = "linkImport" => req[w].got \in Row
      /\ live \subseteq Row /\ None \notin Row
  BY NoneAssumption DEF TypeOK, RequestShape
<1>3. CASE \A w \in Worker : ~LinkImport(w) /\ ~LinkLogged(w)
  <2>1. \A m \in live' : match'[m] # None => m \in live /\ match'[m] = match[m]
    BY <1>3, OthersLinkNothing
  <2>2. OneImportPerTwin'
    BY <2>1 DEF AloneShape, OneImportPerTwin
  <2> DEFINE Taken(t) == \E m \in live' : match'[m] = t
  <2>3. \A t \in Row : ~Claimed(t) => ~Taken(t)
    BY <1>2, <2>1 DEF Claimed
  <2>4. \A w \in Worker : FreeFor(w)' <=>
          /\ req'[w].at = "linkImport" => ~Taken(req'[w].got)
          /\ req'[w].at \in {"loadLogged", "findImport", "linkLogged"} => ~Taken(req'[w].id)
    BY DEF FreeFor, Claimed
  <2>5. \A w \in Worker :
          /\ req[w].at = "linkImport" => ~Taken(req[w].got)
          /\ req[w].at \in {"loadLogged", "findImport", "linkLogged"} => ~Taken(req[w].id)
    <3> HIDE DEF Taken
    <3> QED
      BY <1>2, <2>3 DEF AloneShape, FreeFor
  <2> HIDE DEF Taken
  <2>6. ASSUME NEW w \in Worker, Matching(w) \/ Settling(w) \/ Abort(w)
        PROVE  FreeFor(w)'
    <3>1. ASSUME NEW step, NEW r, NEW got, GoTo(w, step, r, got)
          PROVE  req'[w].at = step /\ req'[w].id = r /\ req'[w].got = got
      BY <3>1 DEF GoTo, TypeOK
    <3>2. ASSUME req'[w].at \notin {"linkImport", "loadLogged", "findImport", "linkLogged"}
          PROVE  FreeFor(w)'
      BY <2>4, <3>2
    <3>3. CASE Finish(w)
      BY <3>2, <3>3 DEF Finish, Idle, TypeOK
    <3>4. ASSUME NEW r \in Row, NEW look \in Look, LogInsert(w, r, look)
          PROVE  FreeFor(w)'
      <4>1. req'[w].at = "loadLogged" /\ req'[w].id = r /\ r \notin live
        BY <3>1, <3>4 DEF LogInsert, Begin, Insert, TypeOK
      <4>2. ~Claimed(r)
        BY <1>2, <4>1 DEF Claimed, LinkShape
      <4> QED
        BY <2>3, <2>4, <4>1, <4>2
    <3>5. CASE FindTwin(w)
      <4>1. ASSUME NEW t \in TwinCandidates(req[w].id, req[w].got), GoTo(w, "linkImport", req[w].id, t)
            PROVE  FreeFor(w)'
        <5>1. t \in Row /\ ~Claimed(t)
          BY <1>2 DEF TwinCandidates
        <5>2. req'[w].at = "linkImport" /\ req'[w].got = t
          BY <3>1, <4>1
        <5> QED
          BY <2>3, <2>4, <5>1, <5>2
      <4> QED
        BY <3>3, <3>5, <4>1 DEF FindTwin
    <3>6. CASE LoadLogged(w) \/ FindImport(w)
      <4>1. ASSUME ~Finish(w)
            PROVE  /\ req[w].at \in {"loadLogged", "findImport"}
                   /\ req'[w].id = req[w].id /\ req'[w].at # "linkImport"
        BY <3>1, <3>6, <4>1 DEF LoadLogged, FindImport, At
      <4> QED
        BY <2>4, <2>5, <3>3, <4>1
    <3>7. CASE LoadImport(w)
      <4>1. ASSUME ~Finish(w)
            PROVE  req'[w].at = "findTwin"
        BY <3>1, <3>7, <4>1 DEF LoadImport
      <4> QED
        BY <3>2, <3>3, <4>1
    <3>8. ASSUME NEW r \in Row, NEW look \in Look, NEW excluded \in BOOLEAN, ImportInsert(w, r, look, excluded)
          PROVE  FreeFor(w)'
      <4>1. req'[w].at = "loadImport"
        BY <3>1, <3>8 DEF ImportInsert, Begin
      <4> QED
        BY <3>2, <4>1
    <3>9. CASE Settling(w) \/ Abort(w)
      <4>1. ASSUME NEW step \in {"approve", "delete", "mergeExclude", "dismiss", "mergeReview"}, NEW r, NEW got,
                   GoTo(w, step, r, got)
            PROVE  FreeFor(w)'
        BY <3>1, <3>2, <4>1
      <4> QED
        BY <3>3, <3>9, <4>1
        DEF Settling, Abort, ApproveRead, ApproveUpdate, DeleteRead, DeleteExec, ResolveRead, MergeExclude,
            MergeReview, Dismiss, Begin
    <3> QED
      BY <1>3, <2>6, <3>4, <3>5, <3>6, <3>7, <3>8, <3>9 DEF Matching
  <2>7. ASSUME NEW w \in Worker PROVE FreeFor(w)'
    <3>1. ASSUME req'[w] = req[w] PROVE FreeFor(w)'
      BY <2>4, <2>5, <3>1
    <3>2. CASE UNCHANGED req
      BY <3>1, <3>2
    <3>3. ASSUME NEW v \in Worker, Matching(v) \/ Settling(v) \/ Abort(v) PROVE FreeFor(w)'
      BY <2>6, <3>1, <3>3, OneMoves
    <3> QED
      BY <3>2, <3>3 DEF Next, Ledger, BankRemove, Edit, ImportUnmatched
  <2> QED
    BY <1>1, <2>2, <2>7 DEF AloneShape
<1>4. ASSUME NEW w \in Worker, NEW r \in born, NEW t \in born, SetLink(r, t), UNCHANGED live,
             ~Claimed(t), Finish(w), req[w].at # "idle"
      PROVE  AloneShape'
  <2>1. \A m \in live' : match'[m] = match[m] \/ (m = r /\ match'[m] = t)
    BY <1>4 DEF SetLink, TypeOK
  <2>2. OneImportPerTwin'
    BY <1>4, <2>1 DEF AloneShape, OneImportPerTwin, Claimed
  <2>3. req'[w].at = "idle" /\ \A v \in Worker : v # w => req'[v] = req[v]
    BY <1>4 DEF Finish, Idle, TypeOK
  <2>4. \A v \in Worker : req'[v].at = "idle"
    BY <1>4, <2>3 DEF AloneShape, Lone, Busy
  <2>5. \A v \in Worker : FreeFor(v)'
    BY <2>4 DEF FreeFor
  <2> QED
    BY <1>1, <2>2, <2>5 DEF AloneShape
<1>5. ASSUME NEW w \in Worker, LinkImport(w) PROVE AloneShape'
  BY <1>4, <1>5 DEF LinkImport, At, AloneShape, FreeFor, RequestShape
<1>6. ASSUME NEW w \in Worker, LinkLogged(w) PROVE AloneShape'
  BY <1>4, <1>6 DEF LinkLogged, At, AloneShape, FreeFor, RequestShape
<1> QED
  BY <1>3, <1>5, <1>6


-----------------------------------------------------------------------------
(* Inserts that nothing else disturbs *)

Resembles(a, b) == <<row[a].look, row[b].look>> \in Similar

\* A pair the matcher is to find: the import is counted, and nothing else resembles either.
Pair(i, l) ==
    /\ i \in live /\ IsImport(i) /\ ~row[i].excluded
    /\ l \in live /\ ~IsImport(l)
    /\ Resembles(i, l)
    /\ \A k \in live \ {i, l} :
          (IsImport(k) => ~Resembles(k, l)) /\ (~IsImport(k) => ~Resembles(k, i))

\* What a request of the matcher knows is still so, as rows stay and are not edited.
Knows(w) ==
    LET q == req[w] IN
    /\ q.at \in {"idle", "loadImport", "findTwin", "linkImport", "loadLogged", "findImport", "linkLogged"}
    /\ q.at # "idle" => q.id \in live
    /\ q.at \in {"loadImport", "findTwin", "linkImport"} => IsImport(q.id)
    /\ q.at \in {"loadLogged", "findImport", "linkLogged"} => ~IsImport(q.id)
    /\ q.at = "loadLogged" => ~row[q.id].excluded
    /\ q.at \in {"findTwin", "findImport"} => q.got = row[q.id].look
    /\ q.at \in {"findTwin", "linkImport"} => ~row[q.id].excluded
    /\ q.at = "linkImport" => q.got \in live /\ ~IsImport(q.got) /\ Resembles(q.got, q.id)
    /\ q.at = "linkLogged" =>
          q.got \in live /\ IsImport(q.got) /\ ~row[q.got].excluded /\ Resembles(q.got, q.id)

LinksResemble ==
    \A i \in live : match[i] # None => ~row[i].excluded /\ Resembles(match[i], i)

\* A request is still to look for the twin of r.
Seeks(r) ==
    \E w \in Worker :
        req[w].id = r
        /\ req[w].at \in {"loadImport", "findTwin", "linkImport", "loadLogged", "findImport", "linkLogged"}

PairsComing == \A i, l \in live : Pair(i, l) => match[i] = l \/ Seeks(i) \/ Seeks(l)

Undisturbed == (\A w \in Worker : Knows(w)) /\ LinksResemble /\ PairsComing

\* Resemblance goes both ways.
LEMMA ResemblesBack == \A a, b : Resembles(a, b) <=> Resembles(b, a)
BY SimilarAssumption DEF Resembles

\* A step of the matcher takes no row away and changes none.
LEMMA MatchingKeepsRows ==
    ASSUME TypeOK, NEW w \in Worker, Matching(w)
    PROVE  live \subseteq live' /\ \A r \in live : row'[r] = row[r]
BY DEF TypeOK, Matching, ImportInsert, LogInsert, Insert, LoadImport, FindTwin, LinkImport, LoadLogged,
    FindImport, LinkLogged

\* So a pair has been one since its second row was inserted.
LEMMA PairWas ==
    ASSUME TypeOK, NEW w \in Worker, Matching(w), NEW i \in live, NEW l \in live, Pair(i, l)'
    PROVE  Pair(i, l)
BY MatchingKeepsRows DEF Pair, Resembles, IsImport

\* Of a pair neither is linked to another row, and no other row is a candidate.
LEMMA PairIsAlone ==
    ASSUME TypeOK, LinkShape, Undisturbed, NEW i \in live, NEW l \in live, Pair(i, l)
    PROVE  /\ match[i] # None => match[i] = l
           /\ \A m \in live : match[m] = l => m = i
           /\ \A w \in Worker :
                /\ req[w].at = "linkImport" /\ req[w].id = i => req[w].got = l
                /\ req[w].at = "linkLogged" /\ req[w].id = l => req[w].got = i
                /\ req[w].at = "linkLogged" /\ req[w].got = i => req[w].id = l
BY ResemblesBack, NoneAssumption DEF TypeOK, LinkShape, Undisturbed, LinksResemble, Knows, Pair


\* What a request goes on to, or is done with.
LEMMA WentTo ==
    ASSUME TypeOK, NEW w \in Worker
    PROVE  /\ \A step, r, got : GoTo(w, step, r, got) =>
                 req'[w].at = step /\ req'[w].id = r /\ req'[w].got = got
           /\ Finish(w) => req'[w].at = "idle"
BY DEF TypeOK, GoTo, Finish, Idle

\* What the matcher knows of the rows stays true.
LEMMA KnowsStep ==
    ASSUME TypeOK, Undisturbed, NEW w \in Worker, Matching(w), NEW v \in Worker
    PROVE  Knows(v)'
<1>1. live \subseteq live' /\ \A r \in live : row'[r] = row[r]
  BY MatchingKeepsRows
<1>2. /\ \A r \in live : IsImport(r)' <=> IsImport(r)
      /\ \A a, b \in live : Resembles(a, b)' <=> Resembles(a, b)
  BY <1>1 DEF IsImport, Resembles
<1>3. Knows(v) /\ Knows(w)
  BY DEF Undisturbed
<1>4. ASSUME req'[v] = req[v] PROVE Knows(v)'
  BY <1>1, <1>3, <1>4 DEF Knows, IsImport, Resembles
<1>5. ASSUME req'[w].at = "idle" PROVE Knows(w)'
  BY <1>5 DEF Knows
<1>6. Knows(w)'
  <2>1. ASSUME NEW r \in Row, NEW look \in Look, NEW excluded \in BOOLEAN, ImportInsert(w, r, look, excluded)
        PROVE  Knows(w)'
    <3>1. r \in live' /\ row'[r].source = "imported"
      BY <2>1 DEF ImportInsert, Insert, TypeOK
    <3>2. req'[w].at = "loadImport" /\ req'[w].id = r
      BY <2>1, WentTo DEF ImportInsert, Begin
    <3> QED
      BY <3>1, <3>2 DEF Knows, IsImport, Resembles
  <2>2. ASSUME NEW r \in Row, NEW look \in Look, LogInsert(w, r, look)
        PROVE  Knows(w)'
    <3>1. r \in live' /\ row'[r].source = "logged" /\ ~row'[r].excluded
      BY <2>2 DEF LogInsert, Insert, TypeOK
    <3>2. req'[w].at = "loadLogged" /\ req'[w].id = r
      BY <2>2, WentTo DEF LogInsert, Begin
    <3> QED
      BY <3>1, <3>2 DEF Knows, IsImport, Resembles
  <2>3. CASE LoadImport(w)
    <3>1. ASSUME ~Finish(w)
          PROVE  /\ req[w].at = "loadImport" /\ req[w].id \in live /\ IsImport(req[w].id)
                 /\ ~row[req[w].id].excluded /\ UNCHANGED <<live, row>>
                 /\ req'[w].at = "findTwin" /\ req'[w].id = req[w].id /\ req'[w].got = row[req[w].id].look
      BY <2>3, <3>1, WentTo DEF LoadImport, At
    <3> QED
      BY <1>5, <3>1, WentTo DEF Knows, IsImport
  <2>4. CASE LoadLogged(w)
    <3>1. ASSUME ~Finish(w)
          PROVE  /\ req[w].id \in live /\ ~IsImport(req[w].id) /\ UNCHANGED <<live, row>>
                 /\ req'[w].at = "findImport" /\ req'[w].id = req[w].id /\ req'[w].got = row[req[w].id].look
      BY <2>4, <3>1, WentTo DEF LoadLogged
    <3> QED
      BY <1>5, <3>1, WentTo DEF Knows, IsImport
  <2>5. CASE FindTwin(w)
    <3>1. ASSUME NEW t \in TwinCandidates(req[w].id, req[w].got), GoTo(w, "linkImport", req[w].id, t)
          PROVE  Knows(w)'
      <4>1. req[w].at = "findTwin" /\ UNCHANGED <<live, row>>
        BY <2>5 DEF FindTwin, At
      <4>2. /\ req[w].id \in live /\ IsImport(req[w].id) /\ ~row[req[w].id].excluded
            /\ t \in live /\ ~IsImport(t) /\ Resembles(t, req[w].id)
        BY <1>3, <4>1 DEF Knows, TwinCandidates, Resembles
      <4>3. req'[w].at = "linkImport" /\ req'[w].id = req[w].id /\ req'[w].got = t
        BY <3>1, WentTo
      <4> QED
        BY <4>1, <4>2, <4>3 DEF Knows, IsImport, Resembles
    <3> QED
      BY <1>5, <2>5, <3>1, WentTo DEF FindTwin
  <2>6. CASE FindImport(w)
    <3>1. ASSUME NEW t \in ImportCandidates(req[w].id, req[w].got), GoTo(w, "linkLogged", req[w].id, t)
          PROVE  Knows(w)'
      <4>1. req[w].at = "findImport" /\ UNCHANGED <<live, row>>
        BY <2>6 DEF FindImport, At
      <4>2. /\ req[w].id \in live /\ ~IsImport(req[w].id)
            /\ t \in live /\ IsImport(t) /\ ~row[t].excluded /\ Resembles(t, req[w].id)
        BY <1>3, <4>1 DEF Knows, ImportCandidates, Resembles
      <4>3. req'[w].at = "linkLogged" /\ req'[w].id = req[w].id /\ req'[w].got = t
        BY <3>1, WentTo
      <4> QED
        BY <4>1, <4>2, <4>3 DEF Knows, IsImport, Resembles
    <3> QED
      BY <1>5, <2>6, <3>1, WentTo DEF FindImport
  <2> QED
    BY <1>5, <2>1, <2>2, <2>3, <2>4, <2>5, <2>6, WentTo DEF Matching, LinkImport, LinkLogged
<1>7. CASE v # w
  BY <1>4, <1>7, OneMoves
<1> QED
  BY <1>6, <1>7

\* The matcher links what resembles, counted imports only.
LEMMA LinksStep ==
    ASSUME TypeOK, LinkShape, Undisturbed, NEW w \in Worker, Matching(w)
    PROVE  LinksResemble'
<1>1. live \subseteq live' /\ \A r \in live : row'[r] = row[r]
  BY MatchingKeepsRows
<1>2. ASSUME \A i \in live' : match'[i] # None =>
               i \in live /\ (match'[i] = match[i] \/ (match'[i] \in live /\ ~row[i].excluded
                                                       /\ Resembles(match'[i], i)))
      PROVE  LinksResemble'
  BY <1>1, <1>2 DEF Undisturbed, LinksResemble, LinkShape, Resembles, TypeOK
<1>3. CASE LinkImport(w) \/ LinkLogged(w)
  <2>1. Knows(w)
    BY DEF Undisturbed
  <2>2. CASE LinkImport(w)
    <3>1. req[w].at = "linkImport" /\ SetLink(req[w].id, req[w].got) /\ live' = live
      BY <2>2 DEF LinkImport, At
    <3>2. /\ req[w].id \in live /\ req[w].got \in live /\ ~row[req[w].id].excluded
          /\ Resembles(req[w].got, req[w].id)
      BY <2>1, <3>1 DEF Knows
    <3> QED
      BY <1>2, <3>1, <3>2 DEF SetLink, TypeOK
  <2>3. CASE LinkLogged(w)
    <3>1. req[w].at = "linkLogged" /\ SetLink(req[w].got, req[w].id) /\ live' = live
      BY <2>3 DEF LinkLogged, At
    <3>2. /\ req[w].id \in live /\ req[w].got \in live /\ ~row[req[w].got].excluded
          /\ Resembles(req[w].id, req[w].got)
      BY <2>1, <3>1, ResemblesBack DEF Knows
    <3> QED
      BY <1>2, <3>1, <3>2 DEF SetLink, TypeOK
  <2> QED
    BY <1>3, <2>2, <2>3
<1>4. CASE ~LinkImport(w) /\ ~LinkLogged(w)
  <2>1. \A m \in live' : match'[m] # None => m \in live /\ match'[m] = match[m]
    BY <1>4 DEF TypeOK, LinkShape, Matching, ImportInsert, LogInsert, Insert, LoadImport, FindTwin, LoadLogged,
                FindImport
  <2> QED
    BY <1>2, <2>1
<1> QED
  BY <1>3, <1>4


\* The second to be inserted of a pair finds the first, whatever else is inserted.
LEMMA PairsStep ==
    ASSUME TypeOK, LinkShape, RequestShape, Undisturbed, NEW w \in Worker, Matching(w)
    PROVE  PairsComing'
<1> SUFFICES ASSUME NEW i \in live', NEW l \in live', Pair(i, l)'
             PROVE  match'[i] = l \/ Seeks(i)' \/ Seeks(l)'
  BY DEF PairsComing
<1>1. /\ \A v \in Worker : v # w => req'[v] = req[v]
      /\ Knows(w) /\ match \in [Row -> Row \cup {None}] /\ live \subseteq Row /\ born \subseteq Row
  BY OneMoves DEF Undisturbed, TypeOK
<1>2. ASSUME NEW r \in {i, l}, NEW step \in {"loadImport", "findTwin", "linkImport", "loadLogged",
                                             "findImport", "linkLogged"}, NEW got, GoTo(w, step, r, got)
      PROVE  Seeks(i)' \/ Seeks(l)'
  BY <1>2, WentTo DEF Seeks
<1>3. ASSUME NEW r \in Row, NEW look \in Look, NEW excluded \in BOOLEAN,
             ImportInsert(w, r, look, excluded) \/ LogInsert(w, r, look), r \in {i, l}
      PROVE  Seeks(i)' \/ Seeks(l)'
  BY <1>2, <1>3 DEF ImportInsert, LogInsert, Begin
<1>4. CASE ~ (i \in live /\ l \in live)
  BY <1>3, <1>4
  DEF Matching, ImportInsert, LogInsert, Insert, LoadImport, FindTwin, LinkImport, LoadLogged, FindImport,
      LinkLogged
<1>5. CASE i \in live /\ l \in live
  <2>1. Pair(i, l)
    BY <1>5, PairWas
  <2>2. /\ match[i] # None => match[i] = l
        /\ \A m \in live : match[m] = l => m = i
        /\ req[w].at = "linkImport" /\ req[w].id = i => req[w].got = l
        /\ req[w].at = "linkLogged" /\ req[w].id = l => req[w].got = i
        /\ req[w].at = "linkLogged" /\ req[w].got = i => req[w].id = l
    BY <1>5, <2>1, PairIsAlone
  <2>3. /\ IsImport(i) /\ ~IsImport(l) /\ ~row[i].excluded /\ i # l
        /\ <<row[i].look, row[l].look>> \in Similar /\ <<row[l].look, row[i].look>> \in Similar
    BY <2>1, ResemblesBack DEF Pair, Resembles
  <2>4. match[i] = l => match'[i] = l
    <3>1. CASE LinkImport(w)
      BY <1>1, <1>5, <2>2, <3>1 DEF LinkImport, SetLink, At
    <3>2. CASE LinkLogged(w)
      BY <1>1, <1>5, <2>2, <3>2 DEF LinkLogged, SetLink, At
    <3> QED
      BY <3>1, <3>2 DEF Matching, ImportInsert, LogInsert, Insert, LoadImport, FindTwin, LoadLogged, FindImport
  <2>5. ASSUME NEW v \in Worker, v # w, NEW r \in {i, l}, req[v].id = r,
               req[v].at \in {"loadImport", "findTwin", "linkImport", "loadLogged", "findImport", "linkLogged"}
        PROVE  Seeks(i)' \/ Seeks(l)'
    BY <1>1, <2>5 DEF Seeks
  <2>6. ASSUME req[w].id = i, req[w].at \in {"loadImport", "findTwin", "linkImport"}
        PROVE  match'[i] = l \/ Seeks(i)' \/ Seeks(l)'
    <3>1. CASE LoadImport(w)
      BY <1>2, <1>5, <2>3, <2>6, <3>1 DEF LoadImport
    <3>2. CASE FindTwin(w)
      <4>1. req[w].got = row[i].look
        BY <1>1, <2>6, <3>2 DEF Knows, FindTwin, At
      <4>2. TwinCandidates(i, req[w].got) = {} => match[i] = l
        BY <1>5, <2>2, <2>3, <4>1 DEF TwinCandidates, Claimed
      <4> QED
        BY <1>2, <2>4, <2>6, <3>2, <4>2 DEF FindTwin
    <3>3. CASE LinkImport(w)
      BY <1>1, <1>5, <2>2, <2>6, <3>3 DEF LinkImport, SetLink, At
    <3> QED
      BY <2>6, <3>1, <3>2, <3>3
      DEF Matching, ImportInsert, LogInsert, Begin, LoadLogged, FindImport, LinkLogged, At
  <2>7. ASSUME req[w].id = l, req[w].at \in {"loadLogged", "findImport", "linkLogged"}
        PROVE  match'[i] = l \/ Seeks(i)' \/ Seeks(l)'
    <3>1. CASE LoadLogged(w)
      <4>1. ~row[l].excluded
        BY <1>1, <2>7, <3>1 DEF Knows, LoadLogged, At
      <4> QED
        BY <1>2, <1>5, <2>3, <2>7, <3>1, <4>1 DEF LoadLogged
    <3>2. CASE FindImport(w)
      <4>1. req[w].got = row[l].look
        BY <1>1, <2>7, <3>2 DEF Knows, FindImport, At
      <4>2. ImportCandidates(l, req[w].got) = {} => match[i] = l
        BY <1>5, <2>2, <2>3, <4>1 DEF ImportCandidates
      <4> QED
        BY <1>2, <2>4, <2>7, <3>2, <4>2 DEF FindImport
    <3>3. CASE LinkLogged(w)
      BY <1>1, <1>5, <2>2, <2>7, <3>3 DEF LinkLogged, SetLink, At
    <3> QED
      BY <2>7, <3>1, <3>2, <3>3
      DEF Matching, ImportInsert, LogInsert, Begin, LoadImport, FindTwin, LinkImport, At
  <2>8. req[w].at \in {"loadImport", "findTwin", "linkImport"} => req[w].id # l
    BY <1>1, <2>3 DEF Knows
  <2>9. req[w].at \in {"loadLogged", "findImport", "linkLogged"} => req[w].id # i
    BY <1>1, <2>3 DEF Knows
  <2>10. match[i] = l \/ Seeks(i) \/ Seeks(l)
    BY <1>5, <2>1 DEF Undisturbed, PairsComing
  <2> QED
    BY <2>4, <2>5, <2>6, <2>7, <2>8, <2>9, <2>10 DEF Seeks
<1> QED
  BY <1>4, <1>5

-----------------------------------------------------------------------------
(* With the histories of MCDuplicateMatch *)

MatchedSound == IInv /\ (overlapped \/ AloneShape) /\ (disturbed \/ Undisturbed)

LEMMA MatchedStart == MCInit => MatchedSound
<1> SUFFICES ASSUME MCInit PROVE MatchedSound
  OBVIOUS
<1>1. IInv
  BY InitIInv DEF MCInit
<1>2. live = {} /\ \A w \in Worker : req[w].at = "idle"
  BY DEF MCInit, Init, Idle
<1>3. AloneShape
  BY <1>2 DEF AloneShape, Lone, Busy, OneImportPerTwin, FreeFor
<1>4. Undisturbed
  BY <1>2 DEF Undisturbed, Knows, LinksResemble, PairsComing
<1> QED
  BY <1>1, <1>3, <1>4 DEF MatchedSound

LEMMA MatchedStep ==
    ASSUME MatchedSound, [MCNext]_<<vars, overlapped, disturbed>>
    PROVE  MatchedSound'
<1>1. CASE MCNext
  <2>1. IInv'
    BY <1>1, TypeStep, LinkStep, RequestStep, AuditStep DEF MatchedSound, IInv, MCNext
  <2>2. ~overlapped' => ~overlapped /\ ~ Cardinality(Busy') > 1
    BY <1>1, Zenon DEF MCNext, Busy
  <2>3. overlapped' \/ AloneShape'
    BY <1>1, <2>2, AloneStep DEF MatchedSound, IInv, MCNext
  <2>4. ~disturbed' => ~disturbed /\ \E w \in Worker : Matching(w)
    BY <1>1, Zenon DEF MCNext
  <2>5. disturbed' \/ Undisturbed'
    <3> SUFFICES ASSUME ~disturbed' PROVE Undisturbed'
      OBVIOUS
    <3>1. PICK w \in Worker : Matching(w)
      BY <2>4
    <3>2. TypeOK /\ LinkShape /\ RequestShape /\ Undisturbed
      BY <2>4 DEF MatchedSound, IInv
    <3>3. \A v \in Worker : Knows(v)'
      BY <3>1, <3>2, KnowsStep
    <3>4. LinksResemble' /\ PairsComing'
      BY <3>1, <3>2, LinksStep, PairsStep
    <3> QED
      BY <3>3, <3>4 DEF Undisturbed
  <2> QED
    BY <2>1, <2>3, <2>5 DEF MatchedSound
<1>2. CASE UNCHANGED <<vars, overlapped, disturbed>>
  <2>1. IInv'
    BY <1>2, TypeStep, LinkStep, RequestStep, AuditStep DEF MatchedSound, IInv
  <2>2. (overlapped \/ AloneShape)'
    BY <1>2 DEF MatchedSound, AloneShape, Lone, Busy, OneImportPerTwin, FreeFor, Claimed, vars
  <2>3. ASSUME Undisturbed PROVE Undisturbed'
    <3>1. req' = req /\ row' = row /\ live' = live /\ match' = match
      BY <1>2 DEF vars
    <3>2. (\A w \in Worker : Knows(w)) /\ LinksResemble /\ PairsComing
      BY <2>3 DEF Undisturbed
    <3>3. \A w \in Worker : Knows(w)'
      BY <3>1, <3>2 DEF Knows, IsImport, Resembles
    <3>4. LinksResemble'
      BY <3>1, <3>2 DEF LinksResemble, Resembles, IsImport
    <3>5. PairsComing'
      BY <3>1, <3>2 DEF PairsComing, Pair, Seeks, Resembles, IsImport
    <3> QED
      BY <3>3, <3>4, <3>5 DEF Undisturbed
  <2>4. (disturbed \/ Undisturbed)'
    BY <1>2, <2>3 DEF MatchedSound
  <2> QED
    BY <2>1, <2>2, <2>4 DEF MatchedSound
<1> QED
  BY <1>1, <1>2

\* What the matcher promises of requests that come one at a time, and of inserts that
\* nothing else disturbs.
LEMMA MatchedSoundHolds ==
    ASSUME MatchedSound
    PROVE  LinkShape /\ OneImportPerTwinAlone /\ PairLinkedUndisturbed /\ ExcludedUnlinkedUndisturbed
<1>1. LinkShape /\ OneImportPerTwinAlone
  BY DEF MatchedSound, IInv, AloneShape, OneImportPerTwinAlone
<1>2. ASSUME Undisturbed PROVE UnambiguousPairLinked
  <2> SUFFICES ASSUME NEW i \in live, NEW l \in live,
                      IsImport(i), ~row[i].excluded, ~IsImport(l), Resembles(i, l),
                      \A k \in live \ {i, l} :
                         (IsImport(k) => ~Resembles(k, l)) /\ (~IsImport(k) => ~Resembles(k, i)),
                      \A w \in Worker : req[w].id \notin {i, l}
               PROVE  match[i] = l
    BY DEF UnambiguousPairLinked, Resembles
  <2>1. Pair(i, l)
    BY DEF Pair
  <2> QED
    BY <1>2, <2>1 DEF Undisturbed, PairsComing, Seeks
<1>3. ASSUME Undisturbed PROVE ExcludedImportsUnlinked
  BY <1>3 DEF Undisturbed, LinksResemble, ExcludedImportsUnlinked
<1> QED
  BY <1>1, <1>2, <1>3 DEF MatchedSound, PairLinkedUndisturbed, ExcludedUnlinkedUndisturbed

=============================================================================
