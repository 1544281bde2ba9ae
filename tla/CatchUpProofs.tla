---------------------------- MODULE CatchUpProofs ----------------------------
(***************************************************************************)
(* Proofs about Chat, the bank's sync, Reminders and Retention, for any    *)
(* numbers, windows and bounds.  The tab implements Outbox (SentInOrder), a*)
(* title a user gave stays (TitleKeptAlone), a tick that runs alone fires  *)
(* once per cadence and a purge that runs alone leaves nothing             *)
(* (TicksThoroughAlone); and the types (CatchUpTypeOK).                    *)
(***************************************************************************)
EXTENDS MCCatchUp, SequenceTheorems, FiniteSetTheorems, FunctionTheorems, TLAPS

-----------------------------------------------------------------------------
(* Sequences *)

\* An item is taken out of a sequence: the others stay, in their order.
LEMMA RemoveAtProperties ==
    ASSUME NEW S, NEW s \in Seq(S), NEW i \in 1 .. Len(s)
    PROVE  /\ RemoveAt(s, i) \in Seq(S)
           /\ Len(RemoveAt(s, i)) = Len(s) - 1
           /\ \A j \in 1 .. (Len(s) - 1) :
                 RemoveAt(s, i)[j] = IF j < i THEN s[j] ELSE s[j + 1]
<1> DEFINE before == SubSeq(s, 1, i - 1)
           after == SubSeq(s, i + 1, Len(s))
<1>1. Len(s) \in Nat
  OBVIOUS
<1>2. /\ before \in Seq(S) /\ Len(before) = i - 1
      /\ \A j \in 1 .. (i - 1) : before[j] = s[j]
  BY <1>1
<1>3. /\ after \in Seq(S) /\ Len(after) = Len(s) - i
      /\ \A j \in 1 .. (Len(s) - i) : after[j] = s[i + j]
  BY <1>1
<1>4. RemoveAt(s, i) = before \o after
  BY DEF RemoveAt
<1> HIDE DEF before, after
<1>5. /\ before \o after \in Seq(S)
      /\ Len(before \o after) = Len(before) + Len(after)
      /\ \A j \in 1 .. (Len(before) + Len(after)) :
            (before \o after)[j] = IF j <= Len(before) THEN before[j] ELSE after[j - Len(before)]
  BY <1>2, <1>3, ConcatProperties
<1>6. Len(before) + Len(after) = Len(s) - 1
  BY <1>1, <1>2, <1>3
<1>7. ASSUME NEW j \in 1 .. (Len(s) - 1)
      PROVE  RemoveAt(s, i)[j] = IF j < i THEN s[j] ELSE s[j + 1]
  <2>1. CASE j < i
    BY <1>1, <1>2, <1>4, <1>5, <1>6, <2>1
  <2>2. CASE j >= i
    <3>1. j - (i - 1) \in 1 .. (Len(s) - i) /\ i + (j - (i - 1)) = j + 1
      BY <1>1, <2>2
    <3>2. RemoveAt(s, i)[j] = after[j - (i - 1)]
      BY <1>1, <1>2, <1>4, <1>5, <1>6, <2>2
    <3>3. after[j - (i - 1)] = s[i + (j - (i - 1))]
      BY <1>3, <3>1
    <3> QED BY <2>2, <3>1, <3>2, <3>3
  <2> QED BY <1>1, <2>1, <2>2
<1> QED BY <1>4, <1>5, <1>6, <1>7

-----------------------------------------------------------------------------
(* What the tab and the server know of a message *)

Staged == [at : Stages, user : Accounts, thread : Messages \union {None}]

\* A message that waits, or is not typed yet, has been sent by no loop, has no turn
\* and no thread.
Waiting(m) == m > typed \/ \E i \in 1 .. Len(queue) : queue[i] = m
Fresh(m) == drain[m] = "none" /\ turn[m] = Over /\ thread[m] = None

QueueSound ==
  /\ \A i, j \in 1 .. Len(queue) : queue[i] = queue[j] => i = j
  /\ \A m \in Messages : Waiting(m) => Fresh(m)
  /\ \A m \in Messages : turn[m].at = "thread" => thread[m] = None
  /\ account = None => queue = << >>

\* A turn that names a thread found it without a title.
NamesSound ==
  \A m, k \in Messages :
     turn[m].at = "name" /\ turn[m].thread = k /\ thread[k] # None /\ thread[k].title = "own"
        => k \in renamed

ChatSound == TypeOK /\ QueueSound /\ NamesSound

\* A turn that is at one of its stages has a user and a thread, or is to have one.
LEMMA StageTypes ==
    ASSUME TypeOK, NEW m \in Messages
    PROVE  /\ turn[m].at \in Stages => turn[m] \in Staged
           /\ turn[m].at \notin Stages => turn[m].at \in {"over", "refused"}
           /\ turn[m].at = "over" <=> turn[m] = Over
BY DEF TypeOK, Staged, Stages, Over

LEMMA ChatSoundInit == MCInit => ChatSound
<1> SUFFICES ASSUME MCInit PROVE ChatSound
  OBVIOUS
<1>1. /\ account \in Accounts /\ typed = 0 /\ queue = << >> /\ isDraining = FALSE /\ active = None
      /\ drain = [m \in Messages |-> "none"] /\ turn = [m \in Messages |-> Over]
      /\ thread = [m \in Messages |-> None]
  BY DEF MCInit, Init
<1>2. queue \in Seq(1 .. typed) /\ Len(queue) = 0 /\ typed \in 0 .. MaxTyped /\ Len(queue) <= QueueCap
  BY <1>1, ChatAssumption
<1>3. TypeOK
  BY <1>1, <1>2 DEF TypeOK
<1>4. Over.at = "over"
  BY DEF Over
<1>5. QueueSound
  BY <1>1, <1>2, <1>4 DEF QueueSound, Fresh, Messages
<1>6. NamesSound
  BY <1>1 DEF NamesSound
<1> QED BY <1>3, <1>5, <1>6 DEF ChatSound

\* A pass of a drain loop sends the first message and no other.
LEMMA PassSends ==
    ASSUME TypeOK, QueueSound, account # None, NEW top \in 0 .. MaxTyped, NEW gone,
           NEW q \in Seq(1 .. top), q # << >>, Len(q) <= QueueCap + 1,
           \A i, j \in 1 .. Len(q) : q[i] = q[j] => i = j,
           \A i \in 1 .. Len(q) : Fresh(q[i]),
           gone \in Messages => drain[gone] = "pass",
           PassWith(q, gone)
    PROVE  /\ Head(q) \in 1 .. top /\ queue' = Tail(q)
           /\ queue' \in Seq(1 .. top) /\ Len(queue') <= QueueCap
           /\ \A i \in 1 .. Len(queue') : \E j \in 1 .. Len(q) : queue'[i] = q[j] /\ q[j] # Head(q)
           /\ \A i, j \in 1 .. Len(queue') : queue'[i] = queue'[j] => i = j
           /\ drain' \in [Messages -> {"none", "waiting", "reading", "pass"}]
           /\ turn' = [turn EXCEPT ![Head(q)] = Posted] /\ Posted \in Staged /\ Posted.at = "thread"
           /\ \A m \in Messages : drain[m] = "none" /\ m # Head(q) => drain'[m] = "none"
           /\ Posts = {Head(q)}
<1> DEFINE h == Head(q)
<1>1. /\ dequeue(q).item = h /\ dequeue(q).rest = Tail(q)
  BY DEF dequeue
<1>2. /\ Len(q) \in Nat \ {0} /\ h = q[1] /\ h \in 1 .. top /\ 1 \in 1 .. Len(q)
      /\ Tail(q) \in Seq(1 .. top) /\ Len(Tail(q)) = Len(q) - 1
      /\ \A i \in 1 .. (Len(q) - 1) : Tail(q)[i] = q[i + 1]
  OBVIOUS
<1>3. /\ queue' = Tail(q)
      /\ drain' = [m \in Messages |-> IF m = h THEN "waiting" ELSE IF m = gone THEN "none" ELSE drain[m]]
      /\ turn' = [turn EXCEPT ![h] = Posted]
  BY <1>1 DEF PassWith
<1> HIDE DEF h
<1>4. h \in Messages /\ Fresh(h)
  BY <1>2, ChatAssumption DEF Messages
<1>5. \A i \in 1 .. Len(queue') : \E j \in 1 .. Len(q) : queue'[i] = q[j] /\ q[j] # h
  <2> TAKE i \in 1 .. Len(queue')
  <2>1. i + 1 \in 1 .. Len(q) /\ queue'[i] = q[i + 1] /\ q[i + 1] # q[1]
    BY <1>2, <1>3
  <2> QED BY <1>2, <2>1
<1>6. \A i, j \in 1 .. Len(queue') : queue'[i] = queue'[j] => i = j
  BY <1>2, <1>3
<1>7. drain' \in [Messages -> {"none", "waiting", "reading", "pass"}]
  BY <1>3 DEF TypeOK
<1>8. Posted \in Staged /\ Posted.at = "thread"
  BY DEF Posted, Staged, Stages, TypeOK
<1>9. \A m \in Messages : drain[m] = "none" /\ m # h => drain'[m] = "none"
  BY <1>3
<1>10. Posts = {h}
  <2>1. drain[h] = "none" /\ drain'[h] = "waiting"
    BY <1>3, <1>4 DEF Fresh
  <2>2. \A m \in Messages \ {h} : ~(drain[m] = "none" /\ drain'[m] = "waiting")
    BY <1>3
  <2> QED BY <1>4, <2>1, <2>2 DEF Posts
<1>11. Len(queue') <= QueueCap
  BY <1>2, <1>3, ChatAssumption
<1> QED BY <1>2, <1>3, <1>5, <1>6, <1>7, <1>8, <1>9, <1>10, <1>11 DEF h

\* A pass keeps what is known of the messages, and goes out as one Send.
LEMMA PassKeeps ==
    ASSUME ChatSound, account # None, account' = account, thread' = thread, active' = active,
           typed' \in typed .. MaxTyped, isDraining' \in BOOLEAN, renamed' = renamed, NEW gone,
           NEW q \in Seq(1 .. typed'), q # << >>, Len(q) <= QueueCap + 1,
           \A i, j \in 1 .. Len(q) : q[i] = q[j] => i = j,
           \A i \in 1 .. Len(q) : Waiting(q[i]),
           gone \in Messages => drain[gone] = "pass",
           PassWith(q, gone), Note
    PROVE  ChatSound' /\ queue' = Tail(q) /\ sent' = Append(sent, Head(q))
<1> DEFINE h == Head(q)
<1>1. /\ TypeOK /\ QueueSound /\ typed' \in 0 .. MaxTyped
      /\ typed \in Nat /\ typed' \in Nat /\ MaxTyped \in Nat
  BY ChatAssumption DEF ChatSound, TypeOK
<1>2. \A i \in 1 .. Len(q) : Fresh(q[i])
  <2>1. \A i \in 1 .. Len(q) : q[i] \in Messages
    BY <1>1 DEF Messages
  <2> QED BY <1>1, <2>1 DEF QueueSound
<1>3. /\ h \in 1 .. typed' /\ queue' = Tail(q)
      /\ queue' \in Seq(1 .. typed') /\ Len(queue') <= QueueCap
      /\ \A i \in 1 .. Len(queue') : \E j \in 1 .. Len(q) : queue'[i] = q[j] /\ q[j] # h
      /\ \A i, j \in 1 .. Len(queue') : queue'[i] = queue'[j] => i = j
      /\ drain' \in [Messages -> {"none", "waiting", "reading", "pass"}]
      /\ turn' = [turn EXCEPT ![h] = Posted] /\ Posted \in Staged /\ Posted.at = "thread"
      /\ \A m \in Messages : drain[m] = "none" /\ m # h => drain'[m] = "none"
      /\ Posts = {h}
  BY <1>1, <1>2, PassSends
<1>4. thread[h] = None /\ h \in Messages /\ h <= typed'
  <2>1. h = q[1] /\ 1 \in 1 .. Len(q)
    OBVIOUS
  <2> QED BY <1>1, <1>2, <1>3, <2>1 DEF Fresh, Messages
<1> HIDE DEF h
<1>5. sent' = Append(sent, h)
  BY <1>3 DEF Note
<1>6. turn' \in [Messages -> {Over} \union Staged \union [at : {"refused"}]]
      /\ \A m \in Messages : turn'[m] = IF m = h THEN Posted ELSE turn[m]
  BY <1>1, <1>3, <1>4 DEF TypeOK, Staged
<1>7. TypeOK'
  BY <1>1, <1>3, <1>6 DEF TypeOK, Staged
<1>8. ASSUME NEW m \in Messages, Waiting(m)'
      PROVE  Fresh(m)'
  <2>1. Waiting(m) /\ m # h
    <3>1. CASE m > typed'
      BY <1>1, <1>4, <3>1 DEF Waiting, TypeOK, Messages
    <3>2. CASE \E i \in 1 .. Len(queue') : queue'[i] = m
      BY <1>3, <3>2
    <3> QED BY <1>8, <3>1, <3>2 DEF Waiting
  <2>2. Fresh(m)
    BY <1>1, <2>1 DEF QueueSound
  <2> QED BY <1>3, <1>6, <2>1, <2>2 DEF Fresh
<1>9. \A m \in Messages : turn'[m].at = "thread" => thread'[m] = None
  BY <1>1, <1>4, <1>6 DEF QueueSound
<1>10. QueueSound'
  BY <1>3, <1>8, <1>9 DEF QueueSound
<1>11. NamesSound'
  BY <1>3, <1>6 DEF ChatSound, NamesSound
<1> QED BY <1>3, <1>5, <1>7, <1>10, <1>11 DEF ChatSound, h

\* What the composer accepts, sends at once or keeps, is what Outbox does.
Sent == [Promise!Next]_Promise!outbox

\* A message that is accepted joins the end of the queue.
LEMMA AppendWaits ==
    ASSUME TypeOK, QueueSound, typed < MaxTyped
    PROVE  LET q == Append(queue, typed + 1) IN
             /\ q \in Seq(1 .. typed + 1) /\ q # << >> /\ Len(q) = Len(queue) + 1
             /\ \A i, j \in 1 .. Len(q) : q[i] = q[j] => i = j
             /\ \A i \in 1 .. Len(q) : Waiting(q[i])
<1> DEFINE q == Append(queue, typed + 1)
<1>1. /\ typed \in Nat /\ queue \in Seq(1 .. typed) /\ Len(queue) \in Nat
      /\ \A i \in 1 .. Len(queue) : queue[i] \in 1 .. typed
  BY DEF TypeOK
<1>2. queue \in Seq(1 .. typed + 1)
  <2>1. 1 .. typed \subseteq 1 .. typed + 1
    BY <1>1
  <2> QED BY <1>1, <2>1
<1>3. /\ q \in Seq(1 .. typed + 1) /\ Len(q) = Len(queue) + 1 /\ q[Len(queue) + 1] = typed + 1
      /\ \A i \in 1 .. Len(queue) : q[i] = queue[i]
  BY <1>1, <1>2
<1> HIDE DEF q
<1>4. \A i \in 1 .. Len(q) : i \in 1 .. Len(queue) \/ i = Len(queue) + 1
  BY <1>1, <1>3
<1>5. \A i, j \in 1 .. Len(q) : q[i] = q[j] => i = j
  <2> TAKE i, j \in 1 .. Len(q)
  <2>1. CASE i \in 1 .. Len(queue) /\ j \in 1 .. Len(queue)
    BY <1>3, <2>1 DEF QueueSound
  <2>2. \A k \in 1 .. Len(queue) : q[k] # typed + 1
    <3> TAKE k \in 1 .. Len(queue)
    <3>1. q[k] = queue[k] /\ queue[k] \in 1 .. typed
      BY <1>1, <1>3
    <3> QED BY <1>1, <3>1
  <2> QED BY <1>3, <1>4, <2>1, <2>2
<1>6. \A i \in 1 .. Len(q) : Waiting(q[i])
  <2> TAKE i \in 1 .. Len(q)
  <2>1. CASE i \in 1 .. Len(queue)
    BY <1>3, <2>1 DEF Waiting
  <2>2. CASE i = Len(queue) + 1
    BY <1>1, <1>3, <2>2 DEF Waiting
  <2> QED BY <1>4, <2>1, <2>2
<1>7. q # << >>
  BY <1>1, <1>3
<1> QED BY <1>3, <1>5, <1>6, <1>7 DEF q

LEMMA TypingSound ==
    ASSUME ChatSound, SendChatMessage, Note, renamed' = renamed
    PROVE  ChatSound' /\ Sent
<1> DEFINE q == Append(queue, typed + 1)
<1>1. /\ TypeOK /\ QueueSound /\ NamesSound /\ typed \in Nat /\ typed' = typed + 1 /\ typed < MaxTyped
      /\ account # None /\ account' = account /\ active' = active /\ thread' = thread
      /\ Len(queue) < QueueCap /\ Len(queue) \in Nat /\ MaxTyped \in Nat /\ QueueCap \in Nat
  BY ChatAssumption DEF ChatSound, TypeOK, SendChatMessage
<1>2. /\ q \in Seq(1 .. typed') /\ q # << >> /\ Len(q) = Len(queue) + 1
      /\ \A i, j \in 1 .. Len(q) : q[i] = q[j] => i = j
      /\ \A i \in 1 .. Len(q) : Waiting(q[i])
  BY <1>1, AppendWaits
<1>3. q = Append(queue, typed')
  BY <1>1
<1> HIDE DEF q
<1>4. CASE isDraining
  <2>1. queue' = q /\ isDraining' = isDraining /\ drain' = drain /\ turn' = turn
    BY <1>3, <1>4 DEF SendChatMessage
  <2>2. TypeOK'
    BY <1>1, <1>2, <2>1 DEF TypeOK
  <2>3. \A m \in Messages : Waiting(m)' => Waiting(m)
    BY <1>1, <1>2, <2>1 DEF Waiting, Messages
  <2>4. QueueSound'
    BY <1>1, <1>2, <2>1, <2>3 DEF QueueSound, Fresh
  <2>5. NamesSound'
    BY <1>1, <2>1 DEF NamesSound
  <2>6. Posts = {}
    BY <2>1 DEF Posts
  <2>7. sent' = sent
    BY <2>6 DEF Note
  <2>8. Promise!Accept
    BY <1>1, <1>3, <2>1, <2>7 DEF Promise!Accept
  <2> QED BY <2>2, <2>4, <2>5, <2>8 DEF ChatSound, Sent, Promise!Next
<1>5. CASE ~ isDraining
  <2>1. PassWith(q, None) /\ isDraining' = TRUE
    BY <1>3, <1>5 DEF SendChatMessage
  <2>2. None \notin Messages
    BY ChatAssumption DEF Messages
  <2>3. ChatSound' /\ queue' = Tail(q) /\ sent' = Append(sent, Head(q))
    <3>1. isDraining' \in BOOLEAN /\ typed' \in typed .. MaxTyped /\ Len(q) <= QueueCap + 1
      BY <1>1, <1>2, <2>1
    <3> QED BY <1>1, <1>2, <2>1, <2>2, <3>1, PassKeeps
  <2>4. Promise!AcceptAndSend
    BY <1>1, <1>3, <2>3 DEF Promise!AcceptAndSend
  <2> QED BY <2>3, <2>4 DEF Sent, Promise!Next
<1> QED BY <1>4, <1>5 DEF SendChatMessage

LEMMA DrainSound ==
    ASSUME ChatSound, NEW m \in Messages, DrainPass(m), Note, renamed' = renamed
    PROVE  ChatSound' /\ Sent
<1>1. /\ TypeOK /\ QueueSound /\ NamesSound /\ typed \in 0 .. MaxTyped /\ Len(queue) <= QueueCap
      /\ queue \in Seq(1 .. typed) /\ typed' = typed
      /\ account' = account /\ active' = active /\ thread' = thread /\ drain[m] = "pass"
      /\ MaxTyped \in Nat /\ QueueCap \in Nat /\ Len(queue) \in Nat
  BY ChatAssumption DEF ChatSound, TypeOK, DrainPass
<1>2. CASE queue # << >>
  <2>1. PassWith(queue, m) /\ isDraining' = isDraining /\ account # None
    BY <1>1, <1>2 DEF DrainPass, QueueSound
  <2>2. ChatSound' /\ queue' = Tail(queue) /\ sent' = Append(sent, Head(queue))
    <3>1. \A i \in 1 .. Len(queue) : Waiting(queue[i])
      BY DEF Waiting
    <3>2. isDraining' \in BOOLEAN /\ typed' \in typed .. MaxTyped /\ Len(queue) <= QueueCap + 1
      BY <1>1, <2>1 DEF TypeOK
    <3>3. \A i, j \in 1 .. Len(queue) : queue[i] = queue[j] => i = j
      BY <1>1 DEF QueueSound
    <3> QED BY <1>1, <1>2, <2>1, <3>1, <3>2, <3>3, PassKeeps
  <2>3. Promise!Send
    BY <1>1, <1>2, <2>2 DEF Promise!Send
  <2> QED BY <2>2, <2>3 DEF Sent, Promise!Next
<1>3. CASE queue = << >>
  <2>1. queue' = queue /\ drain' = [drain EXCEPT ![m] = "none"] /\ turn' = turn /\ isDraining' = FALSE
    BY <1>3 DEF DrainPass, EndDrain
  <2>2. TypeOK'
    BY <1>1, <2>1 DEF TypeOK
  <2>3. QueueSound'
    BY <1>1, <2>1 DEF QueueSound, Waiting, Fresh, TypeOK
  <2>4. NamesSound'
    BY <1>1, <2>1 DEF NamesSound
  <2>5. Posts = {}
    BY <1>1, <2>1 DEF Posts, TypeOK
  <2>6. UNCHANGED Promise!outbox
    BY <1>1, <2>1, <2>5 DEF Note, Promise!outbox
  <2> QED BY <2>2, <2>3, <2>4, <2>6 DEF ChatSound, Sent
<1> QED BY <1>2, <1>3

\* A step that sends nothing and touches no message that waits keeps what is known.
LEMMA OthersKept ==
    ASSUME ChatSound, TypeOK', typed' = typed, queue' = queue, account' = None => queue = << >>,
           \A m \in Messages : Fresh(m) => Fresh(m)',
           \A m \in Messages : turn'[m].at = "thread" => turn[m].at = "thread" /\ thread'[m] = thread[m],
           NamesSound'
    PROVE  ChatSound'
<1>1. \A m \in Messages : Waiting(m)' => Waiting(m)
  BY DEF Waiting
<1> QED BY <1>1 DEF ChatSound, QueueSound

\* A message is added to a thread that is there, and changes no title.
LEMMA RecordKeeps ==
    ASSUME TypeOK, NEW m \in Messages, turn[m].at \in Stages,
           NEW sender \in {"user", "ai"}, NEW keep \in BOOLEAN, Record(m, sender, keep)
    PROVE  /\ thread' \in [Messages -> {None} \union Thread]
           /\ \A k \in Messages : thread[k] = None => thread'[k] = None
           /\ \A k \in Messages : thread[k] # None => thread'[k].title = thread[k].title
<1>1. thread \in [Messages -> {None} \union Thread] /\ turn[m] \in Staged
  BY StageTypes DEF TypeOK
<1>2. CASE keep /\ Exists(m)
  <2> DEFINE k == turn[m].thread
             new == [thread[k] EXCEPT !.log = Append(@, <<m, sender>>)]
  <2>1. thread[k] # None /\ thread' = [thread EXCEPT ![k] = new]
    BY <1>2 DEF Record, Exists
  <2>2. CASE k \in Messages
    <3>1. thread[k] \in Thread
      BY <1>1, <2>1, <2>2
    <3>2. <<m, sender>> \in Messages \X {"user", "ai"}
      OBVIOUS
    <3>3. Append(thread[k].log, <<m, sender>>) \in Seq(Messages \X {"user", "ai"})
      BY <3>1, <3>2 DEF Thread
    <3>4. new \in Thread /\ new.title = thread[k].title
      BY <3>1, <3>3 DEF Thread
    <3> QED BY <1>1, <2>1, <2>2, <3>4
  <2>3. CASE k \notin Messages
    BY <1>1, <2>1, <2>3
  <2> QED BY <2>2, <2>3
<1>3. CASE ~ (keep /\ Exists(m))
  BY <1>1, <1>3 DEF Record
<1> QED BY <1>2, <1>3

\* A step of the server's turn, and what the tab makes of its end.
LEMMA TurnSound ==
    ASSUME ChatSound, NEW m \in Messages, NEW kept \in BOOLEAN,
           TurnStep(m) \/ Timeout(m) \/ CutOff(m) \/ SaveUserMessage(m, kept) \/ SaveAnswer(m, kept),
           renamed' = renamed
    PROVE  ChatSound' /\ typed' = typed /\ queue' = queue /\ Posts = {}
<1>1. /\ TypeOK /\ QueueSound /\ NamesSound
      /\ turn \in [Messages -> {Over} \union Staged \union [at : {"refused"}]]
      /\ thread \in [Messages -> {None} \union Thread]
      /\ drain \in [Messages -> {"none", "waiting", "reading", "pass"}]
  BY DEF ChatSound, TypeOK, Staged
<1>2. /\ turn[m].at \in Stages => turn[m] \in Staged
      /\ \A n \in Messages : turn[n].at = "over" <=> turn[n] = Over
  BY <1>1, StageTypes
\* How a step may change the turn of m, and the thread it writes to.
<1>3. ASSUME typed' = typed, queue' = queue, account' = account, isDraining' = isDraining,
             active' \in Messages \union {None},
             ~ Fresh(m),
             \/ drain' = drain \/ drain' = [drain EXCEPT ![m] = "pass"]
             \/ drain' = [drain EXCEPT ![m] = "reading"] /\ drain[m] = "waiting",
             NEW t \in {Over} \union Staged \union [at : {"refused"}],
             turn' = [turn EXCEPT ![m] = t], t.at = "thread" => t = turn[m] /\ thread' = thread,
             thread' \in [Messages -> {None} \union Thread],
             \A k \in Messages : Fresh(k) => thread'[k] = None,
             \A k \in Messages : turn[k].at = "thread" /\ k # m => thread'[k] = thread[k],
             NamesSound'
      PROVE  ChatSound' /\ typed' = typed /\ queue' = queue /\ Posts = {}
  <2>1. TypeOK'
    BY <1>1, <1>3 DEF TypeOK, Staged
  <2>2. \A n \in Messages : Fresh(n) => Fresh(n)'
    BY <1>1, <1>3 DEF Fresh
  <2>3. \A n \in Messages : turn'[n].at = "thread" => turn[n].at = "thread" /\ thread'[n] = thread[n]
    BY <1>1, <1>3
  <2>4. account' = None => queue = << >>
    BY <1>1, <1>3 DEF QueueSound
  <2>5. ChatSound'
    BY <1>3, <2>1, <2>2, <2>3, <2>4, OthersKept
  <2>6. Posts = {}
    BY <1>1, <1>3 DEF Posts
  <2> QED BY <1>3, <2>5, <2>6
<1>4. active \in Messages \union {None}
  BY <1>1 DEF TypeOK
<1>5. CASE ResolveThread(m)
  <2>1. /\ turn[m].at = "thread" /\ turn[m] \in Staged /\ thread[m] = None /\ ~ Fresh(m)
        /\ UNCHANGED tab
    BY <1>1, <1>2, <1>5 DEF ResolveThread, Stages, QueueSound, Fresh, Over
  <2> DEFINE fresh == [owner |-> turn[m].user, title |-> None, log |-> << >>]
  <2>2. CASE /\ thread' = [thread EXCEPT ![m] = fresh]
             /\ turn' = [turn EXCEPT ![m] = [turn[m] EXCEPT !.at = "say", !.thread = m]]
    <3> DEFINE t == [turn[m] EXCEPT !.at = "say", !.thread = m]
    <3>1. t \in Staged /\ t.at = "say"
      BY <2>1 DEF Staged, Stages
    <3>2. fresh \in Thread /\ fresh.title = None
      BY <2>1 DEF Thread, Titles, Staged
    <3> HIDE DEF t, fresh
    <3>3. thread' \in [Messages -> {None} \union Thread]
      BY <1>1, <2>2, <3>2
    <3>4. NamesSound'
      <4>1. None # "own"
        BY ChatAssumption
      <4> QED BY <1>1, <2>2, <3>1, <3>2, <4>1 DEF NamesSound, t
    <3>5. turn' = [turn EXCEPT ![m] = t]
      BY <2>2 DEF t
    <3> QED BY <1>1, <1>3, <1>4, <2>1, <2>2, <3>1, <3>3, <3>4, <3>5 DEF tab, Fresh
  <2>3. CASE thread' = thread /\ turn' = [turn EXCEPT ![m].at = "say"]
    <3> DEFINE t == [turn[m] EXCEPT !.at = "say"]
    <3>1. t \in Staged /\ t.at = "say"
      BY <2>1 DEF Staged, Stages
    <3>2. turn' = [turn EXCEPT ![m] = t]
      BY <2>3 DEF t
    <3> HIDE DEF t
    <3>3. NamesSound'
      BY <1>1, <2>3, <3>1, <3>2 DEF NamesSound
    <3> QED BY <1>1, <1>3, <1>4, <2>1, <2>3, <3>1, <3>2, <3>3 DEF tab, Fresh
  <2>4. CASE thread' = thread /\ turn' = [turn EXCEPT ![m] = [at |-> "refused"]]
    <3> DEFINE t == [at |-> "refused"]
    <3>1. t \in [at : {"refused"}] /\ t.at = "refused"
      OBVIOUS
    <3>2. turn' = [turn EXCEPT ![m] = t]
      BY <2>4
    <3> HIDE DEF t
    <3>3. NamesSound'
      BY <1>1, <2>4, <3>1, <3>2 DEF NamesSound
    <3> QED BY <1>1, <1>3, <1>4, <2>1, <2>4, <3>1, <3>2, <3>3 DEF tab, Fresh
  <2> QED BY <1>5, <2>2, <2>3, <2>4 DEF ResolveThread, Goto
\* The turn goes on; the thread it names, if any, may get a message or a title.
<1>6. ASSUME turn[m].at \in Stages \ {"thread"}, UNCHANGED tab,
             NEW stage \in Stages \ {"thread"}, Goto(m, stage),
             thread' \in [Messages -> {None} \union Thread],
             \A k \in Messages : thread[k] = None => thread'[k] = None,
             NamesSound'
      PROVE  ChatSound' /\ typed' = typed /\ queue' = queue /\ Posts = {}
  <2> DEFINE t == [turn[m] EXCEPT !.at = stage]
  <2>1. t \in Staged /\ t.at = stage /\ turn' = [turn EXCEPT ![m] = t]
    BY <1>2, <1>6 DEF Staged, Goto
  <2>2. ~ Fresh(m)
    BY <1>6 DEF Fresh, Stages, Over
  <2>3. \A k \in Messages : turn[k].at = "thread" /\ k # m => thread'[k] = thread[k]
    BY <1>1, <1>6 DEF QueueSound
  <2> HIDE DEF t
  <2> QED BY <1>3, <1>4, <1>6, <2>1, <2>2, <2>3 DEF tab, Fresh
\* The turn of m, once it has moved on.
<1>7. ASSUME turn[m].at \in Stages, NEW stage, Goto(m, stage)
      PROVE  /\ turn'[m].at = stage /\ turn'[m].thread = turn[m].thread
             /\ \A n \in Messages \ {m} : turn'[n] = turn[n]
  BY <1>1, <1>2, <1>7 DEF Goto, Staged
<1>9. CASE SaveUserMessage(m, kept) \/ SaveAnswer(m, kept) \/ SaveUserMessage(m, TRUE) \/ SaveAnswer(m, TRUE)
  <2>1. PICK sender \in {"user", "ai"}, keep \in BOOLEAN, stage \in {"answer", "title"} :
           /\ Record(m, sender, keep) /\ Goto(m, stage) /\ UNCHANGED tab
           /\ turn[m].at \in {"say", "answer"}
    BY <1>9 DEF SaveUserMessage, SaveAnswer
  <2>2. turn[m].at \in Stages \ {"thread"} /\ stage \in Stages \ {"thread"} /\ stage # "name"
    BY <2>1 DEF Stages
  <2>3. /\ thread' \in [Messages -> {None} \union Thread]
        /\ \A k \in Messages : thread[k] = None => thread'[k] = None
        /\ \A k \in Messages : thread[k] # None => thread'[k].title = thread[k].title
    BY <1>1, <2>1, <2>2, RecordKeeps
  <2>4. turn'[m].at = stage /\ \A n \in Messages \ {m} : turn'[n] = turn[n]
    BY <1>7, <2>1, <2>2
  <2>5. NamesSound'
    BY <1>1, <2>2, <2>3, <2>4 DEF NamesSound
  <2> QED BY <1>6, <2>1, <2>2, <2>3, <2>5
<1>10. CASE ReadTitle(m)
  <2>1. /\ turn[m].at \in Stages \ {"thread"} /\ UNCHANGED tab /\ thread' = thread
        /\ \/ Goto(m, "name") /\ thread[turn[m].thread].title = None
           \/ Goto(m, "reply")
    BY <1>10 DEF ReadTitle, Stages
  <2>2. "name" \in Stages \ {"thread"} /\ "reply" \in Stages \ {"thread"} /\ None # "own"
    BY ChatAssumption DEF Stages
  <2>3. CASE Goto(m, "name") /\ thread[turn[m].thread].title = None
    <3>1. /\ turn'[m].thread = turn[m].thread
          /\ \A n \in Messages \ {m} : turn'[n] = turn[n]
      BY <1>7, <2>1, <2>3
    <3>2. NamesSound'
      BY <1>1, <2>1, <2>2, <2>3, <3>1 DEF NamesSound
    <3> QED BY <1>1, <1>6, <2>1, <2>2, <2>3, <3>2
  <2>4. CASE Goto(m, "reply")
    <3>1. turn'[m].at = "reply" /\ \A n \in Messages \ {m} : turn'[n] = turn[n]
      BY <1>7, <2>1, <2>4
    <3>2. NamesSound'
      BY <1>1, <2>1, <3>1 DEF NamesSound
    <3> QED BY <1>1, <1>6, <2>1, <2>2, <2>4, <3>2
  <2> QED BY <2>1, <2>3, <2>4
<1>11. CASE NameThread(m)
  <2>1. /\ turn[m].at \in Stages \ {"thread"} /\ UNCHANGED tab /\ Goto(m, "reply")
        /\ "reply" \in Stages \ {"thread"}
        /\ thread' = IF Exists(m) THEN [thread EXCEPT ![turn[m].thread].title = "generated"] ELSE thread
    BY <1>11 DEF NameThread, Stages
  <2>2. turn'[m].at = "reply" /\ \A n \in Messages \ {m} : turn'[n] = turn[n]
    BY <1>7, <2>1
  <2>3. /\ thread' \in [Messages -> {None} \union Thread]
        /\ \A k \in Messages : thread[k] = None => thread'[k] = None
        /\ \A k \in Messages : thread'[k] = thread[k] \/ thread'[k].title = "generated"
    <3>1. CASE Exists(m)
      <4> DEFINE k == turn[m].thread
                 new == [thread[k] EXCEPT !.title = "generated"]
      <4>1. thread[k] # None /\ thread' = [thread EXCEPT ![k] = new]
        BY <2>1, <3>1 DEF Exists
      <4>2. CASE k \in Messages
        <5>1. thread[k] \in Thread
          BY <1>1, <4>1, <4>2
        <5>2. new \in Thread /\ new.title = "generated"
          BY <5>1 DEF Thread, Titles
        <5> QED BY <1>1, <4>1, <4>2, <5>2
      <4>3. CASE k \notin Messages
        BY <1>1, <4>1, <4>3
      <4> QED BY <4>2, <4>3
    <3>2. CASE ~ Exists(m)
      BY <1>1, <2>1, <3>2
    <3> QED BY <3>1, <3>2
  <2>4. NamesSound'
    BY <1>1, <2>2, <2>3 DEF NamesSound
  <2> QED BY <1>6, <2>1, <2>3, <2>4
<1>12. CASE HeadersArrive(m) \/ Reply(m) \/ Refused(m) \/ CutOff(m) \/ Timeout(m)
  <2>1. PICK t \in {Over, turn[m]} :
           /\ turn' = [turn EXCEPT ![m] = t] /\ thread' = thread /\ typed' = typed /\ queue' = queue
           /\ account' = account /\ isDraining' = isDraining
           /\ \/ drain' = drain \/ drain' = [drain EXCEPT ![m] = "pass"]
              \/ drain' = [drain EXCEPT ![m] = "reading"] /\ drain[m] = "waiting"
           /\ active' \in {active} \union {turn[m].thread}
           /\ active' # active => turn[m].at = "reply"
           /\ drain[m] = "waiting" \/ turn[m].at \in {"reply", "refused"} \/ turn[m] # Over
    <3>1. turn = [turn EXCEPT ![m] = turn[m]]
      BY <1>1
    <3>2. CASE Reply(m)
      BY <3>2 DEF Reply, Awaited, Returns, tab
    <3>3. CASE Refused(m)
      BY <3>3 DEF Refused, Awaited, Returns, tab
    <3>4. CASE CutOff(m)
      BY <3>4 DEF CutOff, Awaited, Returns, tab
    <3>5. CASE Timeout(m)
      BY <3>1, <3>5 DEF Timeout, Returns
    <3>6. CASE HeadersArrive(m)
      BY <3>1, <3>6 DEF HeadersArrive
    <3> QED BY <1>12, <3>2, <3>3, <3>4, <3>5, <3>6
  <2>2. active' \in Messages \union {None}
    BY <1>2, <1>4, <2>1 DEF Staged, Stages
  <2>3. ~ Fresh(m)
    BY <2>1 DEF Fresh, Over
  <2>4. t \in {Over} \union Staged \union [at : {"refused"}] /\ (t.at \in {"thread", "name"} => t = turn[m])
    BY <1>1, <2>1 DEF Over
  <2>5. NamesSound'
    BY <1>1, <2>1, <2>4 DEF NamesSound
  <2> QED BY <1>1, <1>3, <2>1, <2>2, <2>3, <2>4, <2>5 DEF Fresh
<1> QED BY <1>5, <1>9, <1>10, <1>11, <1>12 DEF TurnStep

\* What the user does to the thread list, and a tab that starts afresh.
LEMMA ThreadListSound ==
    ASSUME ChatSound, NEW k \in Messages,
           \/ NewConversation /\ renamed' = renamed
           \/ (\E a \in Accounts : Login(a)) /\ renamed' = renamed
           \/ DeleteConversation(k) /\ renamed' = renamed
           \/ /\ RenameConversation(k)
              /\ renamed' = renamed \union
                    {j \in {k} : \E m \in Messages : turn[m].at = "name" /\ turn[m].thread = k}
    PROVE  ChatSound' /\ typed' = typed /\ queue' = queue
<1>1. /\ TypeOK /\ QueueSound /\ NamesSound
      /\ thread \in [Messages -> {None} \union Thread] /\ active \in Messages \union {None}
  BY DEF ChatSound, TypeOK
<1>2. typed' = typed /\ queue' = queue /\ turn' = turn /\ drain' = drain /\ isDraining' = isDraining
  BY DEF NewConversation, Login, DeleteConversation, RenameConversation, tab
<1>3. account' \in Accounts \union {None} /\ active' \in Messages \union {None}
      /\ (account' = None => account = None)
  BY <1>1 DEF NewConversation, Login, DeleteConversation, RenameConversation, tab, TypeOK
<1>4. /\ thread' \in [Messages -> {None} \union Thread]
      /\ \A j \in Messages : thread[j] = None => thread'[j] = None
  <2>1. CASE thread' = thread
    BY <1>1, <2>1
  <2>2. CASE DeleteConversation(k)
    BY <1>1, <2>2 DEF DeleteConversation
  <2>3. CASE RenameConversation(k)
    <3>1. thread[k] # None /\ thread' = [thread EXCEPT ![k] = [thread[k] EXCEPT !.title = "own"]]
      BY <2>3 DEF RenameConversation, Owned
    <3>2. [thread[k] EXCEPT !.title = "own"] \in Thread
      BY <1>1, <3>1 DEF Thread, Titles
    <3> QED BY <1>1, <3>1, <3>2
  <2> QED BY <2>1, <2>2, <2>3 DEF NewConversation, Login
<1>5. TypeOK'
  BY <1>1, <1>2, <1>3, <1>4 DEF TypeOK
<1>6. NamesSound'
  <2>1. CASE thread' = thread /\ renamed' = renamed
    BY <1>1, <1>2, <2>1 DEF NamesSound
  <2>2. CASE DeleteConversation(k) /\ renamed' = renamed
    BY <1>1, <1>2, <2>2 DEF NamesSound, DeleteConversation
  <2>3. CASE /\ RenameConversation(k)
             /\ renamed' = renamed \union
                   {j \in {k} : \E m \in Messages : turn[m].at = "name" /\ turn[m].thread = k}
    <3>1. \A j \in Messages \ {k} : thread'[j] = thread[j]
      BY <1>1, <2>3 DEF RenameConversation
    <3>2. \A m \in Messages : turn[m].at = "name" /\ turn[m].thread = k => k \in renamed'
      BY <2>3
    <3> QED BY <1>1, <1>2, <2>3, <3>1, <3>2 DEF NamesSound
  <2> QED BY <2>1, <2>2, <2>3 DEF NewConversation, Login
<1>7. \A m \in Messages : turn'[m].at = "thread" => turn[m].at = "thread" /\ thread'[m] = thread[m]
  BY <1>1, <1>2, <1>4 DEF QueueSound
<1>8. \A m \in Messages : Fresh(m) => Fresh(m)'
  BY <1>2, <1>4 DEF Fresh
<1>9. account' = None => queue = << >>
  BY <1>1, <1>3 DEF QueueSound
<1> QED BY <1>2, <1>5, <1>6, <1>7, <1>8, <1>9, OthersKept

\* What is taken back while it waits: one message, or all of them.
LEMMA TakenBackSound ==
    ASSUME ChatSound, Unqueue \/ Logout, renamed' = renamed, sent' = sent
    PROVE  ChatSound' /\ Sent
<1>1. /\ TypeOK /\ QueueSound /\ NamesSound /\ queue \in Seq(1 .. typed)
      /\ typed \in 0 .. MaxTyped /\ Len(queue) \in Nat /\ Len(queue) <= QueueCap /\ QueueCap \in Nat
  BY ChatAssumption DEF ChatSound, TypeOK
<1>2. typed' = typed /\ drain' = drain /\ turn' = turn /\ thread' = thread
  BY DEF Unqueue, Logout
<1>3. CASE queue' = << >>
  <2>1. queue' \in Seq(1 .. typed') /\ Len(queue') = 0
    BY <1>3
  <2>2. TypeOK'
    <3>1. /\ account' \in Accounts \union {None} /\ isDraining' \in BOOLEAN
          /\ active' \in Messages \union {None}
      BY <1>1 DEF TypeOK, Unqueue, Logout
    <3>2. Len(queue') <= QueueCap
      BY <1>1, <2>1
    <3> QED BY <1>1, <1>2, <2>1, <3>1, <3>2 DEF TypeOK
  <2>3. \A m \in Messages : Waiting(m)' => Waiting(m)
    BY <1>2, <2>1 DEF Waiting
  <2>4. QueueSound'
    BY <1>1, <1>2, <1>3, <2>1, <2>3 DEF QueueSound, Fresh
  <2>5. NamesSound'
    BY <1>1, <1>2 DEF NamesSound
  <2>6. Promise!TakeBackAll
    BY <1>2, <1>3 DEF Promise!TakeBackAll
  <2> QED BY <2>2, <2>4, <2>5, <2>6 DEF ChatSound, Sent, Promise!Next
<1>4. CASE Unqueue /\ queue' # << >>
  <2>1. PICK i \in 1 .. Len(queue) : queue' = RemoveAt(queue, i)
    BY <1>4 DEF Unqueue
  <2>2. /\ queue' \in Seq(1 .. typed) /\ Len(queue') = Len(queue) - 1
        /\ \A j \in 1 .. (Len(queue) - 1) : queue'[j] = IF j < i THEN queue[j] ELSE queue[j + 1]
    BY <1>1, <2>1, RemoveAtProperties
  <2>3. TypeOK'
    BY <1>1, <1>2, <1>4, <2>2 DEF TypeOK, Unqueue
  <2>4. \A j \in 1 .. Len(queue') :
           \E l \in 1 .. Len(queue) : queue'[j] = queue[l] /\ l = IF j < i THEN j ELSE j + 1
    <3> TAKE j \in 1 .. Len(queue')
    <3>1. j \in 1 .. Len(queue) /\ j + 1 \in 1 .. Len(queue)
      BY <1>1, <2>2
    <3> QED BY <1>1, <2>2, <3>1
  <2>5. \A m \in Messages : Waiting(m)' => Waiting(m)
    BY <1>2, <2>4 DEF Waiting
  <2>6. \A j, l \in 1 .. Len(queue') : queue'[j] = queue'[l] => j = l
    <3> TAKE j, l \in 1 .. Len(queue')
    <3>1. PICK a \in 1 .. Len(queue) : queue'[j] = queue[a] /\ a = IF j < i THEN j ELSE j + 1
      BY <2>4
    <3>2. PICK b \in 1 .. Len(queue) : queue'[l] = queue[b] /\ b = IF l < i THEN l ELSE l + 1
      BY <2>4
    <3>3. queue'[j] = queue'[l] => a = b
      BY <1>1, <3>1, <3>2 DEF QueueSound
    <3>4. (IF j < i THEN j ELSE j + 1) = (IF l < i THEN l ELSE l + 1) => j = l
      <4>1. j \in Int /\ l \in Int /\ i \in Int
        OBVIOUS
      <4> QED BY <4>1
    <3> QED BY <3>1, <3>2, <3>3, <3>4
  <2>7. account' = None => queue' = << >>
    <3>1. queue # << >> /\ account' = account
      BY <1>4 DEF Unqueue
    <3> QED BY <1>1, <3>1 DEF QueueSound
  <2>8. QueueSound'
    BY <1>1, <1>2, <2>5, <2>6, <2>7 DEF QueueSound, Fresh
  <2>9. NamesSound'
    BY <1>1, <1>2 DEF NamesSound
  <2>10. Promise!TakeBack
    BY <1>2, <2>1 DEF Promise!TakeBack, Promise!RemoveAt, RemoveAt
  <2> QED BY <2>3, <2>8, <2>9, <2>10 DEF ChatSound, Sent, Promise!Next
<1> QED BY <1>3, <1>4 DEF Unqueue, Logout

LEMMA ChatSoundNext ==
    ASSUME ChatSound, [MCNext]_<<vars, histories>>
    PROVE  ChatSound' /\ Sent
<1>1. CASE UNCHANGED <<vars, histories>>
  <2>1. /\ UNCHANGED <<account, typed, queue, isDraining, drain, active, turn, thread>>
        /\ sent' = sent /\ renamed' = renamed
    BY <1>1 DEF vars, tab, histories
  <2>2. ChatSound'
    BY <2>1 DEF ChatSound, TypeOK, QueueSound, NamesSound, Waiting, Fresh
  <2>3. UNCHANGED Promise!outbox
    BY <2>1 DEF Promise!outbox
  <2> QED BY <2>2, <2>3 DEF Sent
<1>2. CASE Smooth
  <2>1. Note /\ renamed' = renamed
    BY <1>2 DEF Smooth
  <2>2. CASE SendChatMessage
    BY <2>1, <2>2, TypingSound
  <2>3. ASSUME NEW m \in Messages, DrainPass(m)
        PROVE  ChatSound' /\ Sent
    BY <2>1, <2>3, DrainSound
  <2>4. ASSUME NEW m \in Messages, TurnStep(m)
        PROVE  ChatSound' /\ Sent
    <3>1. ChatSound' /\ typed' = typed /\ queue' = queue /\ Posts = {}
      BY <2>1, <2>4, TurnSound
    <3>2. UNCHANGED Promise!outbox
      BY <2>1, <3>1 DEF Note, Promise!outbox
    <3> QED BY <3>1, <3>2 DEF Sent
  <2> QED BY <1>2, <2>2, <2>3, <2>4 DEF Smooth
<1>3. ASSUME sent' = sent,
             \/ NewConversation /\ renamed' = renamed
             \/ (\E a \in Accounts : Login(a)) /\ renamed' = renamed
             \/ \E k \in Messages : DeleteConversation(k) /\ renamed' = renamed
             \/ \E k \in Messages :
                   /\ RenameConversation(k)
                   /\ renamed' = renamed \union
                         {j \in {k} : \E m \in Messages : turn[m].at = "name" /\ turn[m].thread = k}
      PROVE  ChatSound' /\ Sent
  <2>1. 1 \in Messages
    BY ChatAssumption DEF Messages
  <2>2. ChatSound' /\ typed' = typed /\ queue' = queue
    BY <1>3, <2>1, ThreadListSound
  <2>3. UNCHANGED Promise!outbox
    BY <1>3, <2>2 DEF Promise!outbox
  <2> QED BY <2>2, <2>3 DEF Sent
<1>4. CASE Afresh
  BY <1>3, <1>4 DEF Afresh
<1>5. CASE Rename
  BY <1>3, <1>5 DEF Rename
<1>6. CASE Quiet
  <2>1. sent' = sent /\ renamed' = renamed
    BY <1>6 DEF Quiet
  <2> QED BY <1>3, <1>6, <2>1, TakenBackSound DEF Quiet
<1>7. ASSUME Upset, NEW m \in Messages,
             CutOff(m) \/ SaveUserMessage(m, FALSE) \/ SaveAnswer(m, FALSE) \/ Timeout(m)
      PROVE  ChatSound' /\ Sent
  <2>1. sent' = sent /\ renamed' = renamed
    BY <1>7 DEF Upset
  <2>2. ChatSound' /\ typed' = typed /\ queue' = queue
    BY <1>7, <2>1, TurnSound
  <2>3. UNCHANGED Promise!outbox
    BY <2>1, <2>2 DEF Promise!outbox
  <2> QED BY <2>2, <2>3 DEF Sent
<1>8. CASE Fails
  <2>1. CASE Logout
    BY <1>8, <2>1, TakenBackSound DEF Fails, Upset
  <2> QED BY <1>7, <1>8, <2>1 DEF Fails
<1>9. CASE (\E m \in Messages : Timeout(m)) /\ Upset
  BY <1>7, <1>9
<1> QED BY <1>1, <1>2, <1>4, <1>5, <1>6, <1>8, <1>9 DEF MCNext

CatchUpVars == << part, chatVars, bankVars, reminderVars, purgeVars >>

\* Among the four, the tab begins and moves as it does alone.
LEMMA TabAmongFour ==
  /\ CatchUpInit => MCInit
  /\ [CatchUpNext]_CatchUpVars => [MCNext]_<<vars, histories>>
BY DEF CatchUpInit, CatchUpNext, CatchUpVars, chatVars

\* The tab implements Outbox: whatever fails, times out or is logged out of, and even
\* when two drain loops run, what is typed goes out in order and at most once (runDrain
\* reads the live queue).
THEOREM TabImplementsOutbox == MCSpec \/ CatchUpSpec => SentInOrder
<1>1. MCInit => ChatSound
  BY ChatSoundInit
<1>2. ChatSound /\ [MCNext]_<<vars, histories>> => ChatSound' /\ Sent
  BY ChatSoundNext
<1>3. MCInit => Promise!Init
  BY DEF MCInit, Init, Promise!Init
<1> QED BY <1>1, <1>2, <1>3, TabAmongFour, PTL
        DEF MCSpec, CatchUpSpec, CatchUpVars, SentInOrder, Promise!Spec, Sent

\* A title the user gave stays, unless a turn was generating one just then
\* (chat_endpoint generates a title only for a thread that had none).
THEOREM UserTitleKept == MCSpec \/ CatchUpSpec => TitleKeptAlone
<1>1. MCInit => ChatSound
  BY ChatSoundInit
<1>2. ChatSound /\ [MCNext]_<<vars, histories>> => ChatSound'
  BY ChatSoundNext
<1>3. ChatSound /\ [MCNext]_<<vars, histories>> =>
         [\A k \in Threads \ renamed :
             thread[k].title = "own" /\ thread'[k] # None => thread'[k].title = "own"]_<<vars, histories>>
  <2> SUFFICES ASSUME ChatSound, MCNext, NEW k \in Threads \ renamed,
                      thread[k].title = "own", thread'[k] # None
               PROVE  thread'[k].title = "own"
    OBVIOUS
  <2>1. /\ TypeOK /\ QueueSound /\ NamesSound /\ k \in Messages /\ thread[k] # None
        /\ thread \in [Messages -> {None} \union Thread]
    BY DEF ChatSound, TypeOK, Threads
  <2>2. CASE thread' = thread
    BY <2>2
  <2>3. ASSUME NEW m \in Messages, ResolveThread(m)
        PROVE  thread'[k].title = "own"
    <3>1. thread[m] = None
      BY <2>1, <2>3 DEF QueueSound, ResolveThread
    <3> QED BY <2>1, <2>3, <3>1 DEF ResolveThread
  <2>4. ASSUME NEW m \in Messages, NEW kept \in BOOLEAN, SaveUserMessage(m, kept) \/ SaveAnswer(m, kept)
        PROVE  thread'[k].title = "own"
    <3>1. PICK sender \in {"user", "ai"} : Record(m, sender, kept) /\ turn[m].at \in {"say", "answer"}
      BY <2>4 DEF SaveUserMessage, SaveAnswer
    <3>2. turn[m].at \in Stages
      BY <3>1 DEF Stages
    <3> QED BY <2>1, <3>1, <3>2, RecordKeeps
  <2>5. ASSUME NEW m \in Messages, NameThread(m)
        PROVE  thread'[k].title = "own"
    <3>1. turn[m].thread # k
      BY <2>1, <2>5 DEF NamesSound, NameThread
    <3> QED BY <2>1, <2>5, <3>1 DEF NameThread
  <2>6. ASSUME NEW j \in Messages, RenameConversation(j) \/ DeleteConversation(j)
        PROVE  thread'[k].title = "own"
    <3>1. CASE j = k
      BY <2>1, <2>6, <3>1 DEF RenameConversation, DeleteConversation, Thread
    <3>2. CASE j # k
      BY <2>1, <2>6, <3>2 DEF RenameConversation, DeleteConversation
    <3> QED BY <3>1, <3>2
  <2>7. CASE Smooth
    <3>1. CASE SendChatMessage
      BY <2>2, <3>1 DEF SendChatMessage
    <3>2. ASSUME NEW m \in Messages, DrainPass(m)
          PROVE  thread'[k].title = "own"
      BY <2>2, <3>2 DEF DrainPass
    <3>3. ASSUME NEW m \in Messages, TurnStep(m)
          PROVE  thread'[k].title = "own"
      BY <2>2, <2>3, <2>4, <2>5, <3>3 DEF TurnStep, ReadTitle, HeadersArrive, Reply, Refused
    <3> QED BY <2>7, <3>1, <3>2, <3>3 DEF Smooth
  <2>8. CASE Afresh \/ Rename \/ Quiet
    BY <2>2, <2>6, <2>8 DEF Afresh, Rename, Quiet, NewConversation, Login, Unqueue
  <2>9. CASE Fails \/ \E m \in Messages : Timeout(m)
    BY <2>2, <2>4, <2>9 DEF Fails, Timeout, Logout, CutOff
  <2> QED BY <2>7, <2>8, <2>9 DEF MCNext
<1> QED BY <1>1, <1>2, <1>3, TabAmongFour, PTL DEF MCSpec, CatchUpSpec, CatchUpVars, TitleKeptAlone

-----------------------------------------------------------------------------
(* Undisturbed: one turn after the other *)

\* One loop runs, and waits for the only turn there is.
OneTurn ==
  /\ \A m, n \in InProgress : m = n
  /\ \A m \in Messages : turn[m] # Over <=> drain[m] \in {"waiting", "reading"}
  /\ ~ isDraining => InProgress = {}

\* What waits was typed after what is in progress, and that after what the threads hold.
Earlier(k, m) == \A i \in DOMAIN thread[k].log : thread[k].log[i][1] < m

InTurnOrder ==
  /\ \A i, j \in 1 .. Len(queue) : i < j => queue[i] < queue[j]
  /\ \A w \in Messages : Waiting(w) => (\A m \in InProgress : m < w) /\ \A k \in Threads : Earlier(k, w)
  /\ \A m \in Messages : turn[m].at \in {"thread", "say"} => \A k \in Threads : Earlier(k, m)

\* The thread of a turn: whose answer is awaited, and who gives it a title.
Visited(k) == k = active \/ \E m \in Messages : turn[m].at \in Stages /\ turn[m].thread = k

LogSound(k) ==
  LET entries == thread[k].log
      last == Len(entries)
  IN /\ Dialogue(entries)
     /\ entries # << >> /\ entries[last][2] = "user" =>
          turn[entries[last][1]].at = "answer" /\ turn[entries[last][1]].thread = k
     /\ \A m \in Messages : turn[m].at = "answer" /\ turn[m].thread = k =>
          entries # << >> /\ entries[last] = <<m, "user">>
     /\ entries # << >> /\ thread[k].title = None =>
          \E m \in Messages : /\ turn[m].at \in {"answer", "title", "name"} /\ turn[m].thread = k
                              /\ \A i \in DOMAIN entries : entries[i][1] = m
     /\ \A i, j \in DOMAIN entries : epochOf[entries[i][1]] = epochOf[entries[j][1]]
     /\ Visited(k) => \A i \in DOMAIN entries : epochOf[entries[i][1]] = epoch

LogsSound ==
  /\ \A k \in Threads : LogSound(k)
  /\ \A m \in Messages : turn[m] # Over => epochOf[m] = epoch
  /\ \A m \in Messages : turn[m].at \in Stages \ {"thread"} => turn[m].thread \in Messages

AsTyped == ~ upset => OneTurn /\ InTurnOrder /\ LogsSound

\* A question, or its answer, is added to a dialogue.
LEMMA QuestionAdded ==
  ASSUME NEW s \in Seq(Messages \X {"user", "ai"}), Dialogue(s), NEW m \in Messages,
         s # << >> => s[Len(s)][2] # "user", \A i \in DOMAIN s : s[i][1] < m
  PROVE  Dialogue(Append(s, <<m, "user">>))
<1>1. PICK e, t : e = <<m, "user">> /\ t = Append(s, e)
  OBVIOUS
<1>2. /\ Len(s) \in Nat /\ DOMAIN s = 1 .. Len(s) /\ DOMAIN t = 1 .. Len(s) + 1
      /\ t[Len(s) + 1] = e /\ \A i \in 1 .. Len(s) : t[i] = s[i] /\ s[i][2] \in {"user", "ai"}
      /\ e[1] = m /\ e[2] = "user"
  BY <1>1
<1>3. ASSUME NEW i \in 1 .. Len(s)
      PROVE  IF i = 1 \/ t[i - 1][2] = "ai"
             THEN t[i][2] = "user" /\ \A j \in 1 .. i - 1 : t[j][1] < t[i][1]
             ELSE t[i] = <<t[i - 1][1], "ai">>
  <2>1. t[i] = s[i] /\ (i # 1 => t[i - 1] = s[i - 1]) /\ \A j \in 1 .. i - 1 : t[j] = s[j]
    BY <1>2
  <2> QED BY <1>2, <2>1 DEF Dialogue
<1>4. /\ \A j \in 1 .. Len(s) : t[j][1] < e[1]
      /\ Len(s) + 1 = 1 \/ t[Len(s)][2] = "ai"
  <2>1. Len(s) # 0 => s # << >> /\ Len(s) \in 1 .. Len(s)
    BY <1>2
  <2> QED BY <1>2, <2>1
<1>5. Len(s) + 1 - 1 = Len(s)
  BY <1>2
<1>6. ASSUME NEW i \in DOMAIN t
      PROVE  IF i = 1 \/ t[i - 1][2] = "ai"
             THEN t[i][2] = "user" /\ \A j \in 1 .. i - 1 : t[j][1] < t[i][1]
             ELSE t[i] = <<t[i - 1][1], "ai">>
  <2>1. CASE i \in 1 .. Len(s)
    BY <1>3, <2>1
  <2>2. CASE i = Len(s) + 1
    BY <1>2, <1>4, <1>5, <2>2
  <2> QED BY <1>2, <2>1, <2>2
<1>7. Dialogue(t)
  BY <1>6 DEF Dialogue
<1> QED BY <1>1, <1>7

LEMMA AnswerAdded ==
  ASSUME NEW s \in Seq(Messages \X {"user", "ai"}), Dialogue(s), NEW m \in Messages,
         s # << >>, s[Len(s)] = <<m, "user">>
  PROVE  Dialogue(Append(s, <<m, "ai">>))
<1>1. PICK e, t : e = <<m, "ai">> /\ t = Append(s, e)
  OBVIOUS
<1>2. /\ Len(s) \in Nat /\ DOMAIN s = 1 .. Len(s) /\ DOMAIN t = 1 .. Len(s) + 1
      /\ t[Len(s) + 1] = e /\ \A i \in 1 .. Len(s) : t[i] = s[i]
      /\ Len(s) # 0
  BY <1>1
<1>3. ASSUME NEW i \in 1 .. Len(s)
      PROVE  IF i = 1 \/ t[i - 1][2] = "ai"
             THEN t[i][2] = "user" /\ \A j \in 1 .. i - 1 : t[j][1] < t[i][1]
             ELSE t[i] = <<t[i - 1][1], "ai">>
  <2>1. t[i] = s[i] /\ (i # 1 => t[i - 1] = s[i - 1]) /\ \A j \in 1 .. i - 1 : t[j] = s[j]
    BY <1>2
  <2> QED BY <1>2, <2>1 DEF Dialogue
<1>4. t[Len(s)] = <<m, "user">> /\ t[Len(s)][2] # "ai" /\ t[Len(s)][1] = m /\ Len(s) + 1 # 1
  BY <1>2
<1>5. Len(s) + 1 - 1 = Len(s)
  BY <1>2
<1>6. ASSUME NEW i \in DOMAIN t
      PROVE  IF i = 1 \/ t[i - 1][2] = "ai"
             THEN t[i][2] = "user" /\ \A j \in 1 .. i - 1 : t[j][1] < t[i][1]
             ELSE t[i] = <<t[i - 1][1], "ai">>
  <2>1. CASE i \in 1 .. Len(s)
    BY <1>3, <2>1
  <2>2. CASE i = Len(s) + 1
    <3>1. i - 1 = Len(s) /\ i # 1 /\ t[i] = e
      BY <1>2, <2>2
    <3>2. t[i - 1][1] = m /\ t[i - 1][2] # "ai" /\ t[i] = <<m, "ai">>
      BY <1>1, <1>4, <3>1
    <3>3. t[i] = <<t[i - 1][1], "ai">>
      BY <3>2
    <3> QED BY <3>1, <3>2, <3>3
  <2> QED BY <1>2, <2>1, <2>2
<1>7. Dialogue(t)
  BY <1>6 DEF Dialogue
<1> QED BY <1>1, <1>7

LEMMA LogIs ==
  ASSUME TypeOK, NEW k \in Threads
  PROVE  k \in Messages /\ thread[k] \in Thread /\ thread[k].log \in Seq(Messages \X {"user", "ai"})
BY DEF TypeOK, Threads, Thread

\* While a turn is in progress there is no other.
LEMMA OnlyTurn ==
  ASSUME TypeOK, OneTurn, NEW m \in Messages, turn[m] # Over
  PROVE  /\ m \in InProgress /\ drain[m] \in {"waiting", "reading"}
         /\ \A n \in Messages \ {m} : turn[n] = Over /\ turn[n].at = "over" /\ drain[n] = "none"
         /\ turn[m].at \in Stages \union {"refused"}
<1>1. m \in InProgress
  BY DEF InProgress
<1>2. \A n \in Messages \ {m} : n \notin InProgress
  BY <1>1 DEF OneTurn
<1>3. turn[m].at \in Stages \union {"refused"}
  BY StageTypes
<1> QED BY <1>1, <1>2, <1>3 DEF OneTurn, InProgress, Over

LEMMA NoneIsNoMessage == None \notin Messages /\ \A m \in Messages : m \in Nat
BY ChatAssumption DEF Messages

\* A step that adds nothing to a thread and moves no turn keeps the logs; a tab that
\* starts afresh does too, unless a turn is in progress.
LEMMA LogsRest ==
  ASSUME TypeOK, LogsSound, turn' = turn, \A m \in Messages : epochOf'[m] = epochOf[m],
         \A k \in Threads' : /\ k \in Threads /\ thread'[k].log = thread[k].log
                             /\ thread'[k].title = None => thread[k].title = None,
         \/ epoch' = epoch /\ active' \in {active, None}
         \/ active' = None /\ \A m \in Messages : turn[m] = Over
  PROVE  LogsSound'
<1>1. Over.at = "over"
  BY DEF Over
<1>2. ASSUME NEW k \in Threads'
      PROVE  LogSound(k)'
  <2>1. PICK entries : entries = thread[k].log /\ entries = thread'[k].log
    BY <1>2
  <2>2. /\ k \in Threads /\ k \in Messages /\ entries \in Seq(Messages \X {"user", "ai"})
        /\ thread'[k].title = None => thread[k].title = None
    BY <1>2, <2>1, LogIs
  <2>3. \A i \in DOMAIN entries : epochOf'[entries[i][1]] = epochOf[entries[i][1]]
    BY <2>2
  <2>4. /\ Dialogue(entries)
        /\ entries # << >> /\ entries[Len(entries)][2] = "user" =>
             turn[entries[Len(entries)][1]].at = "answer" /\ turn[entries[Len(entries)][1]].thread = k
        /\ \A m \in Messages : turn[m].at = "answer" /\ turn[m].thread = k =>
             entries # << >> /\ entries[Len(entries)] = <<m, "user">>
        /\ entries # << >> /\ thread[k].title = None =>
             \E m \in Messages : /\ turn[m].at \in {"answer", "title", "name"} /\ turn[m].thread = k
                                 /\ \A i \in DOMAIN entries : entries[i][1] = m
        /\ \A i, j \in DOMAIN entries : epochOf[entries[i][1]] = epochOf[entries[j][1]]
        /\ Visited(k) => \A i \in DOMAIN entries : epochOf[entries[i][1]] = epoch
    BY <2>1, <2>2 DEF LogsSound, LogSound
  <2>5. \A i, j \in DOMAIN entries : epochOf'[entries[i][1]] = epochOf'[entries[j][1]]
    BY <2>3, <2>4
  <2>6. Visited(k)' => \A i \in DOMAIN entries : epochOf'[entries[i][1]] = epoch'
    <3>1. CASE epoch' = epoch /\ active' \in {active, None}
      <4>1. Visited(k)' => Visited(k)
        BY <2>2, <3>1, NoneIsNoMessage DEF Visited
      <4> QED BY <2>3, <2>4, <3>1, <4>1
    <3>2. CASE active' = None /\ \A m \in Messages : turn[m] = Over
      <4>1. ~ Visited(k)'
        BY <1>1, <2>2, <3>2, NoneIsNoMessage DEF Visited, Stages
      <4> QED BY <4>1
    <3> QED BY <3>1, <3>2
  <2> QED BY <2>1, <2>2, <2>4, <2>5, <2>6 DEF LogSound
<1>3. \A m \in Messages : turn'[m] # Over => epochOf'[m] = epoch'
  BY DEF LogsSound
<1> QED BY <1>2, <1>3 DEF LogsSound

LEMMA OrderRests ==
  ASSUME InTurnOrder, turn' = turn,
         \A i, j \in 1 .. Len(queue') : i < j => queue'[i] < queue'[j],
         \A w \in Messages : Waiting(w)' => Waiting(w),
         \A m \in InProgress' : m \in InProgress,
         \A k \in Threads' : k \in Threads /\ thread'[k].log = thread[k].log
  PROVE  InTurnOrder'
<1>1. \A k \in Threads', m \in Messages : Earlier(k, m) => Earlier(k, m)'
  BY DEF Earlier
<1> QED BY <1>1 DEF InTurnOrder

\* What the user does to the queue and to the threads, and a tab that starts afresh.
LEMMA UserAsTyped ==
  ASSUME ChatSound, AsTyped, ~ upset',
         \/ Afresh \/ Rename \/ Quiet \/ Fails
  PROVE  OneTurn' /\ InTurnOrder' /\ LogsSound'
<1>1. ~ upset /\ TypeOK /\ QueueSound /\ OneTurn /\ InTurnOrder /\ LogsSound /\ epochOf' = epochOf
      /\ thread \in [Messages -> {None} \union Thread]
  <2>1. ~ upset
    <3>1. Afresh => ~ upset
      BY DEF Afresh
    <3>2. Rename => ~ upset
      BY DEF Rename
    <3>3. Quiet => ~ upset
      BY DEF Quiet
    <3>4. Fails => ~ upset
      BY DEF Fails, Upset
    <3> QED BY <3>1, <3>2, <3>3, <3>4
  <2>2. epochOf' = epochOf
    BY DEF Afresh, Rename, Quiet, Fails, Upset
  <2>3. TypeOK /\ QueueSound /\ thread \in [Messages -> {None} \union Thread]
    BY DEF ChatSound, TypeOK
  <2> QED BY <2>1, <2>2, <2>3 DEF AsTyped
<1>2. ASSUME NEW m \in Messages, turn[m] # Over
      PROVE  m \in InProgress
  BY <1>2 DEF InProgress
<1>3. Fails => Logout /\ InProgress = {}
  <2>1. \A m \in Messages, kept \in BOOLEAN : ~ (Upset /\ (CutOff(m) \/ SaveUserMessage(m, kept) \/ SaveAnswer(m, kept)))
    <3>1. \A m \in Messages : turn[m].at \in {"say", "answer"} => turn[m] # Over
      BY DEF Over
    <3> QED BY <1>2, <3>1 DEF Upset, CutOff, SaveUserMessage, SaveAnswer
  <2> QED BY <2>1 DEF Fails, Upset
<1>4. turn' = turn /\ drain' = drain /\ typed' = typed
      /\ (isDraining' = isDraining \/ InProgress = {})
  BY <1>3 DEF Afresh, Rename, Quiet, NewConversation, Login, DeleteConversation, RenameConversation, Unqueue,
             Logout, tab
<1>5. OneTurn'
  BY <1>1, <1>4 DEF OneTurn, InProgress
<1>6. \A k \in Threads' : /\ k \in Threads /\ thread'[k].log = thread[k].log
                          /\ thread'[k].title = None => thread[k].title = None
  <2>1. CASE thread' = thread
    BY <2>1 DEF Threads
  <2>2. ASSUME NEW j \in Messages, DeleteConversation(j)
        PROVE  \A k \in Threads' : k \in Threads /\ thread'[k] = thread[k]
    BY <1>1, <2>2 DEF DeleteConversation, Threads
  <2>3. ASSUME NEW j \in Messages, RenameConversation(j), NEW k \in Threads'
        PROVE  /\ k \in Threads /\ thread'[k].log = thread[k].log
               /\ thread'[k].title = None => thread[k].title = None
    <3>1. PICK old, new : old = thread[j] /\ new = [old EXCEPT !.title = "own"]
      OBVIOUS
    <3>2. old \in Thread /\ thread' = [thread EXCEPT ![j] = new]
      BY <1>1, <2>3, <3>1 DEF RenameConversation, Owned
    <3>3. new.log = old.log /\ new.title = "own"
      BY <3>1, <3>2 DEF Thread
    <3>4. k \in Messages /\ (k # j => thread'[k] = thread[k]) /\ (k = j => thread'[k] = new)
      BY <1>1, <3>2 DEF Threads
    <3>5. "own" # None /\ thread[j] # None
      BY <2>3, ChatAssumption DEF RenameConversation, Owned
    <3> QED BY <3>1, <3>3, <3>4, <3>5 DEF Threads
  <2> QED BY <1>3, <2>1, <2>2, <2>3
          DEF Afresh, Rename, Quiet, NewConversation, Login, Unqueue, Logout
<1>7. \/ epoch' = epoch /\ active' \in {active, None}
      \/ active' = None /\ \A m \in Messages : turn[m] = Over
  <2>1. CASE Afresh
    <3>1. InProgress = {}
      BY <2>1 DEF Afresh
    <3>2. active' = None
      BY <2>1 DEF Afresh, NewConversation, Login, DeleteConversation
    <3> QED BY <1>2, <3>1, <3>2
  <2> QED BY <1>3, <2>1 DEF Rename, Quiet, Fails, Upset, RenameConversation, Unqueue, DeleteConversation, Logout, tab
<1>8. LogsSound'
  BY <1>1, <1>4, <1>6, <1>7, LogsRest
<1>9. InProgress' = InProgress
  BY <1>4 DEF InProgress
<1>10. /\ \A i, j \in 1 .. Len(queue') : i < j => queue'[i] < queue'[j]
       /\ \A w \in Messages : Waiting(w)' => Waiting(w)
  <2>1. CASE queue' = << >>
    BY <1>4, <2>1 DEF Waiting
  <2>2. CASE queue' = queue
    BY <1>1, <1>4, <2>2 DEF Waiting, InTurnOrder
  <2>3. CASE Unqueue /\ queue' # << >>
    <3>1. PICK n \in 1 .. Len(queue) : queue' = RemoveAt(queue, n)
      BY <2>3 DEF Unqueue
    <3>2. /\ queue \in Seq(1 .. typed) /\ Len(queue) \in Nat
          /\ \A i \in 1 .. Len(queue) : queue[i] \in Nat
      BY <1>1 DEF TypeOK
    <3>3. /\ queue' \in Seq(1 .. typed) /\ Len(queue') = Len(queue) - 1
          /\ \A j \in 1 .. (Len(queue) - 1) : queue'[j] = IF j < n THEN queue[j] ELSE queue[j + 1]
      BY <3>1, <3>2, RemoveAtProperties
    <3>4. ASSUME NEW i \in 1 .. Len(queue')
          PROVE  \E l \in 1 .. Len(queue) : queue'[i] = queue[l] /\ l = IF i < n THEN i ELSE i + 1
      <4>1. i \in 1 .. Len(queue) /\ i + 1 \in 1 .. Len(queue)
        BY <3>2, <3>3
      <4> QED BY <3>2, <3>3, <4>1
    <3>5. ASSUME NEW i \in 1 .. Len(queue'), NEW j \in 1 .. Len(queue'), i < j
          PROVE  queue'[i] < queue'[j]
      <4>1. PICK a \in 1 .. Len(queue) : queue'[i] = queue[a] /\ a = IF i < n THEN i ELSE i + 1
        BY <3>4
      <4>2. PICK b \in 1 .. Len(queue) : queue'[j] = queue[b] /\ b = IF j < n THEN j ELSE j + 1
        BY <3>4
      <4>3. a < b
        BY <3>5, <4>1, <4>2
      <4> QED BY <1>1, <4>1, <4>2, <4>3 DEF InTurnOrder
    <3>6. \A w \in Messages : Waiting(w)' => Waiting(w)
      BY <1>4, <3>4 DEF Waiting
    <3> QED BY <3>5, <3>6
  <2> QED BY <1>3, <2>1, <2>2, <2>3
          DEF Afresh, Rename, Quiet, NewConversation, Login, DeleteConversation, RenameConversation, Unqueue,
              Logout, tab
<1>11. InTurnOrder'
  BY <1>1, <1>4, <1>6, <1>9, <1>10, OrderRests
<1> QED BY <1>5, <1>8, <1>11

\* A pass sends the first of what waits, once nothing is in progress.
LEMMA PassAsTyped ==
  ASSUME TypeOK, QueueSound, OneTurn, InTurnOrder, LogsSound, account # None,
         typed' \in typed .. MaxTyped, isDraining' = TRUE, UNCHANGED << active, thread, epoch >>, Note,
         NEW gone \in Messages \union {None}, InProgress \subseteq {gone}, gone \in Messages => drain[gone] = "pass",
         NEW q \in Seq(1 .. typed'), q # << >>, \A i \in 1 .. Len(q) : Waiting(q[i]),
         \A i, j \in 1 .. Len(q) : i < j => q[i] < q[j],
         PassWith(q, gone)
  PROVE  OneTurn' /\ InTurnOrder' /\ LogsSound'
<1> DEFINE h == Head(q)
<1>1. /\ typed \in Nat /\ typed' \in Nat /\ typed <= typed' /\ typed' <= MaxTyped /\ MaxTyped \in Nat
      /\ drain \in [Messages -> {"none", "waiting", "reading", "pass"}]
  BY ChatAssumption DEF TypeOK
<1>2. /\ Len(q) \in Nat \ {0} /\ h = q[1] /\ h \in 1 .. typed' /\ 1 \in 1 .. Len(q)
      /\ Len(Tail(q)) = Len(q) - 1 /\ \A i \in 1 .. (Len(q) - 1) : Tail(q)[i] = q[i + 1]
  OBVIOUS
<1>3. /\ queue' = Tail(q)
      /\ drain' = [m \in Messages |-> IF m = h THEN "waiting" ELSE IF m = gone THEN "none" ELSE drain[m]]
      /\ turn' = [turn EXCEPT ![h] = Posted]
  BY DEF PassWith, dequeue
<1> HIDE DEF h
<1>4. h \in Messages /\ Waiting(h) /\ Fresh(h) /\ h \in Nat
  BY <1>1, <1>2 DEF QueueSound, Messages
<1>5. /\ \A m \in Messages : turn[m] = Over /\ turn[m].at = "over"
      /\ \A m \in Messages \ {gone} : drain[m] = "none"
  <2>1. \A m \in Messages : turn[m] = Over
    BY <1>1 DEF OneTurn, InProgress
  <2> QED BY <2>1 DEF InProgress, Over
<1>6. Posted.at = "thread" /\ Posted.thread = active /\ Posted # Over
  BY DEF Posted, Over
<1>7. /\ \A m \in Messages : turn'[m] = IF m = h THEN Posted ELSE turn[m]
      /\ \A m \in Messages : drain'[m] = IF m = h THEN "waiting" ELSE "none"
  BY <1>3, <1>4, <1>5 DEF TypeOK
<1>8. InProgress' = {h}
  BY <1>4, <1>5, <1>7 DEF InProgress
<1>9. OneTurn'
  BY <1>4, <1>5, <1>6, <1>7, <1>8 DEF OneTurn
<1>10. /\ \A k \in Threads : Earlier(k, h)
       /\ Threads' = Threads /\ \A k, m \in Messages : Earlier(k, m)' <=> Earlier(k, m)
  BY <1>4 DEF InTurnOrder, Threads, Earlier
<1>11. \A i, j \in 1 .. Len(queue') : i < j => queue'[i] < queue'[j]
  <2> TAKE i, j \in 1 .. Len(queue')
  <2>1. i + 1 \in 1 .. Len(q) /\ j + 1 \in 1 .. Len(q) /\ (i < j => i + 1 < j + 1)
    BY <1>2, <1>3
  <2> QED BY <1>2, <1>3, <2>1
<1>12. ASSUME NEW w \in Messages, Waiting(w)'
       PROVE  Waiting(w) /\ h < w
  <2>1. CASE w > typed'
    <3>1. w > typed /\ h < w
      BY <1>1, <1>2, <2>1 DEF Messages
    <3> QED BY <3>1 DEF Waiting
  <2>2. CASE \E i \in 1 .. Len(queue') : queue'[i] = w
    <3>1. PICK i \in 1 .. Len(queue') : queue'[i] = w
      BY <2>2
    <3>2. i + 1 \in 1 .. Len(q) /\ w = q[i + 1] /\ 1 < i + 1
      BY <1>2, <1>3, <3>1
    <3> QED BY <1>2, <3>2
  <2> QED BY <1>12, <2>1, <2>2 DEF Waiting
<1>13. InTurnOrder'
  <2>1. \A w \in Messages : Waiting(w)' => (\A m \in InProgress' : m < w) /\ \A k \in Threads' : Earlier(k, w)'
    BY <1>8, <1>10, <1>12 DEF InTurnOrder, Threads
  <2>2. \A m \in Messages : turn'[m].at \in {"thread", "say"} => \A k \in Threads' : Earlier(k, m)'
    BY <1>5, <1>7, <1>10 DEF Threads
  <2> QED BY <1>11, <2>1, <2>2 DEF InTurnOrder
<1>14. Posts = {h}
  BY <1>4, <1>5, <1>7 DEF Posts, Fresh
<1>15. epochOf'[h] = epoch /\ \A m \in Messages \ {h} : epochOf'[m] = epochOf[m]
  BY <1>4, <1>14 DEF Note
<1>16. ASSUME NEW k \in Threads'
       PROVE  LogSound(k)'
  <2>1. PICK entries : entries = thread[k].log
    OBVIOUS
  <2>2. /\ k \in Threads /\ k \in Messages /\ entries \in Seq(Messages \X {"user", "ai"})
        /\ thread'[k] = thread[k] /\ thread'[k].log = entries
    BY <1>10, <2>1, LogIs
  <2>3. /\ Dialogue(entries)
        /\ entries # << >> /\ entries[Len(entries)][2] = "user" =>
             turn[entries[Len(entries)][1]].at = "answer"
        /\ entries # << >> /\ thread[k].title = None =>
             \E m \in Messages : turn[m].at \in {"answer", "title", "name"}
        /\ \A i, j \in DOMAIN entries : epochOf[entries[i][1]] = epochOf[entries[j][1]]
        /\ Visited(k) => \A i \in DOMAIN entries : epochOf[entries[i][1]] = epoch
    BY <2>1, <2>2 DEF LogsSound, LogSound
  <2>4. \A i \in DOMAIN entries : entries[i][1] \in Messages \ {h}
    <3>1. \A i \in DOMAIN entries : entries[i][1] \in Messages
      BY <2>2
    <3>2. \A i \in DOMAIN entries : entries[i][1] < h
      BY <1>10, <2>1, <2>2 DEF Earlier
    <3> QED BY <1>4, <3>1, <3>2
  <2>5. entries # << >> => Len(entries) \in DOMAIN entries
    BY <2>2
  <2>6. /\ ~ (entries # << >> /\ entries[Len(entries)][2] = "user")
        /\ ~ (entries # << >> /\ thread[k].title = None)
    BY <1>5, <2>3, <2>4, <2>5
  <2>7. \A m \in Messages : turn'[m].at # "answer"
    BY <1>5, <1>6, <1>7
  <2>8. Visited(k)' => Visited(k)
    <3>1. ASSUME NEW m \in Messages, turn'[m].at \in Stages, turn'[m].thread = k
          PROVE  k = active
      <4>1. m = h
        BY <1>5, <1>7, <3>1 DEF Stages
      <4> QED BY <1>6, <1>7, <3>1, <4>1
    <3> QED BY <3>1 DEF Visited
  <2>9. \A i \in DOMAIN entries : epochOf'[entries[i][1]] = epochOf[entries[i][1]]
    BY <1>15, <2>4
  <2>10. /\ \A i, j \in DOMAIN entries : epochOf'[entries[i][1]] = epochOf'[entries[j][1]]
         /\ Visited(k)' => \A i \in DOMAIN entries : epochOf'[entries[i][1]] = epoch'
    BY <2>3, <2>8, <2>9
  <2> QED BY <2>2, <2>3, <2>6, <2>7, <2>10 DEF LogSound
<1>17. LogsSound'
  <2>1. \A m \in Messages : turn'[m] # Over => epochOf'[m] = epoch'
    BY <1>5, <1>7, <1>15
  <2>2. \A m \in Messages : turn'[m].at \notin Stages \ {"thread"}
    BY <1>5, <1>6, <1>7 DEF Stages
  <2> QED BY <1>16, <2>1, <2>2 DEF LogsSound
<1> QED BY <1>9, <1>13, <1>17

LEMMA TypingAsTyped ==
  ASSUME TypeOK, QueueSound, OneTurn, InTurnOrder, LogsSound,
         SendChatMessage, Note, UNCHANGED epoch
  PROVE  OneTurn' /\ InTurnOrder' /\ LogsSound'
<1>1. PICK q : q = Append(queue, typed + 1)
  OBVIOUS
<1>2. /\ typed \in Nat /\ typed' = typed + 1 /\ typed < MaxTyped /\ MaxTyped \in Nat
      /\ account # None /\ UNCHANGED << active, thread >>
      /\ queue \in Seq(1 .. typed) /\ Len(queue) \in Nat
  BY ChatAssumption DEF TypeOK, SendChatMessage
<1>3. q \in Seq(1 .. typed') /\ q # << >> /\ Len(q) = Len(queue) + 1 /\ \A i \in 1 .. Len(q) : Waiting(q[i])
  BY <1>1, <1>2, AppendWaits
<1>4. q[Len(queue) + 1] = typed + 1 /\ \A i \in 1 .. Len(queue) : q[i] = queue[i] /\ queue[i] <= typed
  BY <1>1, <1>2
<1>5. \A i, j \in 1 .. Len(q) : i < j => q[i] < q[j]
  <2> TAKE i, j \in 1 .. Len(q)
  <2>1. CASE j \in 1 .. Len(queue)
    <3>1. \A k, l \in 1 .. Len(queue) : k < l => queue[k] < queue[l]
      BY DEF InTurnOrder
    <3>2. i < j => i \in 1 .. Len(queue)
      BY <1>2, <2>1
    <3>3. q[j] = queue[j] /\ (i < j => q[i] = queue[i])
      BY <1>4, <2>1, <3>2
    <3> QED BY <2>1, <3>1, <3>2, <3>3
  <2>2. CASE j = Len(queue) + 1
    <3>1. i < j => i \in 1 .. Len(queue) /\ q[i] <= typed /\ q[i] \in Nat
      BY <1>2, <1>4, <2>2
    <3> QED BY <1>2, <1>4, <2>2, <3>1
  <2>3. j \in 1 .. Len(queue) \/ j = Len(queue) + 1
    <3>1. j \in 1 .. Len(queue) + 1
      BY <1>3
    <3> QED BY <1>2, <3>1
  <2> QED BY <2>1, <2>2, <2>3
<1>6. CASE isDraining
  <2>1. queue' = q /\ isDraining' = isDraining /\ drain' = drain /\ turn' = turn
    BY <1>1, <1>2, <1>6 DEF SendChatMessage
  <2>2. Posts = {} /\ InProgress' = InProgress
    BY <2>1 DEF Posts, InProgress
  <2>3. \A m \in Messages : epochOf'[m] = epochOf[m]
    BY <2>2 DEF Note
  <2>4. \A w \in Messages : Waiting(w)' => Waiting(w)
    <3> SUFFICES ASSUME NEW w \in Messages, Waiting(w)' PROVE Waiting(w)
      OBVIOUS
    <3>1. CASE w > typed'
      BY <1>2, <3>1 DEF Waiting, Messages
    <3>2. CASE \E i \in 1 .. Len(queue') : queue'[i] = w
      BY <1>3, <2>1, <3>2
    <3> QED BY <3>1, <3>2 DEF Waiting
  <2>5. Threads' = Threads
    BY <1>2 DEF Threads
  <2>6. OneTurn'
    BY <2>1, <2>2 DEF OneTurn
  <2>7. LogsSound'
    BY <1>2, <2>1, <2>3, <2>5, LogsRest
  <2>8. InTurnOrder'
    BY <1>2, <1>5, <2>1, <2>2, <2>4, <2>5, OrderRests
  <2> QED BY <2>6, <2>7, <2>8
<1>7. CASE ~ isDraining
  <2>1. PassWith(q, None) /\ isDraining' = TRUE /\ InProgress = {}
    BY <1>1, <1>2, <1>7 DEF SendChatMessage, OneTurn
  <2>2. typed' \in typed .. MaxTyped
    BY <1>2
  <2> QED BY <1>2, <1>3, <1>5, <2>1, <2>2, NoneIsNoMessage, PassAsTyped
<1> QED BY <1>6, <1>7

LEMMA DrainAsTyped ==
  ASSUME TypeOK, QueueSound, OneTurn, InTurnOrder, LogsSound, NEW m \in Messages, DrainPass(m),
         Note, UNCHANGED epoch
  PROVE  OneTurn' /\ InTurnOrder' /\ LogsSound'
<1>1. /\ drain[m] = "pass" /\ UNCHANGED << account, typed, active, thread >>
      /\ typed \in 0 .. MaxTyped /\ queue \in Seq(1 .. typed)
  BY DEF DrainPass, TypeOK
<1>2. m \in InProgress /\ InProgress \subseteq {m} /\ isDraining = TRUE /\ turn[m] = Over
  <2>1. m \in InProgress
    BY <1>1 DEF InProgress
  <2> QED BY <1>1, <2>1 DEF OneTurn, TypeOK
<1>3. CASE queue # << >>
  <2>1. PassWith(queue, m) /\ isDraining' = TRUE /\ account # None
    BY <1>1, <1>2, <1>3 DEF DrainPass, QueueSound
  <2>2. typed' \in typed .. MaxTyped /\ queue \in Seq(1 .. typed')
    BY <1>1, ChatAssumption
  <2>3. \A i \in 1 .. Len(queue) : Waiting(queue[i])
    BY DEF Waiting
  <2>4. \A i, j \in 1 .. Len(queue) : i < j => queue[i] < queue[j]
    BY DEF InTurnOrder
  <2> QED BY <1>1, <1>2, <1>3, <2>1, <2>2, <2>3, <2>4, PassAsTyped
<1>4. CASE queue = << >>
  <2>1. queue' = queue /\ drain' = [drain EXCEPT ![m] = "none"] /\ turn' = turn /\ isDraining' = FALSE
    BY <1>4 DEF DrainPass, EndDrain
  <2>2. /\ drain'[m] = "none" /\ \A n \in Messages \ {m} : drain'[n] = drain[n]
        /\ \A n \in Messages \ {m} : n \notin InProgress
    BY <1>2, <2>1 DEF TypeOK
  <2>3. InProgress' = {}
    BY <1>2, <2>1, <2>2 DEF InProgress
  <2>4. OneTurn'
    BY <1>2, <2>1, <2>2, <2>3 DEF OneTurn
  <2>5. Posts = {}
    BY <2>2 DEF Posts
  <2>6. \A n \in Messages : epochOf'[n] = epochOf[n]
    BY <2>5 DEF Note
  <2>7. Threads' = Threads /\ \A w \in Messages : Waiting(w)' => Waiting(w)
    BY <1>1, <2>1 DEF Threads, Waiting
  <2>8. LogsSound'
    BY <1>1, <2>1, <2>6, <2>7, LogsRest
  <2>9. InTurnOrder'
    BY <1>1, <2>1, <2>3, <2>7, OrderRests DEF InTurnOrder
  <2> QED BY <2>4, <2>8, <2>9
<1> QED BY <1>3, <1>4

\* A turn goes to another stage; before the first it finds, makes or misses its thread.
LEMMA GoesTo ==
  ASSUME TypeOK, NEW m \in Messages, turn[m].at \in Stages, NEW stage \in Stages, Goto(m, stage)
  PROVE  /\ turn'[m].at = stage /\ turn'[m].thread = turn[m].thread /\ turn'[m] # Over
         /\ \A n \in Messages \ {m} : turn'[n] = turn[n]
<1>1. turn[m] \in Staged /\ Over.at = "over"
  BY StageTypes DEF Over
<1>2. PICK t : t = [turn[m] EXCEPT !.at = stage]
  OBVIOUS
<1>3. t.at = stage /\ t.thread = turn[m].thread
  BY <1>1, <1>2 DEF Staged
<1>4. turn' = [turn EXCEPT ![m] = t]
  BY <1>2 DEF Goto
<1>5. turn'[m] = t /\ \A n \in Messages \ {m} : turn'[n] = turn[n]
  BY <1>4 DEF TypeOK
<1> QED BY <1>1, <1>3, <1>5 DEF Stages

LEMMA Resolves ==
  ASSUME TypeOK, NEW m \in Messages, ResolveThread(m)
  PROVE  /\ turn[m].at = "thread" /\ UNCHANGED tab /\ turn'[m] # Over
         /\ \A n \in Messages \ {m} : turn'[n] = turn[n]
         /\ \/ /\ turn'[m].at = "say" /\ turn'[m].thread = m
               /\ thread'[m].log = << >> /\ \A k \in Messages \ {m} : thread'[k] = thread[k]
            \/ /\ turn'[m].at = "say" /\ turn'[m].thread = turn[m].thread
               /\ turn[m].thread \in Messages /\ thread' = thread
            \/ turn'[m].at = "refused" /\ thread' = thread
<1>1. turn[m].at = "thread" /\ UNCHANGED tab /\ turn[m].at \in Stages /\ turn[m] \in Staged /\ Over.at = "over"
  BY StageTypes DEF ResolveThread, Stages, Over
<1>2. CASE /\ thread' = [thread EXCEPT ![m] = [owner |-> turn[m].user, title |-> None, log |-> << >>]]
           /\ turn' = [turn EXCEPT ![m] = [turn[m] EXCEPT !.at = "say", !.thread = m]]
  <2>1. PICK t, row : /\ t = [turn[m] EXCEPT !.at = "say", !.thread = m]
                      /\ row = [owner |-> turn[m].user, title |-> None, log |-> << >>]
    OBVIOUS
  <2>2. t.at = "say" /\ t.thread = m /\ row.log = << >>
    BY <1>1, <2>1 DEF Staged
  <2>3. thread' = [thread EXCEPT ![m] = row] /\ turn' = [turn EXCEPT ![m] = t]
    BY <1>2, <2>1
  <2>4. /\ thread'[m] = row /\ \A k \in Messages \ {m} : thread'[k] = thread[k]
        /\ turn'[m] = t /\ \A n \in Messages \ {m} : turn'[n] = turn[n]
    BY <2>3 DEF TypeOK
  <2> QED BY <1>1, <2>2, <2>4
<1>3. CASE Owned(turn[m].thread, turn[m].user) /\ Goto(m, "say") /\ thread' = thread
  <2>1. turn[m].thread \in Messages
    BY <1>1, <1>3 DEF Owned, Staged
  <2>2. "say" \in Stages
    BY DEF Stages
  <2> QED BY <1>1, <1>3, <2>1, <2>2, GoesTo
<1>4. CASE turn' = [turn EXCEPT ![m] = [at |-> "refused"]] /\ thread' = thread
  <2>1. turn'[m] = [at |-> "refused"] /\ \A n \in Messages \ {m} : turn'[n] = turn[n]
    BY <1>4 DEF TypeOK
  <2> QED BY <1>1, <1>4, <2>1
<1> QED BY <1>2, <1>3, <1>4 DEF ResolveThread

\* A reply, or a refusal, that the tab waits for.
LEMMA Answers ==
  ASSUME TypeOK, NEW m \in Messages, drain[m] \in {"waiting", "reading"}, Reply(m) \/ Refused(m)
  PROVE  /\ turn[m].at \in {"reply", "refused"} /\ turn'[m] = Over
         /\ \A n \in Messages \ {m} : turn'[n] = turn[n]
         /\ drain' = [drain EXCEPT ![m] = "pass"] /\ UNCHANGED << account, typed, queue, isDraining, thread >>
         /\ active' = active \/ (turn[m].at = "reply" /\ active' = turn[m].thread)
<1>1. turn' = [turn EXCEPT ![m] = Over]
  BY DEF Reply, Refused
<1> QED BY <1>1 DEF Reply, Refused, Awaited, Returns, TypeOK

\* The only turn moves on, or ends: it stays the only one, and in its place.
LEMMA TurnStaysFirst ==
  ASSUME TypeOK, OneTurn, InTurnOrder, NEW m \in Messages, turn[m] # Over,
         \A n \in Messages \ {m} : turn'[n] = turn[n], UNCHANGED << queue, typed, isDraining >>,
         \/ drain' = drain /\ turn'[m] # Over
         \/ drain' = [drain EXCEPT ![m] = "reading"] /\ turn'[m] # Over
         \/ drain' = [drain EXCEPT ![m] = "pass"] /\ turn'[m] = Over,
         turn'[m].at \in {"thread", "say"} => turn[m].at \in {"thread", "say"},
         \A k \in Threads' : \A i \in DOMAIN thread'[k].log :
            \/ k \in Threads /\ \E j \in DOMAIN thread[k].log : thread[k].log[j] = thread'[k].log[i]
            \/ thread'[k].log[i][1] = m /\ turn'[m].at \notin {"thread", "say"}
  PROVE  OneTurn' /\ InTurnOrder'
<1>1. /\ m \in InProgress /\ drain[m] \in {"waiting", "reading"}
      /\ \A n \in Messages \ {m} : turn[n] = Over /\ turn[n].at = "over" /\ drain[n] = "none"
  BY OnlyTurn
<1>2. /\ \A n \in Messages \ {m} : drain'[n] = "none"
      /\ \/ drain'[m] \in {"waiting", "reading"} /\ turn'[m] # Over
         \/ drain'[m] = "pass" /\ turn'[m] = Over
  BY <1>1 DEF TypeOK
<1>3. InProgress' = {m} /\ InProgress = {m}
  BY <1>1, <1>2 DEF InProgress
<1>4. isDraining
  BY <1>1 DEF OneTurn
<1>5. OneTurn'
  BY <1>1, <1>2, <1>3, <1>4 DEF OneTurn
<1>6. \A w \in Messages : Waiting(w)' => Waiting(w)
  BY DEF Waiting
<1>7. ASSUME NEW w \in Messages, NEW k \in Threads', \A j \in Threads : Earlier(j, w),
             m < w \/ turn'[m].at \in {"thread", "say"}
      PROVE  Earlier(k, w)'
  BY <1>7 DEF Earlier
<1>8. \A w \in Messages : Waiting(w)' => (\A n \in InProgress' : n < w) /\ \A k \in Threads' : Earlier(k, w)'
  BY <1>3, <1>6, <1>7 DEF InTurnOrder
<1>9. \A n \in Messages : turn'[n].at \in {"thread", "say"} => \A k \in Threads' : Earlier(k, n)'
  BY <1>1, <1>7 DEF InTurnOrder
<1> QED BY <1>5, <1>8, <1>9 DEF InTurnOrder

\* The only turn moves on without adding to a log; what it owes of a title it still owes.
LEMMA LogsStay ==
  ASSUME TypeOK, OneTurn, LogsSound, NEW m \in Messages, turn[m] # Over, turn[m].at # "answer",
         \A n \in Messages \ {m} : turn'[n] = turn[n], turn'[m].at # "answer",
         epoch' = epoch, \A n \in Messages : epochOf'[n] = epochOf[n],
         turn'[m].at \in Stages \ {"thread"} => turn'[m].thread \in Messages,
         \A k \in Threads' :
            \/ thread'[k].log = << >>
            \/ /\ k \in Threads /\ thread'[k].log = thread[k].log
               /\ thread'[k].title = None => thread[k].title = None
               /\ thread'[k].title = None /\ turn[m].at \in {"title", "name"} /\ turn[m].thread = k =>
                    turn'[m].at \in {"title", "name"} /\ turn'[m].thread = k
               /\ Visited(k)' => Visited(k)
  PROVE  LogsSound'
<1>1. \A n \in Messages \ {m} : turn[n] = Over /\ turn[n].at = "over" /\ turn'[n].at = "over"
  BY OnlyTurn
<1>2. \A n \in Messages : turn'[n] # Over => epochOf'[n] = epoch'
  BY DEF LogsSound
<1>3. \A n \in Messages : turn'[n].at \in Stages \ {"thread"} => turn'[n].thread \in Messages
  BY <1>1 DEF Stages
<1>4. \A n \in Messages : turn[n].at # "answer" /\ turn'[n].at # "answer"
  BY <1>1
<1>5. ASSUME NEW k \in Threads', thread'[k].log = << >>
      PROVE  LogSound(k)'
  <2>1. DOMAIN thread'[k].log = {}
    BY <1>5
  <2>2. Dialogue(thread'[k].log)
    BY <2>1 DEF Dialogue
  <2> QED BY <1>4, <1>5, <2>1, <2>2 DEF LogSound
<1>6. ASSUME NEW k \in Threads', thread'[k].log # << >>
      PROVE  LogSound(k)'
  <2>1. /\ k \in Threads /\ thread'[k].log = thread[k].log
        /\ thread'[k].title = None => thread[k].title = None
        /\ thread'[k].title = None /\ turn[m].at \in {"title", "name"} /\ turn[m].thread = k =>
             turn'[m].at \in {"title", "name"} /\ turn'[m].thread = k
        /\ Visited(k)' => Visited(k)
    BY <1>6
  <2>2. PICK entries : entries = thread[k].log /\ entries = thread'[k].log
    BY <2>1
  <2>3. /\ k \in Messages /\ entries \in Seq(Messages \X {"user", "ai"}) /\ entries # << >>
        /\ \A i \in DOMAIN entries : entries[i][1] \in Messages
        /\ entries[Len(entries)][1] \in Messages
    BY <1>6, <2>1, <2>2, LogIs
  <2>4. /\ Dialogue(entries)
        /\ entries[Len(entries)][2] = "user" => turn[entries[Len(entries)][1]].at = "answer"
        /\ thread[k].title = None =>
             \E n \in Messages : /\ turn[n].at \in {"answer", "title", "name"} /\ turn[n].thread = k
                                 /\ \A i \in DOMAIN entries : entries[i][1] = n
        /\ \A i, j \in DOMAIN entries : epochOf[entries[i][1]] = epochOf[entries[j][1]]
        /\ Visited(k) => \A i \in DOMAIN entries : epochOf[entries[i][1]] = epoch
    BY <2>1, <2>2, <2>3 DEF LogsSound, LogSound
  <2>5. entries[Len(entries)][2] # "user"
    BY <1>4, <2>3, <2>4
  <2>6. thread'[k].title = None =>
          \E n \in Messages : /\ turn'[n].at \in {"answer", "title", "name"} /\ turn'[n].thread = k
                              /\ \A i \in DOMAIN entries : entries[i][1] = n
    <3>1. ASSUME thread'[k].title = None
          PROVE  /\ turn'[m].at \in {"answer", "title", "name"} /\ turn'[m].thread = k
                 /\ \A i \in DOMAIN entries : entries[i][1] = m
      <4>1. PICK n \in Messages : /\ turn[n].at \in {"answer", "title", "name"} /\ turn[n].thread = k
                                  /\ \A i \in DOMAIN entries : entries[i][1] = n
        BY <2>1, <2>4, <3>1
      <4>2. n = m /\ turn[m].at \in {"title", "name"}
        BY <1>1, <1>4, <4>1
      <4> QED BY <2>1, <3>1, <4>1, <4>2
    <3> QED BY <3>1
  <2>7. \A i \in DOMAIN entries : epochOf'[entries[i][1]] = epochOf[entries[i][1]]
    BY <2>3
  <2>8. /\ \A i, j \in DOMAIN entries : epochOf'[entries[i][1]] = epochOf'[entries[j][1]]
        /\ Visited(k)' => \A i \in DOMAIN entries : epochOf'[entries[i][1]] = epoch'
    BY <2>1, <2>4, <2>7
  <2> QED BY <1>4, <2>2, <2>3, <2>4, <2>5, <2>6, <2>8 DEF LogSound
<1> QED BY <1>2, <1>3, <1>5, <1>6 DEF LogsSound

\* A message is saved in the thread of the only turn, which has one.
LEMMA Appended ==
  ASSUME NEW s \in Seq(Messages \X {"user", "ai"}), NEW m \in Messages, NEW sender \in {"user", "ai"},
         NEW t, t = Append(s, <<m, sender>>)
  PROVE  /\ t # << >> /\ t[Len(t)] = <<m, sender>> /\ t[Len(t)][1] = m /\ t[Len(t)][2] = sender
         /\ \A i \in DOMAIN t : (i \in DOMAIN s /\ t[i] = s[i]) \/ t[i][1] = m
         /\ s = << >> => \A i \in DOMAIN t : t[i][1] = m
<1>0. PICK e : e = <<m, sender>>
  OBVIOUS
<1>1. e = <<m, sender>> /\ e[1] = m /\ e[2] = sender
  BY <1>0
<1>2. t = Append(s, e) /\ Len(s) \in Nat /\ Len(t) = Len(s) + 1 /\ t[Len(s) + 1] = e
      /\ DOMAIN s = 1 .. Len(s) /\ DOMAIN t = 1 .. Len(s) + 1 /\ \A i \in 1 .. Len(s) : t[i] = s[i]
  BY <1>1
<1>3. ASSUME NEW i \in DOMAIN t
      PROVE  (i \in DOMAIN s /\ t[i] = s[i]) \/ t[i] = e
  BY <1>2
<1>4. t # << >> /\ t[Len(t)] = e
  BY <1>2
<1>5. s = << >> => DOMAIN s = {}
  OBVIOUS
<1> QED BY <1>1, <1>3, <1>4, <1>5

LEMMA RecordIs ==
  ASSUME TypeOK, NEW m \in Messages, NEW c \in Messages, turn[m].thread = c, NEW sender \in {"user", "ai"},
         Record(m, sender, TRUE)
  PROVE  /\ \A k \in Messages \ {c} : thread'[k] = thread[k]
         /\ thread[c] = None => thread' = thread
         /\ thread[c] # None => /\ thread'[c].log = Append(thread[c].log, <<m, sender>>)
                                /\ thread'[c].title = thread[c].title
<1>1. CASE thread[c] = None
  BY <1>1 DEF Record, Exists
<1>2. CASE thread[c] # None
  <2>1. PICK old, new : old = thread[c] /\ new = [old EXCEPT !.log = Append(@, <<m, sender>>)]
    OBVIOUS
  <2>2. old \in Thread
    BY <1>2, <2>1 DEF TypeOK
  <2>3. new.log = Append(old.log, <<m, sender>>) /\ new.title = old.title
    BY <2>1, <2>2 DEF Thread
  <2>4. thread' = [thread EXCEPT ![c] = new]
    BY <1>2, <2>1 DEF Record, Exists
  <2>5. thread'[c] = new /\ \A k \in Messages \ {c} : thread'[k] = thread[k]
    BY <2>4 DEF TypeOK
  <2> QED BY <1>2, <2>1, <2>3, <2>5
<1> QED BY <1>1, <1>2

LEMMA SavedAsTyped ==
  ASSUME TypeOK, OneTurn, InTurnOrder, LogsSound, NEW m \in Messages,
         SaveUserMessage(m, TRUE) \/ SaveAnswer(m, TRUE),
         epoch' = epoch, \A n \in Messages : epochOf'[n] = epochOf[n]
  PROVE  OneTurn' /\ InTurnOrder' /\ LogsSound'
<1> DEFINE says == IF turn[m].at = "say" THEN "user" ELSE "ai"
           next == IF turn[m].at = "say" THEN "answer" ELSE "title"
<1>1. /\ turn[m].at \in {"say", "answer"} /\ turn[m].at \in Stages /\ turn[m] # Over
      /\ turn[m].thread \in Messages /\ Over.at = "over" /\ UNCHANGED tab
      /\ Record(m, says, TRUE) /\ Goto(m, next) /\ says \in {"user", "ai"} /\ next \in Stages
  <2>1. turn[m].at \in {"say", "answer"} /\ turn[m].at \in Stages \ {"thread"} /\ Over.at = "over"
    BY DEF SaveUserMessage, SaveAnswer, Stages, Over
  <2>2. UNCHANGED tab /\ Record(m, says, TRUE) /\ Goto(m, next)
    BY DEF SaveUserMessage, SaveAnswer
  <2>3. says \in {"user", "ai"} /\ next \in Stages
    BY DEF Stages
  <2> QED BY <2>1, <2>2, <2>3 DEF LogsSound
<1>2. PICK sender, stage, c : /\ sender = says /\ stage = next /\ c = turn[m].thread
                              /\ sender \in {"user", "ai"} /\ stage \in Stages /\ c \in Messages
                              /\ turn[m].at = "say" => sender = "user" /\ stage = "answer"
                              /\ turn[m].at = "answer" => sender = "ai" /\ stage = "title"
  BY <1>1
<1> HIDE DEF says, next
<1>3. /\ turn'[m].at = stage /\ turn'[m].thread = c /\ turn'[m] # Over
      /\ \A n \in Messages \ {m} : turn'[n] = turn[n]
  BY <1>1, <1>2, GoesTo
<1>4. /\ \A k \in Messages \ {c} : thread'[k] = thread[k]
      /\ thread[c] = None => thread' = thread
      /\ thread[c] # None => /\ thread'[c].log = Append(thread[c].log, <<m, sender>>)
                             /\ thread'[c].title = thread[c].title
  BY <1>1, <1>2, RecordIs
<1>5. \A n \in Messages \ {m} : turn[n].at = "over" /\ turn'[n].at = "over" /\ turn[n] = Over
  BY <1>1, <1>3, OnlyTurn
<1>6. \A k \in Threads' : k \in Threads
  BY <1>4 DEF Threads
<1>7. ASSUME NEW k \in Threads
      PROVE  LET entries == thread[k].log
             IN /\ k \in Messages /\ entries \in Seq(Messages \X {"user", "ai"})
                /\ \A i \in DOMAIN entries : entries[i][1] \in Messages
                /\ entries # << >> => entries[Len(entries)][1] \in Messages
                /\ Dialogue(entries)
                /\ entries # << >> /\ entries[Len(entries)][2] = "user" => turn[m].at = "answer" /\ k = c
                /\ turn[m].at = "answer" /\ k = c => entries # << >> /\ entries[Len(entries)] = <<m, "user">>
                /\ entries # << >> /\ thread[k].title = None =>
                     turn[m].at = "answer" /\ k = c /\ \A i \in DOMAIN entries : entries[i][1] = m
                /\ \A i, j \in DOMAIN entries : epochOf[entries[i][1]] = epochOf[entries[j][1]]
                /\ Visited(k) => \A i \in DOMAIN entries : epochOf[entries[i][1]] = epoch
  <2>1. PICK entries : entries = thread[k].log
    OBVIOUS
  <2>2. /\ k \in Messages /\ entries \in Seq(Messages \X {"user", "ai"})
        /\ \A i \in DOMAIN entries : entries[i][1] \in Messages
        /\ entries # << >> => entries[Len(entries)][1] \in Messages
    BY <2>1, LogIs
  <2>3. /\ Dialogue(entries)
        /\ entries # << >> /\ entries[Len(entries)][2] = "user" =>
             turn[entries[Len(entries)][1]].at = "answer" /\ turn[entries[Len(entries)][1]].thread = k
        /\ \A n \in Messages : turn[n].at = "answer" /\ turn[n].thread = k =>
             entries # << >> /\ entries[Len(entries)] = <<n, "user">>
        /\ entries # << >> /\ thread[k].title = None =>
             \E n \in Messages : /\ turn[n].at \in {"answer", "title", "name"} /\ turn[n].thread = k
                                 /\ \A i \in DOMAIN entries : entries[i][1] = n
        /\ \A i, j \in DOMAIN entries : epochOf[entries[i][1]] = epochOf[entries[j][1]]
        /\ Visited(k) => \A i \in DOMAIN entries : epochOf[entries[i][1]] = epoch
    BY <2>1 DEF LogsSound, LogSound
  <2>4. /\ entries # << >> /\ entries[Len(entries)][2] = "user" => turn[m].at = "answer" /\ k = c
        /\ turn[m].at = "answer" /\ k = c => entries # << >> /\ entries[Len(entries)] = <<m, "user">>
    BY <1>2, <1>5, <2>2, <2>3
  <2>5. entries # << >> /\ thread[k].title = None =>
          turn[m].at = "answer" /\ k = c /\ \A i \in DOMAIN entries : entries[i][1] = m
    <3>1. ASSUME NEW n \in Messages, turn[n].at \in {"answer", "title", "name"}
          PROVE  n = m /\ turn[m].at = "answer"
      BY <1>1, <1>5, <3>1
    <3> QED BY <1>2, <2>3, <3>1
  <2> QED BY <2>1, <2>2, <2>3, <2>4, <2>5
<1>8. \A n \in Messages : turn'[n].at = "answer" => n = m /\ turn[m].at = "say"
  BY <1>1, <1>2, <1>3, <1>5
<1>9. \A k \in Messages : Visited(k)' => Visited(k)
  BY <1>1, <1>2, <1>3, <1>5 DEF Visited, tab
<1>10. ASSUME NEW k \in Threads', thread'[k] = thread[k], k # c
       PROVE  LogSound(k)'
  <2>1. PICK entries : entries = thread[k].log /\ entries = thread'[k].log
    BY <1>10
  <2>2. /\ k \in Messages /\ \A i \in DOMAIN entries : entries[i][1] \in Messages
        /\ Dialogue(entries)
        /\ ~ (entries # << >> /\ entries[Len(entries)][2] = "user")
        /\ ~ (entries # << >> /\ thread[k].title = None)
        /\ \A i, j \in DOMAIN entries : epochOf[entries[i][1]] = epochOf[entries[j][1]]
        /\ Visited(k) => \A i \in DOMAIN entries : epochOf[entries[i][1]] = epoch
    BY <1>6, <1>7, <1>10, <2>1
  <2>3. /\ \A i, j \in DOMAIN entries : epochOf'[entries[i][1]] = epochOf'[entries[j][1]]
        /\ Visited(k)' => \A i \in DOMAIN entries : epochOf'[entries[i][1]] = epoch'
    BY <1>9, <2>2
  <2> QED BY <1>3, <1>8, <1>10, <2>1, <2>2, <2>3 DEF LogSound
<1>11. ASSUME c \in Threads'
       PROVE  /\ LogSound(c)'
              /\ \A i \in DOMAIN thread'[c].log :
                    \/ \E j \in DOMAIN thread[c].log : thread[c].log[j] = thread'[c].log[i]
                    \/ thread'[c].log[i][1] = m
  <2>1. PICK entries, longer : entries = thread[c].log /\ longer = thread'[c].log
    OBVIOUS
  <2>2. c \in Threads /\ longer = Append(entries, <<m, sender>>) /\ thread'[c].title = thread[c].title
    BY <1>4, <1>6, <1>11, <2>1 DEF Threads
  <2>3. /\ entries \in Seq(Messages \X {"user", "ai"})
        /\ \A i \in DOMAIN entries : entries[i][1] \in Messages
        /\ Dialogue(entries)
        /\ entries # << >> /\ entries[Len(entries)][2] = "user" => turn[m].at = "answer"
        /\ turn[m].at = "answer" => entries # << >> /\ entries[Len(entries)] = <<m, "user">>
        /\ entries # << >> /\ thread[c].title = None =>
             turn[m].at = "answer" /\ \A i \in DOMAIN entries : entries[i][1] = m
        /\ Visited(c) => \A i \in DOMAIN entries : epochOf[entries[i][1]] = epoch
    BY <1>7, <2>1, <2>2
  <2>4. /\ longer # << >> /\ longer[Len(longer)] = <<m, sender>>
        /\ longer[Len(longer)][1] = m /\ longer[Len(longer)][2] = sender
        /\ \A i \in DOMAIN longer : (i \in DOMAIN entries /\ longer[i] = entries[i]) \/ longer[i][1] = m
        /\ entries = << >> => \A i \in DOMAIN longer : longer[i][1] = m
    BY <1>2, <2>2, <2>3, Appended
  <2>5. Dialogue(longer)
    <3>1. CASE turn[m].at = "say"
      <4>1. \A i \in DOMAIN entries : entries[i][1] < m
        BY <2>1, <2>2, <3>1 DEF InTurnOrder, Earlier
      <4> QED BY <1>2, <2>2, <2>3, <3>1, <4>1, QuestionAdded
    <3>2. CASE turn[m].at = "answer"
      BY <1>2, <2>2, <2>3, <3>2, AnswerAdded
    <3> QED BY <1>1, <3>1, <3>2
  <2>6. longer[Len(longer)][2] = "user" => turn'[m].at = "answer" /\ turn'[m].thread = c
    BY <1>1, <1>2, <1>3, <2>4
  <2>7. \A n \in Messages : turn'[n].at = "answer" => longer[Len(longer)] = <<n, "user">>
    BY <1>2, <1>8, <2>4
  <2>8. thread'[c].title = None =>
          /\ turn'[m].at \in {"answer", "title", "name"} /\ turn'[m].thread = c
          /\ \A i \in DOMAIN longer : longer[i][1] = m
    BY <1>1, <1>2, <1>3, <2>2, <2>3, <2>4
  <2>9. \A i \in DOMAIN longer : epochOf'[longer[i][1]] = epoch'
    <3>1. Visited(c)
      BY <1>1, <1>2 DEF Visited
    <3>2. epochOf[m] = epoch
      BY <1>1 DEF LogsSound
    <3> QED BY <2>3, <2>4, <3>1, <3>2
  <2>10. LogSound(c)'
    BY <2>1, <2>4, <2>5, <2>6, <2>7, <2>8, <2>9 DEF LogSound
  <2> QED BY <2>1, <2>4, <2>10
<1>12. LogsSound'
  <2>1. \A k \in Threads' : LogSound(k)'
    BY <1>4, <1>10, <1>11 DEF Threads
  <2>2. \A n \in Messages : turn'[n] # Over => epochOf'[n] = epoch'
    BY <1>1, <1>3 DEF LogsSound
  <2>3. \A n \in Messages : turn'[n].at \in Stages \ {"thread"} => turn'[n].thread \in Messages
    BY <1>2, <1>3, <1>5 DEF Stages
  <2> QED BY <2>1, <2>2, <2>3 DEF LogsSound
<1>13. OneTurn' /\ InTurnOrder'
  <2>1. UNCHANGED << queue, typed, isDraining >> /\ drain' = drain
    BY <1>1 DEF tab
  <2>2. turn'[m].at \notin {"thread", "say"}
    BY <1>1, <1>2, <1>3
  <2>3. ASSUME NEW k \in Threads', NEW i \in DOMAIN thread'[k].log
        PROVE  \/ k \in Threads /\ \E j \in DOMAIN thread[k].log : thread[k].log[j] = thread'[k].log[i]
               \/ thread'[k].log[i][1] = m /\ turn'[m].at \notin {"thread", "say"}
    <3>1. CASE k = c
      BY <1>6, <1>11, <2>2, <2>3, <3>1
    <3>2. CASE k # c
      BY <1>4, <1>6, <2>3, <3>2 DEF Threads
    <3> QED BY <3>1, <3>2
  <2> QED BY <1>1, <1>3, <2>1, <2>2, <2>3, TurnStaysFirst
<1> QED BY <1>12, <1>13

\* A title is given by the turn.
LEMMA NameIs ==
  ASSUME TypeOK, NEW m \in Messages, NEW c \in Messages, turn[m].thread = c, NameThread(m)
  PROVE  /\ \A k \in Messages \ {c} : thread'[k] = thread[k]
         /\ thread[c] = None => thread' = thread
         /\ thread[c] # None => thread'[c].log = thread[c].log /\ thread'[c].title # None
<1>1. CASE thread[c] = None
  BY <1>1 DEF NameThread, Exists
<1>2. CASE thread[c] # None
  <2>1. PICK old, new : old = thread[c] /\ new = [old EXCEPT !.title = "generated"]
    OBVIOUS
  <2>2. old \in Thread
    BY <1>2, <2>1 DEF TypeOK
  <2>3. new.log = old.log /\ new.title = "generated" /\ "generated" # None
    BY <2>1, <2>2, ChatAssumption DEF Thread
  <2>4. thread' = [thread EXCEPT ![c] = new]
    BY <1>2, <2>1 DEF NameThread, Exists
  <2>5. thread'[c] = new /\ \A k \in Messages \ {c} : thread'[k] = thread[k]
    BY <2>4 DEF TypeOK
  <2> QED BY <1>2, <2>1, <2>3, <2>5
<1> QED BY <1>1, <1>2

\* A step of the turn that is in progress.
LEMMA TurnAsTyped ==
  ASSUME TypeOK, QueueSound, OneTurn, InTurnOrder, LogsSound, NEW m \in Messages, TurnStep(m),
         Note, UNCHANGED epoch
  PROVE  OneTurn' /\ InTurnOrder' /\ LogsSound'
<1>1. turn[m] # Over /\ Over.at = "over" /\ turn[m].at # "over"
  <2>1. turn[m].at \in Stages \union {"refused"} /\ Over.at = "over"
    BY DEF TurnStep, ResolveThread, SaveUserMessage, SaveAnswer, ReadTitle, NameThread, HeadersArrive, Reply, Refused, Stages, Over
  <2> QED BY <2>1 DEF Stages
<1>2. drain[m] \in {"waiting", "reading"} /\ \A n \in Messages \ {m} : turn[n].at = "over"
  BY <1>1, OnlyTurn
<1>3. Posts = {}
  <2>1. CASE drain' = drain
    BY <2>1 DEF Posts
  <2>2. CASE Reply(m) \/ Refused(m)
    BY <1>2, <2>2, Answers DEF Posts, TypeOK
  <2>3. CASE HeadersArrive(m)
    BY <2>3 DEF HeadersArrive, Posts, TypeOK
  <2> QED BY <2>1, <2>2, <2>3 DEF TurnStep, ResolveThread, SaveUserMessage, SaveAnswer, ReadTitle, NameThread, tab
<1>4. \A n \in Messages : epochOf'[n] = epochOf[n]
  BY <1>3 DEF Note
\* What is left to show of a step that adds nothing to a log.
<1>5. ASSUME turn[m].at # "answer", turn'[m].at \notin {"answer", "thread"},
             \A n \in Messages \ {m} : turn'[n] = turn[n], UNCHANGED << queue, typed, isDraining >>,
             \/ drain' = drain /\ turn'[m] # Over
             \/ drain' = [drain EXCEPT ![m] = "reading"] /\ turn'[m] # Over
             \/ drain' = [drain EXCEPT ![m] = "pass"] /\ turn'[m] = Over,
             turn'[m].at = "say" => turn[m].at = "thread",
             turn'[m].at \in Stages => turn'[m].thread \in Messages,
             \A k \in Threads' :
                \/ thread'[k].log = << >>
                \/ /\ k \in Threads /\ thread'[k].log = thread[k].log
                   /\ thread'[k].title = None => thread[k].title = None
                   /\ thread'[k].title = None /\ turn[m].at \in {"title", "name"} /\ turn[m].thread = k =>
                        turn'[m].at \in {"title", "name"} /\ turn'[m].thread = k
                   /\ Visited(k)' => Visited(k)
      PROVE  OneTurn' /\ InTurnOrder' /\ LogsSound'
  <2>1. LogsSound'
    BY <1>1, <1>4, <1>5, LogsStay
  <2>2. turn'[m].at \in {"thread", "say"} => turn[m].at \in {"thread", "say"}
    BY <1>5
  <2>3. ASSUME NEW k \in Threads', NEW i \in DOMAIN thread'[k].log
        PROVE  k \in Threads /\ \E j \in DOMAIN thread[k].log : thread[k].log[j] = thread'[k].log[i]
    <3>1. thread'[k].log # << >>
      <4>1. thread'[k].log = << >> => DOMAIN thread'[k].log = {}
        OBVIOUS
      <4> QED BY <2>3, <4>1
    <3>2. k \in Threads /\ thread'[k].log = thread[k].log
      BY <1>5, <3>1
    <3> QED BY <3>2
  <2>4. \A k \in Threads' : \A i \in DOMAIN thread'[k].log :
           \/ k \in Threads /\ \E j \in DOMAIN thread[k].log : thread[k].log[j] = thread'[k].log[i]
           \/ thread'[k].log[i][1] = m /\ turn'[m].at \notin {"thread", "say"}
    BY <2>3
  <2>5. /\ UNCHANGED << queue, typed, isDraining >>
        /\ \/ drain' = drain /\ turn'[m] # Over
           \/ drain' = [drain EXCEPT ![m] = "reading"] /\ turn'[m] # Over
           \/ drain' = [drain EXCEPT ![m] = "pass"] /\ turn'[m] = Over
        /\ \A n \in Messages \ {m} : turn'[n] = turn[n]
    BY <1>5
  <2>6. OneTurn' /\ InTurnOrder'
    BY <1>1, <2>2, <2>4, <2>5, TurnStaysFirst
  <2> QED BY <2>1, <2>6
\* The thread of the turn was visited already.
<1>6. ASSUME active' = active \/ (turn[m].at = "reply" /\ active' = turn[m].thread),
             \A n \in Messages \ {m} : turn'[n] = turn[n], NEW k \in Messages,
             turn'[m].at \in Stages /\ turn'[m].thread = k => turn[m].at \in Stages /\ turn[m].thread = k,
             Visited(k)'
      PROVE  Visited(k)
  <2>1. "reply" \in Stages
    BY DEF Stages
  <2>2. CASE k = active'
    BY <1>6, <2>1, <2>2 DEF Visited
  <2>3. ASSUME NEW n \in Messages, turn'[n].at \in Stages, turn'[n].thread = k
        PROVE  Visited(k)
    BY <1>6, <2>3 DEF Visited
  <2> QED BY <1>6, <2>2, <2>3 DEF Visited
<1>7. CASE ResolveThread(m)
  <2>1. /\ turn[m].at = "thread" /\ turn'[m] # Over /\ UNCHANGED tab
        /\ turn'[m].at \in {"say", "refused"}
        /\ \A n \in Messages \ {m} : turn'[n] = turn[n]
        /\ turn'[m].at \in Stages => turn'[m].thread \in Messages
    BY <1>7, Resolves DEF Stages
  <2>2. ASSUME NEW k \in Threads', thread'[k].log # << >>
        PROVE  /\ k \in Threads /\ thread'[k] = thread[k]
               /\ turn'[m].at \in Stages /\ turn'[m].thread = k => turn[m].thread = k
    BY <1>7, <2>2, Resolves DEF Threads, Stages
  <2>3. ASSUME NEW k \in Threads', thread'[k].log # << >>, Visited(k)'
        PROVE  Visited(k)
    <3>1. k \in Messages /\ turn[m].at \in Stages /\ active' = active
      BY <2>1 DEF Threads, Stages, tab
    <3> QED BY <1>6, <2>1, <2>2, <2>3, <3>1
  <2> QED BY <1>5, <2>1, <2>2, <2>3 DEF tab
<1>8. CASE SaveUserMessage(m, TRUE) \/ SaveAnswer(m, TRUE)
  BY <1>4, <1>8, SavedAsTyped
\* From here the turn has its thread.
<1>9. ASSUME turn[m].at \in {"title", "name"}, NEW stage \in {"name", "reply"}, Goto(m, stage), UNCHANGED tab,
             \A k \in Threads' : /\ k \in Threads /\ thread'[k].log = thread[k].log
                                 /\ thread'[k].title = None => thread[k].title = None
                                 /\ thread'[k].title = None /\ turn[m].thread = k => stage = "name"
      PROVE  OneTurn' /\ InTurnOrder' /\ LogsSound'
  <2>1. turn[m].at \in Stages \ {"thread"} /\ stage \in Stages
    BY <1>9 DEF Stages
  <2>2. /\ turn[m].thread \in Messages
        /\ turn'[m].at = stage /\ turn'[m].thread = turn[m].thread /\ turn'[m] # Over
        /\ \A n \in Messages \ {m} : turn'[n] = turn[n]
    BY <1>9, <2>1, GoesTo DEF LogsSound
  <2>3. \A k \in Threads' : Visited(k)' => Visited(k)
    <3>1. Threads' \subseteq Messages /\ active' = active
      BY <1>9 DEF Threads, tab
    <3> QED BY <1>6, <2>1, <2>2, <3>1
  <2> QED BY <1>5, <1>9, <2>2, <2>3 DEF tab
<1>10. CASE ReadTitle(m)
  <2> DEFINE next == IF Exists(m) /\ thread[turn[m].thread].title = None THEN "name" ELSE "reply"
  <2>1. turn[m].at = "title" /\ Goto(m, next) /\ UNCHANGED tab /\ thread' = thread
    BY <1>10 DEF ReadTitle
  <2>2. next \in {"name", "reply"}
    OBVIOUS
  <2>3. ASSUME NEW k \in Threads'
        PROVE  k \in Threads /\ (thread[k].title = None /\ turn[m].thread = k => next = "name")
    BY <2>1 DEF Threads, Exists
  <2> HIDE DEF next
  <2> QED BY <1>9, <2>1, <2>2, <2>3
<1>11. CASE NameThread(m)
  <2>1. turn[m].at = "name" /\ Goto(m, "reply") /\ UNCHANGED tab
    BY <1>11 DEF NameThread
  <2>2. PICK c \in Messages : c = turn[m].thread
    BY <2>1 DEF LogsSound, Stages
  <2>3. /\ \A k \in Messages \ {c} : thread'[k] = thread[k]
        /\ thread[c] = None => thread' = thread
        /\ thread[c] # None => thread'[c].log = thread[c].log /\ thread'[c].title # None
    BY <1>11, <2>2, NameIs
  <2>4. ASSUME NEW k \in Threads'
        PROVE  /\ k \in Threads /\ thread'[k].log = thread[k].log
               /\ thread'[k].title = None => thread[k].title = None
               /\ ~ (thread'[k].title = None /\ turn[m].thread = k)
    <3>1. k \in Threads
      BY <2>3 DEF Threads
    <3> QED BY <2>2, <2>3, <3>1 DEF Threads
  <2> QED BY <1>9, <2>1, <2>4
<1>12. CASE Reply(m) \/ Refused(m)
  <2>1. /\ turn[m].at \in {"reply", "refused"} /\ turn'[m] = Over
        /\ \A n \in Messages \ {m} : turn'[n] = turn[n]
        /\ drain' = [drain EXCEPT ![m] = "pass"] /\ UNCHANGED << typed, queue, isDraining, thread >>
        /\ active' = active \/ (turn[m].at = "reply" /\ active' = turn[m].thread)
    BY <1>2, <1>12, Answers
  <2>2. turn'[m].at \notin Stages \union {"answer", "thread", "say"}
    BY <1>1, <2>1 DEF Stages
  <2>3. \A k \in Threads' : k \in Messages /\ k \in Threads /\ thread'[k] = thread[k]
    BY <2>1 DEF Threads
  <2>4. \A k \in Threads' : Visited(k)' => Visited(k)
    BY <1>6, <2>1, <2>2, <2>3
  <2> QED BY <1>5, <2>1, <2>2, <2>3, <2>4
<1>13. CASE HeadersArrive(m)
  <2>1. /\ turn[m].at \in {"reply", "refused"} /\ drain' = [drain EXCEPT ![m] = "reading"]
        /\ UNCHANGED << typed, queue, isDraining, active, turn, thread >>
    BY <1>13 DEF HeadersArrive
  <2>2. turn'[m] = turn[m] /\ turn[m].at \notin {"answer", "thread", "say"}
    BY <2>1
  <2>3. "reply" \in Stages \ {"thread"} /\ (turn[m].at \in Stages => turn[m].at = "reply")
    BY <2>1 DEF Stages
  <2>4. turn[m].at \in Stages => turn[m].thread \in Messages
    BY <2>3 DEF LogsSound
  <2>5. \A k \in Threads' : k \in Threads /\ thread'[k] = thread[k] /\ (Visited(k)' => Visited(k))
    BY <2>1 DEF Threads, Visited
  <2>6. turn'[m].at # "say" /\ turn[m].at \notin {"title", "name"}
    BY <2>1, <2>2
  <2> QED BY <1>1, <1>5, <2>1, <2>2, <2>4, <2>5, <2>6
<1> QED BY <1>7, <1>8, <1>10, <1>11, <1>12, <1>13 DEF TurnStep

\* An answer the tab gives up on is awaited by it, so the tab has been upset.
LEMMA TimeoutUpsets ==
  ASSUME NEW m \in Messages, Timeout(m), Upset
  PROVE  upset'
<1>1. m \in InProgress
  BY DEF Timeout, Awaited, InProgress
<1> QED BY <1>1 DEF Upset

LEMMA AsTypedNext ==
  ASSUME ChatSound, AsTyped, [MCNext]_<<vars, histories>>
  PROVE  AsTyped'
<1> SUFFICES ASSUME ~ upset' PROVE OneTurn' /\ InTurnOrder' /\ LogsSound'
  BY DEF AsTyped
<1>1. CASE UNCHANGED <<vars, histories>>
  <2>1. /\ UNCHANGED <<account, typed, queue, isDraining, drain, active, turn, thread>>
        /\ UNCHANGED <<epoch, epochOf, upset>>
    BY <1>1 DEF vars, tab, histories
  <2>2. OneTurn /\ InTurnOrder /\ LogsSound
    BY <2>1 DEF AsTyped
  <2>3. OneTurn' /\ InTurnOrder'
    BY <2>1, <2>2 DEF OneTurn, InTurnOrder, InProgress, Threads, Earlier, Waiting
  <2>4. LogsSound'
    BY <2>1, <2>2 DEF LogsSound, LogSound, Visited, Threads
  <2> QED BY <2>3, <2>4
<1>2. CASE Smooth
  <2>1. /\ TypeOK /\ QueueSound /\ OneTurn /\ InTurnOrder /\ LogsSound /\ Note /\ UNCHANGED epoch
    BY <1>2 DEF AsTyped, ChatSound, Smooth
  <2> QED BY <1>2, <2>1, TypingAsTyped, DrainAsTyped, TurnAsTyped DEF Smooth
<1>3. CASE (\E m \in Messages : Timeout(m)) /\ Upset
  BY <1>3, TimeoutUpsets
<1>4. CASE Afresh \/ Rename \/ Quiet \/ Fails
  BY <1>4, UserAsTyped
<1> QED BY <1>1, <1>2, <1>3, <1>4 DEF MCNext

LEMMA AsTypedInit == MCInit => AsTyped
<1> SUFFICES ASSUME MCInit PROVE OneTurn /\ InTurnOrder /\ LogsSound
  BY DEF AsTyped
<1>1. /\ queue = << >> /\ Len(queue) = 0 /\ ~ isDraining /\ Over.at = "over"
      /\ drain = [m \in Messages |-> "none"] /\ turn = [m \in Messages |-> Over]
      /\ thread = [m \in Messages |-> None]
  BY DEF MCInit, Init, Over
<1>2. InProgress = {} /\ Threads = {}
  BY <1>1 DEF InProgress, Threads
<1>3. OneTurn
  BY <1>1, <1>2 DEF OneTurn
<1>4. InTurnOrder
  BY <1>1, <1>2 DEF InTurnOrder
<1>5. LogsSound
  BY <1>1, <1>2 DEF LogsSound, Stages
<1> QED BY <1>3, <1>4, <1>5

\* Once the turn of an entry is over, another entry follows it or it is an answer, and
\* no turn is left that would give its thread a title.
LEMMA ReadsAsTyped ==
  ASSUME TypeOK, AsTyped
  PROVE  ThreadsReadAsTypedAlone
<1> SUFFICES ASSUME ~ upset, NEW k \in Threads
             PROVE  LET entries == thread[k].log
                    IN /\ Dialogue(entries)
                       /\ \A i \in DOMAIN entries : turn[entries[i][1]] = Over =>
                            thread[k].title # None /\ (entries[i][2] = "ai" \/ i < Len(entries))
                       /\ \A i, j \in DOMAIN entries : epochOf[entries[i][1]] = epochOf[entries[j][1]]
  BY DEF AsTyped, OneTurn, ThreadsReadAsTypedAlone
<1>1. PICK entries : entries = thread[k].log
  OBVIOUS
<1>2. /\ Dialogue(entries)
      /\ entries # << >> /\ entries[Len(entries)][2] = "user" => turn[entries[Len(entries)][1]].at = "answer"
      /\ entries # << >> /\ thread[k].title = None =>
           \E m \in Messages : /\ turn[m].at \in {"answer", "title", "name"}
                               /\ \A i \in DOMAIN entries : entries[i][1] = m
      /\ \A i, j \in DOMAIN entries : epochOf[entries[i][1]] = epochOf[entries[j][1]]
  BY <1>1 DEF AsTyped, LogsSound, LogSound
<1>3. ASSUME NEW i \in DOMAIN entries, turn[entries[i][1]] = Over
      PROVE  thread[k].title # None /\ (entries[i][2] = "ai" \/ i < Len(entries))
  <2>1. /\ entries \in Seq(Messages \X {"user", "ai"}) /\ Len(entries) \in Nat /\ i \in 1 .. Len(entries)
        /\ entries # << >> /\ Over.at = "over" /\ entries[i] \in Messages \X {"user", "ai"}
    BY <1>1, <1>3, LogIs DEF Over
  <2>2. entries[i][2] \in {"user", "ai"}
    BY <2>1
  <2>3. i = Len(entries) => entries[i][2] # "user"
    BY <1>2, <1>3, <2>1
  <2>4. thread[k].title # None
    BY <1>2, <1>3, <2>1
  <2> QED BY <2>1, <2>2, <2>3, <2>4
<1> QED BY <1>1, <1>2, <1>3

\* Undisturbed, the tab has one turn in progress and the threads read as they were
\* typed: questions in order, each with its answer, all of one conversation, and with
\* a title once the turn is over (drainQueue sends the next message only when the
\* last is answered, and the server saves a turn's two messages one after the other).
THEOREM ThreadsReadAsTyped == MCSpec \/ CatchUpSpec => []ThreadsReadAsTypedAlone
<1>1. MCInit => ChatSound /\ AsTyped
  BY ChatSoundInit, AsTypedInit
<1>2. ChatSound /\ AsTyped /\ [MCNext]_<<vars, histories>> => ChatSound' /\ AsTyped'
  BY ChatSoundNext, AsTypedNext
<1>3. ChatSound /\ AsTyped => ThreadsReadAsTypedAlone
  BY ReadsAsTyped DEF ChatSound
<1> QED BY <1>1, <1>2, <1>3, TabAmongFour, PTL DEF MCSpec, CatchUpSpec, CatchUpVars

-----------------------------------------------------------------------------
(* Reminders *)

\* Only ids that were given are in the table or in a batch, so a batch is finite.
ReminderIds ==
  /\ IsFiniteSet(used) /\ fired \in [Rems -> Reminding!Days \union {None}]
  /\ \A r \in Rems : reminder[r] # None \/ fired[r] # None => r \in used

\* Every entry of a batch was due when it was read, and differs from the others; its
\* cadence is the row's, which nothing changes.
BatchSound(tick) ==
  /\ tick.due # << >>
  /\ \A i \in DOMAIN tick.due :
       /\ tick.due[i].id \in used /\ tick.due[i].next <= today
       /\ reminder[tick.due[i].id] # None => reminder[tick.due[i].id].cadence = tick.due[i].cadence
       /\ tick.at # "fetched" => tick.due[i].next <= tick.now
  /\ \A i, j \in DOMAIN tick.due : tick.due[i].id = tick.due[j].id => i = j

BatchesSound == \A f \in Worker : firing[f] # Reminding!Idle => BatchSound(firing[f])

\* A firing at this time would be a cadence after the last.
Spaced(r, cadence, next) == fired[r] # None => Reminding!advance(fired[r], cadence) <= next

\* The tick has fired the reminder, and not moved it yet.
UnderWay(tick, r) == tick.at = "advance" /\ tick.due[1].id = r

\* The tick may fire what is left of its batch, and its clock is that of the last firing.
TickSpaced(tick) ==
  /\ \A i \in DOMAIN tick.due :
       UnderWay(tick, tick.due[i].id) \/ Spaced(tick.due[i].id, tick.due[i].cadence, tick.due[i].next)
  /\ tick.at = "advance" => fired[tick.due[1].id] = tick.now

\* What ticks that run one at a time, and are not cut between two statements, keep.
FiringSpaced ==
  /\ \A f, g \in Worker : firing[f] # Reminding!Idle /\ firing[g] # Reminding!Idle => f = g
  /\ \A r \in Rems : reminder[r] # None /\ (\A f \in Worker : ~ UnderWay(firing[f], r)) =>
       Spaced(r, reminder[r].cadence, reminder[r].next)
  /\ \A f \in Worker : firing[f] # Reminding!Idle => TickSpaced(firing[f])

RemindersSound ==
  Reminding!TypeOK /\ ReminderIds /\ BatchesSound /\ (ragged \/ FiringSpaced)

FiringStates ==
  {Reminding!Idle} \union [at : {"fetched"}, due : Seq(Reminding!Read)]
    \union [at : {"insert", "advance"}, now : Reminding!Days, due : Seq(Reminding!Read)]

\* What a tick is in the middle of, by its stage.
LEMMA FiringKinds ==
  ASSUME Reminding!TypeOK, NEW f \in Worker
  PROVE  /\ firing[f] \in FiringStates
         /\ firing[f] = Reminding!Idle <=> firing[f].at = "idle"
         /\ firing[f] # Reminding!Idle =>
              /\ firing[f].at \in {"fetched", "insert", "advance"}
              /\ firing[f].due \in Seq(Reminding!Read)
              /\ \A i \in DOMAIN firing[f].due :
                   /\ firing[f].due[i] \in Reminding!Read
                   /\ firing[f].due[i].id \in Rems /\ firing[f].due[i].next \in Nat
                   /\ firing[f].due[i].cadence \in Reminding!Cadences
              /\ firing[f].at # "fetched" =>
                   /\ firing[f].now \in Reminding!Days
                   /\ firing[f] = [at |-> firing[f].at, now |-> firing[f].now, due |-> firing[f].due]
<1> DEFINE Kind == /\ firing[f] = Reminding!Idle <=> firing[f].at = "idle"
                   /\ firing[f] # Reminding!Idle =>
                        /\ firing[f].at \in {"fetched", "insert", "advance"}
                        /\ firing[f].due \in Seq(Reminding!Read)
                        /\ firing[f].at # "fetched" =>
                             /\ firing[f].now \in Reminding!Days
                             /\ firing[f] = [at |-> firing[f].at, now |-> firing[f].now, due |-> firing[f].due]
<1>1. firing[f] \in FiringStates
  BY DEF Reminding!TypeOK, FiringStates
<1>2. ASSUME firing[f] = Reminding!Idle PROVE Kind
  BY <1>2 DEF Reminding!Idle
<1>3. ASSUME firing[f] \in [at : {"fetched"}, due : Seq(Reminding!Read)] PROVE Kind
  BY <1>3 DEF Reminding!Idle
<1>4. ASSUME firing[f] \in [at : {"insert", "advance"}, now : Reminding!Days, due : Seq(Reminding!Read)]
      PROVE  Kind
  BY <1>4 DEF Reminding!Idle
<1>5. ASSUME NEW due \in Seq(Reminding!Read), NEW i \in DOMAIN due
      PROVE  /\ due[i] \in Reminding!Read /\ due[i].id \in Rems /\ due[i].next \in Nat
             /\ due[i].cadence \in Reminding!Cadences
  <2>1. due[i] \in Reminding!Read
    OBVIOUS
  <2> QED BY <2>1 DEF Reminding!Read
<1>6. Kind
  BY <1>1, <1>2, <1>3, <1>4 DEF FiringStates
<1> QED BY <1>1, <1>5, <1>6

\* What a tick becomes.
LEMMA FiringPut ==
  ASSUME Reminding!TypeOK, NEW f \in Worker, NEW q \in FiringStates, Reminding!Put(f, q)
  PROVE  /\ firing' \in [Worker -> FiringStates] /\ firing'[f] = q
         /\ \A g \in Worker \ {f} : firing'[g] = firing[g]
         /\ UNCHANGED << today, used >>
BY DEF Reminding!Put, Reminding!TypeOK, FiringStates

\* The batch a tick selects: what is due, each once, in some order.
LEMMA SelectedDue ==
  ASSUME Reminding!TypeOK, ReminderIds, Reminding!Due # {},
         NEW due \in Reminding!SetToSeqs(Reminding!Due)
  PROVE  /\ due \in Seq(Reminding!Read) /\ due # << >>
         /\ \A i \in DOMAIN due :
              /\ due[i].id \in Rems /\ Reminding!IsDue(due[i].id)
              /\ due[i].cadence = reminder[due[i].id].cadence
              /\ due[i].next = reminder[due[i].id].next
         /\ \A i, j \in DOMAIN due : due[i].id = due[j].id => i = j
<1> DEFINE ids == {x \in Rems : Reminding!IsDue(x)}
           entry == [r \in ids |-> [id |-> r, cadence |-> reminder[r].cadence, next |-> reminder[r].next]]
<1>1. ids \subseteq used /\ IsFiniteSet(ids)
  <2>1. ids \in SUBSET used
    BY DEF Reminding!IsDue, ReminderIds
  <2> QED BY <2>1, FS_Subset DEF ReminderIds
<1>2. Reminding!Due = {entry[r] : r \in ids}
  BY DEF Reminding!Due
<1>3. IsFiniteSet(Reminding!Due)
  <2> HIDE DEF ids
  <2>1. entry \in Surjection(ids, Reminding!Due)
    BY <1>2 DEF Surjection
  <2> HIDE DEF entry
  <2> QED BY <1>1, <2>1, FS_Surjection
<1>4. Cardinality(Reminding!Due) \in Nat /\ Cardinality(Reminding!Due) # 0
  BY <1>3, FS_CardinalityType, FS_EmptySet
<1>5. ASSUME NEW e \in Reminding!Due
      PROVE  /\ e \in Reminding!Read /\ e.id \in Rems /\ Reminding!IsDue(e.id)
             /\ e = [id |-> e.id, cadence |-> reminder[e.id].cadence, next |-> reminder[e.id].next]
             /\ e.cadence = reminder[e.id].cadence /\ e.next = reminder[e.id].next
  <2>1. PICK r \in Rems : Reminding!IsDue(r)
            /\ e = [id |-> r, cadence |-> reminder[r].cadence, next |-> reminder[r].next]
    BY DEF Reminding!Due
  <2>2. reminder[r] \in Reminding!Row
    BY <2>1 DEF Reminding!IsDue, Reminding!TypeOK
  <2>3. e.id = r /\ e \in Reminding!Read
    BY <2>1, <2>2 DEF Reminding!Row, Reminding!Read
  <2> QED BY <2>1, <2>3
<1>6. /\ due \in [1 .. Cardinality(Reminding!Due) -> Reminding!Due]
      /\ \A i, j \in 1 .. Cardinality(Reminding!Due) : i # j => due[i] # due[j]
  <2>1. Reminding!Cardinality(Reminding!Due) = Cardinality(Reminding!Due)
    BY DEF Reminding!Cardinality, Cardinality
  <2> QED BY <2>1, Zenon DEF Reminding!SetToSeqs
<1>7. due \in Seq(Reminding!Read) /\ due # << >> /\ DOMAIN due = 1 .. Cardinality(Reminding!Due)
  BY <1>4, <1>5, <1>6
<1>8. ASSUME NEW i \in DOMAIN due, NEW j \in DOMAIN due, due[i].id = due[j].id
      PROVE  i = j
  BY <1>5, <1>6, <1>7, <1>8
<1> QED BY <1>5, <1>6, <1>7, <1>8

LEMMA RemindersStart ==
  ASSUME Reminding!MCInit
  PROVE  RemindersSound
<1>1. Reminding!TypeOK
  BY CatchUpAssumption
     DEF Reminding!MCInit, Reminding!Init, Reminding!TypeOK, Reminding!Days, Reminding!RemindersAssumption
<1>2. ReminderIds
  BY FS_EmptySet DEF Reminding!MCInit, Reminding!Init, ReminderIds
<1>3. BatchesSound /\ FiringSpaced
  BY DEF Reminding!MCInit, Reminding!Init, BatchesSound, FiringSpaced, UnderWay, TickSpaced, Reminding!Idle, Spaced
<1> QED BY <1>1, <1>2, <1>3 DEF RemindersSound

LEMMA AdvanceRange ==
  ASSUME NEW n \in Nat, NEW c \in Reminding!Cadences
  PROVE  /\ Reminding!advance(n, c) \in Nat /\ n <= Reminding!advance(n, c)
         /\ Reminding!advance(n, c) <= n + Week
         /\ \A m \in Nat : m <= n => Reminding!advance(m, c) <= Reminding!advance(n, c)
BY CatchUpAssumption DEF Reminding!RemindersAssumption, Reminding!advance, Reminding!Cadences

\* The clock, and what users do.
LEMMA ClockKeeps ==
  ASSUME RemindersSound, Reminding!Tomorrow, UNCHANGED << fired, ragged >>
  PROVE  RemindersSound'
<1>1. /\ UNCHANGED << reminder, used, firing, fired, ragged >>
      /\ today' = today + 1 /\ today < MaxDay /\ today \in Nat
  BY DEF Reminding!Tomorrow, RemindersSound, Reminding!TypeOK, Reminding!Days
<1>2. Reminding!TypeOK'
  BY <1>1, CatchUpAssumption
     DEF RemindersSound, Reminding!TypeOK, Reminding!Days, Reminding!RemindersAssumption
<1>3. ReminderIds' /\ (FiringSpaced => FiringSpaced')
  BY <1>1 DEF RemindersSound, ReminderIds, FiringSpaced, UnderWay, TickSpaced, Spaced
<1>4. BatchesSound'
  <2> SUFFICES ASSUME NEW f \in Worker, firing[f] # Reminding!Idle PROVE BatchSound(firing[f])'
    BY <1>1 DEF BatchesSound
  <2>1. BatchSound(firing[f])
    BY DEF RemindersSound, BatchesSound
  <2>2. \A i \in DOMAIN firing[f].due : firing[f].due[i].next \in Nat
    BY FiringKinds DEF RemindersSound
  <2> QED BY <1>1, <2>1, <2>2 DEF BatchSound
<1> QED BY <1>1, <1>2, <1>3, <1>4 DEF RemindersSound

LEMMA CreateKeeps ==
  ASSUME RemindersSound, NEW r \in Rems, NEW c \in Reminding!Cadences,
         Reminding!create_reminder(r, c), UNCHANGED << fired, ragged >>
  PROVE  RemindersSound'
<1> DEFINE row == [cadence |-> c, next |-> Reminding!advance(today, c)]
<1>1. /\ UNCHANGED << today, firing, fired, ragged >>
      /\ r \notin used /\ used' = used \union {r}
      /\ reminder' = [reminder EXCEPT ![r] = row]
  BY DEF Reminding!create_reminder
<1>2. row \in Reminding!Row
  <2>1. today \in 0 .. MaxDay /\ MaxDay \in Nat /\ Week \in Nat
    BY CatchUpAssumption
       DEF RemindersSound, Reminding!TypeOK, Reminding!Days, Reminding!RemindersAssumption
  <2>2. Reminding!advance(today, c) \in 0 .. MaxDay + Week
    BY <2>1, AdvanceRange
  <2> QED BY <2>2 DEF Reminding!Row
<1>3. row.cadence = c /\ row.next = Reminding!advance(today, c)
  OBVIOUS
<1> HIDE DEF row
<1>4. reminder'[r] = row /\ \A s \in Rems \ {r} : reminder'[s] = reminder[s]
  BY <1>1 DEF RemindersSound, Reminding!TypeOK
<1>5. Reminding!TypeOK'
  BY <1>1, <1>2 DEF RemindersSound, Reminding!TypeOK
<1>6. ReminderIds'
  BY <1>1, <1>4, FS_AddElement DEF RemindersSound, ReminderIds
<1>7. BatchesSound'
  <2> SUFFICES ASSUME NEW f \in Worker, firing[f] # Reminding!Idle PROVE BatchSound(firing[f])'
    BY <1>1 DEF BatchesSound
  <2>1. BatchSound(firing[f])
    BY DEF RemindersSound, BatchesSound
  <2>2. \A i \in DOMAIN firing[f].due : firing[f].due[i].id \in Rems \ {r}
    BY <1>1, <2>1, FiringKinds DEF BatchSound, RemindersSound
  <2> QED BY <1>1, <1>4, <2>1, <2>2 DEF BatchSound
<1>8. ASSUME FiringSpaced PROVE FiringSpaced'
  <2>1. fired[r] = None
    BY <1>1 DEF RemindersSound, ReminderIds
  <2> QED BY <1>1, <1>4, <1>8, <2>1 DEF FiringSpaced, UnderWay, TickSpaced, Spaced
<1> QED BY <1>1, <1>5, <1>6, <1>7, <1>8 DEF RemindersSound

LEMMA RemovalKeeps ==
  ASSUME RemindersSound, NEW r \in Rems, Reminding!delete_reminder(r), UNCHANGED << fired, ragged >>
  PROVE  RemindersSound'
<1>1. /\ UNCHANGED << today, used, firing, fired, ragged >>
      /\ reminder' = [reminder EXCEPT ![r] = None]
  BY DEF Reminding!delete_reminder
<1>2. reminder'[r] = None /\ \A s \in Rems \ {r} : reminder'[s] = reminder[s]
  BY <1>1 DEF RemindersSound, Reminding!TypeOK
<1>3. Reminding!TypeOK'
  BY <1>1 DEF RemindersSound, Reminding!TypeOK
<1>4. ReminderIds'
  <2>1. reminder[r] # None
    BY DEF Reminding!delete_reminder
  <2> QED BY <1>1, <1>2, <2>1 DEF RemindersSound, ReminderIds
<1>5. BatchesSound'
  <2> SUFFICES ASSUME NEW f \in Worker, firing[f] # Reminding!Idle PROVE BatchSound(firing[f])'
    BY <1>1 DEF BatchesSound
  <2>1. BatchSound(firing[f])
    BY DEF RemindersSound, BatchesSound
  <2>2. \A i \in DOMAIN firing[f].due : firing[f].due[i].id \in Rems
    BY FiringKinds DEF RemindersSound
  <2> QED BY <1>1, <1>2, <2>1, <2>2 DEF BatchSound
<1>6. ASSUME FiringSpaced PROVE FiringSpaced'
  BY <1>1, <1>2, <1>6 DEF FiringSpaced, UnderWay, TickSpaced, Spaced
<1> QED BY <1>1, <1>3, <1>4, <1>5, <1>6 DEF RemindersSound

\* A tick's step keeps what its next stage is sound for.
LEMMA TickKeeps ==
  ASSUME RemindersSound, NEW f \in Worker, NEW q \in FiringStates, Reminding!Put(f, q),
         reminder' \in [Rems -> Reminding!Row \union {None}],
         \A r \in Rems : reminder'[r] # None => reminder[r] # None /\ reminder'[r].cadence = reminder[r].cadence,
         fired' \in [Rems -> Reminding!Days \union {None}],
         \A r \in Rems : fired'[r] # None => r \in used,
         q # Reminding!Idle => BatchSound(q)',
         ragged' \/ FiringSpaced'
  PROVE  RemindersSound'
<1>1. /\ firing' \in [Worker -> FiringStates] /\ firing'[f] = q
      /\ \A g \in Worker \ {f} : firing'[g] = firing[g]
      /\ UNCHANGED << today, used >>
  BY FiringPut DEF RemindersSound
<1>2. Reminding!TypeOK'
  BY <1>1 DEF RemindersSound, Reminding!TypeOK, FiringStates
<1>3. ReminderIds'
  BY <1>1 DEF RemindersSound, ReminderIds
<1>4. ASSUME NEW g \in Worker \ {f}, firing[g] # Reminding!Idle PROVE BatchSound(firing[g])'
  <2>1. BatchSound(firing[g]) /\ \A i \in DOMAIN firing[g].due : firing[g].due[i].id \in Rems
    BY <1>4, FiringKinds DEF RemindersSound, BatchesSound
  <2> QED BY <1>1, <2>1 DEF BatchSound
<1>5. BatchesSound'
  BY <1>1, <1>4 DEF BatchesSound, BatchSound
<1> QED BY <1>2, <1>3, <1>5 DEF RemindersSound

\* The same, of a tick that runs alone.
LEMMA AloneTickKeeps ==
  ASSUME RemindersSound, NEW f \in Worker, NEW q \in FiringStates, Reminding!Put(f, q),
         \A g \in Worker \ {f} : firing[g] = Reminding!Idle,
         q # Reminding!Idle => TickSpaced(q)',
         \A r \in Rems : reminder'[r] # None /\ ~ UnderWay(q, r) =>
            Spaced(r, reminder[r].cadence, reminder[r].next)'
  PROVE  FiringSpaced'
<1>1. /\ firing'[f] = q /\ \A g \in Worker \ {f} : firing'[g] = firing[g]
  BY FiringPut DEF RemindersSound
<1>2. \A g \in Worker : firing'[g] # Reminding!Idle => g = f
  BY <1>1
<1>3. \A r \in Rems : reminder'[r] # None /\ (\A g \in Worker : ~ UnderWay(firing[g], r))' =>
        Spaced(r, reminder[r].cadence, reminder[r].next)'
  BY <1>1 DEF UnderWay
<1>4. (\A g \in Worker : firing[g] # Reminding!Idle => TickSpaced(firing[g]))'
  BY <1>1, <1>2 DEF TickSpaced, UnderWay, Spaced
<1> QED BY <1>2, <1>3, <1>4 DEF FiringSpaced

\* While no tick is between two statements of an entry, nothing is under way.
LEMMA NoneUnderWay ==
  ASSUME Reminding!TypeOK, \A f \in Worker : firing[f].at # "advance", FiringSpaced
  PROVE  \A r \in Rems : reminder[r] # None => Spaced(r, reminder[r].cadence, reminder[r].next)
BY DEF FiringSpaced, UnderWay

LEMMA FetchDueKeeps ==
  ASSUME RemindersSound, NEW f \in Worker, Reminding!FetchDue(f),
         ragged' = (ragged \/ \E g \in Worker : Reminding!Busy(g)), UNCHANGED fired
  PROVE  RemindersSound'
<1>1. PICK due \in Reminding!SetToSeqs(Reminding!Due) :
        Reminding!Put(f, [at |-> "fetched", due |-> due])
  BY DEF Reminding!FetchDue
<1>2. /\ due \in Seq(Reminding!Read) /\ due # << >>
      /\ \A i \in DOMAIN due :
           /\ due[i].id \in Rems /\ Reminding!IsDue(due[i].id)
           /\ due[i].cadence = reminder[due[i].id].cadence
           /\ due[i].next = reminder[due[i].id].next
      /\ \A i, j \in DOMAIN due : due[i].id = due[j].id => i = j
  BY SelectedDue DEF RemindersSound, Reminding!FetchDue
<1>3. PICK q : q = [at |-> "fetched", due |-> due]
  OBVIOUS
<1>4. q.at = "fetched" /\ q.due = due /\ q \in FiringStates
  BY <1>2, <1>3 DEF FiringStates
<1>5. Reminding!Put(f, q) /\ UNCHANGED << reminder, today, used, fired >>
  BY <1>1, <1>3 DEF Reminding!FetchDue, Reminding!Put
<1>6. BatchSound(q)'
  BY <1>2, <1>4, <1>5 DEF BatchSound, RemindersSound, ReminderIds, Reminding!IsDue
<1>7. ASSUME ~ ragged' PROVE FiringSpaced'
  <2>1. FiringSpaced /\ \A g \in Worker : firing[g] = Reminding!Idle
    BY <1>7 DEF Reminding!Busy, RemindersSound
  <2>2. \A r \in Rems : reminder[r] # None => Spaced(r, reminder[r].cadence, reminder[r].next)
    BY <2>1, NoneUnderWay DEF RemindersSound, Reminding!Idle
  <2>3. TickSpaced(q)'
    BY <1>2, <1>4, <1>5, <2>2 DEF TickSpaced, Spaced, Reminding!IsDue
  <2> QED BY <1>4, <1>5, <2>1, <2>2, <2>3, AloneTickKeeps DEF Spaced
<1> QED BY <1>4, <1>5, <1>6, <1>7, TickKeeps DEF RemindersSound, Reminding!TypeOK, ReminderIds

LEMMA ReadClockKeeps ==
  ASSUME RemindersSound, NEW f \in Worker, Reminding!ReadClock(f), UNCHANGED << fired, ragged >>
  PROVE  RemindersSound'
<1>1. /\ firing[f] # Reminding!Idle /\ firing[f].at = "fetched"
      /\ firing[f].due \in Seq(Reminding!Read) /\ BatchSound(firing[f])
  BY FiringKinds DEF Reminding!ReadClock, RemindersSound, BatchesSound, Reminding!Idle
<1>2. PICK q : q = [at |-> "insert", now |-> today, due |-> firing[f].due]
  OBVIOUS
<1>3. q.at = "insert" /\ q.now = today /\ q.due = firing[f].due /\ q \in FiringStates
  BY <1>1, <1>2 DEF FiringStates, RemindersSound, Reminding!TypeOK
<1>4. Reminding!Put(f, q) /\ UNCHANGED << reminder, today, used, fired >>
  BY <1>2 DEF Reminding!ReadClock, Reminding!Put
<1>5. BatchSound(q)'
  BY <1>1, <1>3, <1>4 DEF BatchSound
<1>6. ASSUME ~ ragged' PROVE FiringSpaced'
  <2>1. FiringSpaced /\ \A g \in Worker \ {f} : firing[g] = Reminding!Idle
    BY <1>1, <1>6 DEF RemindersSound, FiringSpaced
  <2>2. \A r \in Rems : reminder[r] # None => Spaced(r, reminder[r].cadence, reminder[r].next)
    BY <1>1, <2>1, NoneUnderWay DEF RemindersSound, Reminding!Idle
  <2>3. TickSpaced(q)'
    BY <1>1, <1>3, <1>4, <2>1 DEF FiringSpaced, TickSpaced, UnderWay, Spaced
  <2> QED BY <1>3, <1>4, <2>1, <2>2, <2>3, AloneTickKeeps DEF Spaced
<1> QED BY <1>3, <1>4, <1>5, <1>6, TickKeeps DEF RemindersSound, Reminding!TypeOK, ReminderIds

\* What a firing is of: the first of a batch, at a time no earlier than it was due.
LEMMA NotifyFinds ==
  ASSUME RemindersSound, NEW f \in Worker, firing[f] # Reminding!Idle, firing[f].at # "fetched"
  PROVE  /\ firing[f].due \in Seq(Reminding!Read) /\ BatchSound(firing[f]) /\ 1 \in DOMAIN firing[f].due
         /\ Reminding!Current(f) = firing[f].due[1]
         /\ firing[f].due[1].id \in Rems \intersect used
         /\ firing[f].due[1].next \in Nat /\ firing[f].due[1].cadence \in Reminding!Cadences
         /\ firing[f].now \in Reminding!Days /\ firing[f].due[1].next <= firing[f].now
<1>1. firing[f].due \in Seq(Reminding!Read) /\ firing[f].now \in Reminding!Days
      /\ BatchSound(firing[f])
  BY FiringKinds DEF RemindersSound, BatchesSound
<1>2. 1 \in DOMAIN firing[f].due
  BY <1>1 DEF BatchSound
<1>3. Reminding!Current(f) = firing[f].due[1]
  BY <1>1, <1>2 DEF Reminding!Current
<1>4. /\ firing[f].due[1].id \in Rems /\ firing[f].due[1].next \in Nat
      /\ firing[f].due[1].cadence \in Reminding!Cadences
  BY <1>2, FiringKinds DEF RemindersSound
<1>5. firing[f].due[1].id \in used /\ firing[f].due[1].next <= firing[f].now
  BY <1>1, <1>2 DEF BatchSound
<1> QED BY <1>1, <1>2, <1>3, <1>4, <1>5

LEMMA NotifyKeeps ==
  ASSUME RemindersSound, NEW f \in Worker, Reminding!Notify(f),
         fired' = [fired EXCEPT ![Reminding!Current(f).id] = firing[f].now], UNCHANGED ragged
  PROVE  RemindersSound'
<1> DEFINE due == firing[f].due
           now == firing[f].now
<1>1. /\ firing[f] # Reminding!Idle /\ firing[f].at = "insert"
      /\ firing[f] = [at |-> firing[f].at, now |-> now, due |-> due]
  BY FiringKinds DEF Reminding!Notify, RemindersSound, Reminding!Idle
<1>2. /\ due \in Seq(Reminding!Read) /\ BatchSound(firing[f]) /\ 1 \in DOMAIN due
      /\ due[1].id \in Rems \intersect used /\ now \in Reminding!Days
      /\ fired' = [fired EXCEPT ![due[1].id] = now]
  BY <1>1, NotifyFinds
<1>3. PICK q : q = [firing[f] EXCEPT !.at = "advance"]
  OBVIOUS
<1>4. q.at = "advance" /\ q.now = now /\ q.due = due /\ q \in FiringStates
  BY <1>1, <1>2, <1>3 DEF FiringStates
<1>5. Reminding!Put(f, q) /\ UNCHANGED << reminder, today, used >>
  BY <1>3 DEF Reminding!Notify, Reminding!Put
<1> HIDE DEF due, now
<1>6. fired' \in [Rems -> Reminding!Days \union {None}] /\ fired'[due[1].id] = now
      /\ \A r \in Rems \ {due[1].id} : fired'[r] = fired[r]
  BY <1>2 DEF RemindersSound, ReminderIds
<1>7. \A r \in Rems : fired'[r] # None => r \in used
  BY <1>2, <1>6 DEF RemindersSound, ReminderIds
<1>8. BatchSound(q)'
  BY <1>1, <1>2, <1>4, <1>5 DEF BatchSound, due, now
<1>9. ASSUME ~ ragged' PROVE FiringSpaced'
  <2>1. FiringSpaced /\ \A g \in Worker \ {f} : firing[g] = Reminding!Idle
    BY <1>1, <1>9 DEF RemindersSound, FiringSpaced
  <2>2. \A r \in Rems : reminder[r] # None => Spaced(r, reminder[r].cadence, reminder[r].next)
    BY <1>1, <2>1, NoneUnderWay DEF RemindersSound, Reminding!Idle
  <2>3. TickSpaced(firing[f])
    BY <1>1, <2>1 DEF FiringSpaced
  <2>4. \A i \in DOMAIN due : due[i].id \in Rems
    BY <1>1, FiringKinds DEF RemindersSound, due
  <2>5. TickSpaced(q)'
    <3>1. \A i \in DOMAIN due : due[i].id = due[1].id
             \/ (fired'[due[i].id] # None => Reminding!advance(fired'[due[i].id], due[i].cadence) <= due[i].next)
      BY <1>1, <1>6, <2>3, <2>4 DEF TickSpaced, UnderWay, Spaced, due
    <3> QED BY <1>4, <1>6, <3>1 DEF TickSpaced, UnderWay, Spaced
  <2>6. \A r \in Rems : reminder'[r] # None /\ ~ UnderWay(q, r) =>
            Spaced(r, reminder[r].cadence, reminder[r].next)'
    BY <1>4, <1>5, <1>6, <2>2 DEF Spaced, UnderWay
  <2> QED BY <1>4, <1>5, <2>1, <2>5, <2>6, AloneTickKeeps
<1> QED BY <1>4, <1>5, <1>6, <1>7, <1>8, <1>9, TickKeeps DEF RemindersSound, Reminding!TypeOK

\* What is left of a batch once its first entry is done with.
LEMMA NextRowSound ==
  ASSUME RemindersSound, NEW f \in Worker, firing[f].at = "advance",
         NEW q, q = Reminding!NextRow(f)
  PROVE  /\ q \in FiringStates /\ q.at # "advance"
         /\ q # Reminding!Idle =>
              /\ q.at = "insert" /\ q.now = firing[f].now
              /\ q.due \in Seq(Reminding!Read) /\ q.due # << >>
              /\ \A i \in DOMAIN q.due : i + 1 \in DOMAIN firing[f].due /\ q.due[i] = firing[f].due[i + 1]
<1>1. firing[f] # Reminding!Idle /\ firing[f].now \in Reminding!Days
      /\ firing[f].due \in Seq(Reminding!Read) /\ 1 \in DOMAIN firing[f].due
  BY NotifyFinds DEF Reminding!Idle
<1>2. CASE Len(firing[f].due) = 1
  <2>1. q = Reminding!Idle
    BY <1>2 DEF Reminding!NextRow
  <2> QED BY <2>1 DEF FiringStates, Reminding!Idle
<1>3. CASE Len(firing[f].due) # 1
  <2>1. PICK due, rest : due = firing[f].due /\ rest = Tail(due)
    OBVIOUS
  <2>2. /\ rest \in Seq(Reminding!Read) /\ rest # << >>
        /\ \A i \in DOMAIN rest : i + 1 \in DOMAIN firing[f].due /\ rest[i] = firing[f].due[i + 1]
    <3>1. due \in Seq(Reminding!Read) /\ due # << >> /\ Len(due) \in Nat /\ Len(due) # 1
      BY <1>1, <1>3, <2>1
    <3>2. /\ rest \in Seq(Reminding!Read) /\ Len(rest) = Len(due) - 1
          /\ \A i \in 1 .. Len(rest) : rest[i] = due[i + 1]
      BY <2>1, <3>1, HeadTailProperties
    <3>3. Len(due) # 0 /\ DOMAIN rest = 1 .. Len(due) - 1 /\ DOMAIN due = 1 .. Len(due)
      BY <3>1, <3>2
    <3>4. rest # << >>
      BY <3>1, <3>3
    <3>5. \A i \in DOMAIN rest : i + 1 \in DOMAIN due
      BY <3>1, <3>3
    <3> QED BY <2>1, <3>2, <3>3, <3>4, <3>5
  <2>3. q = [at |-> "insert", now |-> firing[f].now, due |-> rest]
    BY <1>3, <2>1 DEF Reminding!NextRow
  <2>4. q.at = "insert" /\ q.now = firing[f].now /\ q.due = rest /\ q \in FiringStates
    BY <1>1, <2>2, <2>3 DEF FiringStates
  <2> QED BY <2>2, <2>4
<1> QED BY <1>2, <1>3

\* The rest of a batch is as sound as the batch.
LEMMA RestSound ==
  ASSUME RemindersSound, NEW f \in Worker, firing[f].at = "advance",
         NEW q, q = Reminding!NextRow(f), q # Reminding!Idle, UNCHANGED << today, used >>,
         \A r \in Rems : reminder'[r] # None => reminder[r] # None /\ reminder'[r].cadence = reminder[r].cadence
  PROVE  BatchSound(q)'
<1>1. BatchSound(firing[f]) /\ firing[f].due \in Seq(Reminding!Read)
  BY NotifyFinds DEF Reminding!Idle
<1>2. /\ q.at = "insert" /\ q.now = firing[f].now /\ q.due # << >>
      /\ q.due \in Seq(Reminding!Read)
      /\ \A i \in DOMAIN q.due : i + 1 \in DOMAIN firing[f].due /\ q.due[i] = firing[f].due[i + 1]
  BY NextRowSound
<1>3. \A i \in DOMAIN firing[f].due : firing[f].due[i].id \in Rems
  BY FiringKinds DEF RemindersSound, Reminding!Idle
<1>4. ASSUME NEW i \in DOMAIN q.due
      PROVE  /\ q.due[i].id \in used' /\ q.due[i].next <= today'
             /\ reminder'[q.due[i].id] # None => reminder'[q.due[i].id].cadence = q.due[i].cadence
             /\ q.due[i].next <= q.now
  <2>1. PICK n, e : n \in DOMAIN firing[f].due /\ e = firing[f].due[n] /\ q.due[i] = e
    BY <1>2
  <2>2. e.id \in used /\ e.next <= today /\ e.next <= firing[f].now
        /\ (reminder[e.id] # None => reminder[e.id].cadence = e.cadence)
    BY <1>1, <2>1 DEF BatchSound
  <2>3. e.id \in Rems
    BY <1>3, <2>1
  <2> QED BY <1>2, <2>1, <2>2, <2>3
<1>5. ASSUME NEW i \in DOMAIN q.due, NEW j \in DOMAIN q.due, q.due[i].id = q.due[j].id
      PROVE  i = j
  <2>1. i + 1 = j + 1
    BY <1>1, <1>2, <1>5 DEF BatchSound
  <2>2. i \in Nat /\ j \in Nat
    BY <1>2
  <2> QED BY <2>1, <2>2
<1> QED BY <1>2, <1>4, <1>5 DEF BatchSound

LEMMA RestSpaced ==
  ASSUME RemindersSound, NEW f \in Worker, firing[f].at = "advance", TickSpaced(firing[f]),
         NEW q, q = Reminding!NextRow(f), q # Reminding!Idle, UNCHANGED fired
  PROVE  TickSpaced(q)'
<1>1. /\ BatchSound(firing[f]) /\ firing[f].due \in Seq(Reminding!Read) /\ 1 \in DOMAIN firing[f].due
  BY NotifyFinds DEF Reminding!Idle
<1>2. /\ q.at = "insert" /\ q.due \in Seq(Reminding!Read)
      /\ \A i \in DOMAIN q.due : i + 1 \in DOMAIN firing[f].due /\ q.due[i] = firing[f].due[i + 1]
  BY NextRowSound
<1>3. ASSUME NEW i \in DOMAIN q.due
      PROVE  Spaced(q.due[i].id, q.due[i].cadence, q.due[i].next)
  <2>1. i + 1 # 1
    BY <1>2
  <2>2. firing[f].due[i + 1].id # firing[f].due[1].id
    BY <1>1, <1>2, <2>1 DEF BatchSound
  <2> QED BY <1>2, <2>2 DEF TickSpaced, UnderWay
<1> QED BY <1>2, <1>3 DEF TickSpaced, Spaced

LEMMA AdvanceKeeps ==
  ASSUME RemindersSound, NEW f \in Worker, Reminding!Advance(f), UNCHANGED << fired, ragged >>
  PROVE  RemindersSound'
<1> DEFINE e == firing[f].due[1]
           now == firing[f].now
           next == Reminding!NextFire(now, e)
<1>1. PICK q : q = Reminding!NextRow(f)
  OBVIOUS
<1>2. firing[f].at = "advance" /\ firing[f] # Reminding!Idle
      /\ Reminding!Put(f, q) /\ UNCHANGED << today, used >>
  BY <1>1 DEF Reminding!Advance, Reminding!Idle, Reminding!Put
<1>3. /\ BatchSound(firing[f]) /\ 1 \in DOMAIN firing[f].due /\ e.id \in Rems /\ Reminding!Current(f) = e
      /\ e.next \in Nat /\ e.cadence \in Reminding!Cadences /\ now \in Reminding!Days
      /\ e.next <= now
  BY <1>2, NotifyFinds
<1>4. reminder' = IF reminder[e.id] = None THEN reminder ELSE [reminder EXCEPT ![e.id].next = next]
  BY <1>3 DEF Reminding!Advance
<1>5. now \in Nat /\ now <= MaxDay /\ MaxDay \in Nat /\ Week \in Nat
  BY <1>3, CatchUpAssumption DEF Reminding!Days, Reminding!RemindersAssumption
<1>6. next \in 0 .. MaxDay + Week /\ Reminding!advance(now, e.cadence) <= next
  <2>1. PICK n \in Nat : next = Reminding!advance(n, e.cadence) /\ now <= n /\ n <= MaxDay
    BY <1>3, <1>5 DEF Reminding!NextFire
  <2>2. Reminding!advance(n, e.cadence) \in 0 .. MaxDay + Week
    BY <1>3, <1>5, <2>1, AdvanceRange
  <2>3. Reminding!advance(now, e.cadence) <= Reminding!advance(n, e.cadence)
    BY <1>3, <1>5, <2>1, AdvanceRange
  <2> QED BY <2>1, <2>2, <2>3
<1>7. reminder[e.id] # None => reminder[e.id].cadence = e.cadence
  BY <1>3 DEF BatchSound
<1> HIDE DEF e, now, next
<1>8. reminder \in [Rems -> Reminding!Row \union {None}]
  BY DEF RemindersSound, Reminding!TypeOK
<1>9. /\ reminder' \in [Rems -> Reminding!Row \union {None}]
      /\ \A r \in Rems : reminder'[r] # None => reminder[r] # None /\ reminder'[r].cadence = reminder[r].cadence
      /\ \A r \in Rems \ {e.id} : reminder'[r] = reminder[r]
      /\ reminder'[e.id] # None => reminder'[e.id].next = next
  <2>1. CASE reminder[e.id] = None
    BY <1>4, <1>8, <2>1
  <2>2. CASE reminder[e.id] # None
    <3>1. PICK row : row = [reminder[e.id] EXCEPT !.next = next]
      OBVIOUS
    <3>2. reminder[e.id] \in Reminding!Row
      BY <1>3, <1>8, <2>2
    <3>3. row \in Reminding!Row /\ row.cadence = reminder[e.id].cadence /\ row.next = next
      BY <1>6, <3>1, <3>2 DEF Reminding!Row
    <3>4. reminder' = [reminder EXCEPT ![e.id] = row]
      BY <1>4, <2>2, <3>1
    <3> QED BY <1>3, <1>8, <2>2, <3>3, <3>4
  <2> QED BY <2>1, <2>2
<1>10. q \in FiringStates /\ q.at # "advance"
  BY <1>1, <1>2, NextRowSound
<1>11. q # Reminding!Idle => BatchSound(q)'
  BY <1>1, <1>2, <1>9, RestSound
<1>12. ASSUME ~ ragged' PROVE FiringSpaced'
  <2>1. FiringSpaced /\ (\A g \in Worker \ {f} : firing[g] = Reminding!Idle) /\ TickSpaced(firing[f])
    BY <1>2, <1>12 DEF RemindersSound, FiringSpaced
  <2>2. q # Reminding!Idle => TickSpaced(q)'
    BY <1>1, <1>2, <2>1, RestSpaced
  <2>3. fired[e.id] = now
    BY <1>2, <2>1 DEF TickSpaced, e, now
  <2>4. ASSUME NEW r \in Rems, reminder'[r] # None
        PROVE  Spaced(r, reminder[r].cadence, reminder[r].next)'
    <3>1. CASE r = e.id
      BY <1>6, <1>7, <1>9, <2>3, <2>4, <3>1 DEF Spaced
    <3>2. CASE r # e.id
      <4>1. \A g \in Worker : ~ UnderWay(firing[g], r)
        BY <2>1, <3>2 DEF UnderWay, Reminding!Idle, e
      <4> QED BY <1>9, <2>1, <2>4, <3>2, <4>1 DEF FiringSpaced, Spaced
    <3> QED BY <3>1, <3>2
  <2> QED BY <1>2, <1>10, <2>1, <2>2, <2>4, AloneTickKeeps
<1> QED BY <1>2, <1>9, <1>10, <1>11, <1>12, TickKeeps DEF RemindersSound, ReminderIds

LEMMA FiringEndsKeeps ==
  ASSUME RemindersSound, NEW f \in Worker, Reminding!AdvanceFails(f) \/ Reminding!FiringStops(f),
         ragged' = (ragged \/ firing[f].at = "advance"), UNCHANGED fired
  PROVE  RemindersSound'
<1>1. PICK q : Reminding!Put(f, q) /\ (q = Reminding!Idle \/ (firing[f].at = "advance" /\ q = Reminding!NextRow(f)))
  BY DEF Reminding!AdvanceFails, Reminding!FiringStops
<1>2. firing[f] # Reminding!Idle /\ UNCHANGED << reminder, today, used >>
  BY DEF Reminding!AdvanceFails, Reminding!FiringStops, Reminding!Put, Reminding!Idle
<1>3. q \in FiringStates
  BY <1>1, NextRowSound DEF FiringStates
<1>4. q # Reminding!Idle => BatchSound(q)'
  BY <1>1, <1>2, RestSound
<1>5. ASSUME ~ ragged' PROVE FiringSpaced'
  <2>1. FiringSpaced /\ (\A g \in Worker \ {f} : firing[g] = Reminding!Idle)
        /\ firing[f].at # "advance" /\ q = Reminding!Idle
    BY <1>1, <1>2, <1>5 DEF RemindersSound, FiringSpaced
  <2>2. \A r \in Rems : reminder[r] # None => Spaced(r, reminder[r].cadence, reminder[r].next)
    BY <2>1, NoneUnderWay DEF RemindersSound, Reminding!Idle
  <2> QED BY <1>1, <1>2, <1>3, <2>1, <2>2, AloneTickKeeps DEF Spaced
<1> QED BY <1>1, <1>2, <1>3, <1>4, <1>5, TickKeeps DEF RemindersSound, Reminding!TypeOK, ReminderIds

LEMMA RemindersKept ==
  ASSUME RemindersSound, Reminding!MCNext
  PROVE  RemindersSound'
BY ClockKeeps, CreateKeeps, RemovalKeeps, FetchDueKeeps, ReadClockKeeps, NotifyKeeps, AdvanceKeeps,
   FiringEndsKeeps
   DEF Reminding!MCNext

\* A reminder that fires has not fired for its cadence.
LEMMA FiringIsSpaced ==
  ASSUME RemindersSound, ~ ragged, NEW f \in Worker, Reminding!Notify(f),
         fired[Reminding!Current(f).id] # None
  PROVE  firing[f].now >= Reminding!advance(fired[Reminding!Current(f).id], Reminding!Current(f).cadence)
<1> DEFINE e == firing[f].due[1]
<1>1. firing[f].at = "insert" /\ firing[f] # Reminding!Idle
  BY DEF Reminding!Notify, Reminding!Idle
<1>2. /\ 1 \in DOMAIN firing[f].due /\ Reminding!Current(f) = e
      /\ e.id \in Rems /\ e.next \in Nat /\ e.cadence \in Reminding!Cadences
      /\ firing[f].now \in Nat /\ e.next <= firing[f].now
  BY <1>1, NotifyFinds DEF Reminding!Days
<1>3. Spaced(e.id, e.cadence, e.next)
  BY <1>1, <1>2 DEF RemindersSound, FiringSpaced, TickSpaced, UnderWay
<1>4. fired[e.id] \in Nat
  BY <1>2 DEF RemindersSound, ReminderIds, Reminding!Days
<1>5. Reminding!advance(fired[e.id], e.cadence) \in Nat
  BY <1>2, <1>4, AdvanceRange
<1> QED BY <1>2, <1>3, <1>5 DEF Spaced

-----------------------------------------------------------------------------
(* The purges *)

\* Only ids that were given are in the table.
FeedIds == IsFiniteSet(given) /\ \A r \in Rows : feed[r] # None => r \in given

\* A purge that still owes something runs alone; what it owes is gone or still expired;
\* and its batch, of rows that are all there, is full unless it holds all that it owes.
OwedSound ==
  \A p \in Worker : owed[p] # {} =>
    /\ purge[p] # Purging!Idle /\ \A q \in Worker \ {p} : purge[q] = Purging!Idle
    /\ owed[p] \subseteq Rows \intersect given
    /\ \A r \in owed[p] : feed[r] = None \/ Purging!Expired(r)
    /\ purge[p].at = "delete" =>
         /\ \A r \in purge[p].batch : feed[r] # None
         /\ BatchSize <= Cardinality(purge[p].batch)
              \/ \A r \in owed[p] : feed[r] # None => r \in purge[p].batch

PurgesSound ==
  Purging!TypeOK /\ owed \in [Worker -> SUBSET Rows] /\ FeedIds /\ OwedSound

PurgeStates == {Purging!Idle, Purging!Scanning} \union [at : {"delete"}, batch : SUBSET Rows]
FeedRows == [created : 0 .. LastDay, is_read : BOOLEAN]

LEMMA PurgeKinds ==
  ASSUME NEW q \in PurgeStates
  PROVE  /\ q = Purging!Idle => q.at = "idle"
         /\ q = Purging!Scanning => q.at = "scan"
         /\ q.at = "delete" => q # Purging!Idle /\ q # Purging!Scanning /\ q.batch \in SUBSET Rows
         /\ q.at \in {"idle", "scan", "delete"}
BY DEF PurgeStates, Purging!Idle, Purging!Scanning

\* What a change of the rows has to keep of a debt.
LEMMA DebtKept ==
  ASSUME PurgesSound, UNCHANGED purge,
         day' \in 0 .. LastDay, feed' \in [Rows -> {None} \union FeedRows],
         IsFiniteSet(given'), given \subseteq given', given' \subseteq Rows,
         \A r \in Rows : feed'[r] # None => r \in given',
         owed' \in [Worker -> SUBSET Rows],
         \A p \in Worker : owed'[p] \subseteq owed[p],
         \A p \in Worker, r \in Rows : r \in owed'[p] =>
            /\ feed[r] = None => feed'[r] = None
            /\ Purging!Expired(r) => Purging!Expired(r)',
         \A p \in Worker, r \in Rows : owed'[p] # {} /\ feed[r] # None => feed'[r] # None
  PROVE  PurgesSound'
<1>1. Purging!TypeOK'
  BY DEF PurgesSound, Purging!TypeOK, FeedRows
<1>2. FeedIds'
  BY DEF FeedIds
<1>3. ASSUME NEW p \in Worker, owed'[p] # {}
      PROVE  /\ (purge[p] # Purging!Idle /\ \A q \in Worker \ {p} : purge[q] = Purging!Idle)'
             /\ (owed[p] \subseteq Rows \intersect given)'
             /\ (\A r \in owed[p] : feed[r] = None \/ Purging!Expired(r))'
             /\ (purge[p].at = "delete" =>
                  /\ \A r \in purge[p].batch : feed[r] # None
                  /\ BatchSize <= Cardinality(purge[p].batch)
                       \/ \A r \in owed[p] : feed[r] # None => r \in purge[p].batch)'
  <2>1. owed[p] # {} /\ owed'[p] \subseteq owed[p]
    BY <1>3
  <2>2. /\ purge[p] # Purging!Idle /\ \A q \in Worker \ {p} : purge[q] = Purging!Idle
        /\ owed[p] \subseteq Rows \intersect given
        /\ \A r \in owed[p] : feed[r] = None \/ Purging!Expired(r)
    BY <2>1 DEF PurgesSound, OwedSound
  <2>3. \A r \in owed'[p] : feed'[r] = None \/ Purging!Expired(r)'
    BY <2>1, <2>2
  <2>4. ASSUME purge[p].at = "delete"
        PROVE  /\ \A r \in purge[p].batch : feed'[r] # None
               /\ BatchSize <= Cardinality(purge[p].batch)
                    \/ \A r \in owed'[p] : feed'[r] # None => r \in purge[p].batch
    <3>1. /\ \A r \in purge[p].batch : feed[r] # None
          /\ BatchSize <= Cardinality(purge[p].batch)
               \/ \A r \in owed[p] : feed[r] # None => r \in purge[p].batch
      BY <2>1, <2>4 DEF PurgesSound, OwedSound
    <3>2. purge[p].batch \subseteq Rows
      BY <2>4, PurgeKinds DEF PurgesSound, Purging!TypeOK, PurgeStates
    <3> QED BY <1>3, <2>1, <2>2, <3>1, <3>2
  <2> QED BY <2>1, <2>2, <2>3, <2>4
<1> QED BY <1>1, <1>2, <1>3 DEF PurgesSound, OwedSound

LEMMA PurgesStart ==
  ASSUME Purging!MCInit
  PROVE  PurgesSound
<1>1. Purging!TypeOK
  BY CatchUpAssumption DEF Purging!MCInit, Purging!Init, Purging!TypeOK, Purging!RetentionAssumption
<1>2. FeedIds
  BY FS_EmptySet DEF Purging!MCInit, Purging!Init, FeedIds
<1> QED BY <1>1, <1>2 DEF PurgesSound, OwedSound, Purging!MCInit


\* What is true of the rows, by the names the lemmas use.
LEMMA FeedIs ==
  ASSUME PurgesSound
  PROVE  /\ day \in 0 .. LastDay /\ day \in Nat /\ LastDay \in Nat /\ BatchSize \in Nat
         /\ BatchSize # 0 /\ ReadDays \in Nat /\ UnreadDays \in Nat
         /\ feed \in [Rows -> {None} \union FeedRows] /\ None \notin FeedRows
         /\ given \subseteq Rows /\ IsFiniteSet(given) /\ \A r \in Rows : feed[r] # None => r \in given
         /\ purge \in [Worker -> PurgeStates] /\ owed \in [Worker -> SUBSET Rows]
BY CatchUpAssumption
   DEF PurgesSound, Purging!TypeOK, FeedIds, FeedRows, PurgeStates, Purging!RetentionAssumption

LEMMA DayAndInsertKeep ==
  ASSUME PurgesSound, Purging!NextDay \/ \E r \in Rows, read \in BOOLEAN : Purging!Insert(r, read),
         UNCHANGED owed
  PROVE  PurgesSound'
<1>1. CASE Purging!NextDay
  <2>1. UNCHANGED << feed, given, purge, owed >> /\ day' \in 0 .. LastDay /\ day' = day + 1
    BY <1>1, FeedIs DEF Purging!NextDay
  <2>2. ASSUME NEW r \in Rows, Purging!Expired(r)
        PROVE  Purging!Expired(r)'
    <3>1. PICK row : row = feed[r] /\ row \in FeedRows
      BY <2>2, FeedIs DEF Purging!Expired
    <3>2. row.created \in Nat
      BY <3>1, FeedIs DEF FeedRows
    <3>3. day + 1 - row.created > (IF row.is_read THEN ReadDays ELSE UnreadDays)
      BY <2>2, <3>1, <3>2, FeedIs DEF Purging!Expired
    <3>4. feed'[r] = row /\ row # None /\ day' = day + 1
      BY <2>1, <3>1, FeedIs
    <3>5. feed'[r] # None /\ day' - feed'[r].created > (IF feed'[r].is_read THEN ReadDays ELSE UnreadDays)
      BY <3>2, <3>3, <3>4, FeedIs
    <3> QED BY <3>5 DEF Purging!Expired
  <2> QED BY <1>1, <2>1, <2>2, FeedIs, DebtKept
<1>2. ASSUME NEW r \in Rows, NEW read \in BOOLEAN, Purging!Insert(r, read) PROVE PurgesSound'
  <2>1. PICK row : row = [created |-> day, is_read |-> read]
    OBVIOUS
  <2>2. /\ UNCHANGED << day, purge, owed >> /\ r \notin given /\ given' = given \union {r}
        /\ feed' = [feed EXCEPT ![r] = row] /\ row \in FeedRows
    BY <1>2, <2>1, FeedIs DEF Purging!Insert, FeedRows
  <2>3. IsFiniteSet(given')
    BY <2>2, FeedIs, FS_AddElement
  <2>4. feed' \in [Rows -> {None} \union FeedRows] /\ \A x \in Rows : feed'[x] # None => x \in given'
    BY <2>2, FeedIs
  <2>5. \A p \in Worker : r \notin owed[p]
    BY <2>2 DEF PurgesSound, OwedSound
  <2>6. \A x \in Rows \ {r} : feed'[x] = feed[x] /\ (Purging!Expired(x) => Purging!Expired(x)')
    BY <2>2, FeedIs DEF Purging!Expired
  <2>7. \A x \in Rows : feed[x] # None => feed'[x] # None
    BY <2>2, <2>6, FeedIs
  <2> QED BY <2>2, <2>3, <2>4, <2>5, <2>6, <2>7, FeedIs, DebtKept
<1> QED BY <1>1, <1>2

LEMMA MarksKeep ==
  ASSUME PurgesSound, Purging!mark_all_read \/ \E r \in Rows : Purging!mark_read(r),
         owed' = [p \in Worker |-> owed[p] \ Purging!Spared]
  PROVE  PurgesSound'
<1>1. PICK rows : Purging!MarkRead(rows)
  BY DEF Purging!mark_all_read, Purging!mark_read
<1>2. /\ UNCHANGED << day, given, purge >> /\ rows \subseteq Rows
      /\ \A r \in rows : feed[r] # None
      /\ feed' = [r \in Rows |-> IF r \in rows THEN [feed[r] EXCEPT !.is_read = TRUE] ELSE feed[r]]
  BY <1>1 DEF Purging!MarkRead, Purging!Unread
<1>3. ASSUME NEW r \in Rows
      PROVE  feed'[r] \in {None} \union FeedRows /\ (feed'[r] = None <=> feed[r] = None)
  <2>1. CASE r \in rows
    <3>1. PICK old, new : old = feed[r] /\ new = [old EXCEPT !.is_read = TRUE]
      OBVIOUS
    <3>2. old \in FeedRows /\ feed'[r] = new
      BY <1>2, <2>1, <3>1, FeedIs
    <3>3. new \in FeedRows
      BY <3>1, <3>2 DEF FeedRows
    <3> QED BY <1>2, <2>1, <3>2, <3>3, FeedIs
  <2>2. CASE r \notin rows
    BY <1>2, <2>2, FeedIs
  <2> QED BY <2>1, <2>2
<1>4. feed' \in [Rows -> {None} \union FeedRows]
  BY <1>2, <1>3
<1>5. owed' \in [Worker -> SUBSET Rows] /\ \A p \in Worker : owed'[p] = owed[p] \ Purging!Spared
  BY FeedIs
<1>6. \A p \in Worker, r \in Rows : r \in owed'[p] /\ Purging!Expired(r) => Purging!Expired(r)'
  BY <1>5 DEF Purging!Spared
<1> QED BY <1>2, <1>3, <1>4, <1>5, <1>6, FeedIs, DebtKept

LEMMA DismissalKeeps ==
  ASSUME PurgesSound, NEW x \in Rows, Purging!delete_notification(x), owed' = [p \in Worker |-> {}]
  PROVE  PurgesSound'
<1>1. UNCHANGED << day, given, purge >> /\ feed' = [feed EXCEPT ![x] = None]
  BY DEF Purging!delete_notification
<1>2. feed' \in [Rows -> {None} \union FeedRows] /\ \A r \in Rows : feed'[r] # None => r \in given'
  BY <1>1, FeedIs
<1> QED BY <1>1, <1>2, FeedIs, DebtKept

\* A purge that begins, fails or reads: the rows stay.
LEMMA PurgeTyped ==
  ASSUME PurgesSound, UNCHANGED << day, feed, given >>,
         NEW p \in Worker, NEW q \in PurgeStates, purge' = [purge EXCEPT ![p] = q],
         owed' \in [Worker -> SUBSET Rows]
  PROVE  /\ Purging!TypeOK' /\ FeedIds'
         /\ purge'[p] = q /\ \A x \in Worker \ {p} : purge'[x] = purge[x]
         /\ \A r \in Rows : Purging!Expired(r)' <=> Purging!Expired(r)
<1>1. purge' \in [Worker -> PurgeStates]
  BY FeedIs
<1>2. Purging!TypeOK'
  BY <1>1, FeedIs DEF Purging!TypeOK, PurgeStates, FeedRows
<1> QED BY <1>2, FeedIs DEF FeedIds, Purging!Expired

LEMMA BeginKeeps ==
  ASSUME PurgesSound, NEW p \in Worker, Purging!Begin(p),
         owed' = IF \A q \in Worker : purge[q] = Purging!Idle THEN [owed EXCEPT ![p] = Purging!ExpiredRows]
                 ELSE [q \in Worker |-> {}]
  PROVE  PurgesSound'
<1>1. /\ UNCHANGED << day, feed, given >> /\ purge[p] = Purging!Idle
      /\ purge' = [purge EXCEPT ![p] = Purging!Scanning] /\ Purging!Scanning \in PurgeStates
  BY DEF Purging!Begin, PurgeStates
<1>2. Purging!ExpiredRows \subseteq Rows \intersect given
  BY FeedIs DEF Purging!ExpiredRows, Purging!Expired
<1>3. owed' \in [Worker -> SUBSET Rows]
  BY <1>2, FeedIs
<1>4. /\ Purging!TypeOK' /\ FeedIds'
      /\ purge'[p] = Purging!Scanning /\ \A x \in Worker \ {p} : purge'[x] = purge[x]
      /\ \A r \in Rows : Purging!Expired(r)' <=> Purging!Expired(r)
  BY <1>1, <1>3, PurgeTyped
<1>5. OwedSound'
  <2>1. CASE ~ \A q \in Worker : purge[q] = Purging!Idle
    BY <2>1 DEF OwedSound
  <2>2. CASE \A q \in Worker : purge[q] = Purging!Idle
    <3>1. \A q \in Worker \ {p} : owed[q] = {} /\ owed'[q] = {}
      BY <2>2, FeedIs DEF PurgesSound, OwedSound
    <3>2. owed'[p] = Purging!ExpiredRows
      BY <2>2, FeedIs
    <3>3. \A r \in Purging!ExpiredRows : Purging!Expired(r)
      BY DEF Purging!ExpiredRows
    <3>4. Purging!Scanning # Purging!Idle /\ Purging!Scanning.at # "delete"
      BY DEF Purging!Scanning, Purging!Idle
    <3> QED BY <1>1, <1>2, <1>4, <2>2, <3>1, <3>2, <3>3, <3>4 DEF OwedSound
  <2> QED BY <2>1, <2>2
<1> QED BY <1>3, <1>4, <1>5 DEF PurgesSound

\* The instance's Cardinality and Min are the library's.
LEMMA SameCardinality == \A S : Purging!Cardinality(S) = Cardinality(S)
BY DEF Purging!Cardinality, Cardinality

LEMMA PurgeFailsKeeps ==
  ASSUME PurgesSound, NEW p \in Worker, Purging!PurgeFails(p), owed' = [owed EXCEPT ![p] = {}]
  PROVE  PurgesSound'
<1>1. /\ UNCHANGED << day, feed, given >> /\ purge[p] # Purging!Idle
      /\ purge' = [purge EXCEPT ![p] = Purging!Idle] /\ Purging!Idle \in PurgeStates
  BY DEF Purging!PurgeFails, PurgeStates
<1>2. owed' \in [Worker -> SUBSET Rows] /\ owed'[p] = {} /\ \A x \in Worker \ {p} : owed'[x] = owed[x]
  BY FeedIs
<1>3. /\ Purging!TypeOK' /\ FeedIds'
  BY <1>1, <1>2, PurgeTyped
<1>4. \A x \in Worker : owed'[x] = {}
  BY <1>1, <1>2 DEF PurgesSound, OwedSound
<1> QED BY <1>2, <1>3, <1>4 DEF PurgesSound, OwedSound

\* The subquery returns all that is expired, unless its batch is full.
LEMMA BatchIsFull ==
  ASSUME PurgesSound, NEW batch \in SUBSET Purging!ExpiredRows,
         Purging!Cardinality(batch) = Purging!Min({BatchSize, Purging!Cardinality(Purging!ExpiredRows)})
  PROVE  BatchSize <= Cardinality(batch) \/ batch = Purging!ExpiredRows
<1> DEFINE all == Purging!ExpiredRows
<1>1. all \subseteq given
  BY FeedIs DEF Purging!ExpiredRows, Purging!Expired
<1>2. IsFiniteSet(all) /\ Cardinality(all) \in Nat
  BY <1>1, FeedIs, FS_Subset, FS_CardinalityType
<1> HIDE DEF all
<1>3. Cardinality(batch) = Purging!Min({BatchSize, Cardinality(all)})
  BY SameCardinality DEF all
<1>4. PICK n : n = Cardinality(all)
  OBVIOUS
<1>5. Purging!Min({BatchSize, n}) \in {BatchSize, n}
  <2>1. \E x \in {BatchSize, n} : \A y \in {BatchSize, n} : x <= y
    BY <1>2, <1>4, FeedIs
  <2> QED BY <2>1 DEF Purging!Min
<1>6. Cardinality(batch) = BatchSize \/ Cardinality(batch) = Cardinality(all)
  BY <1>3, <1>4, <1>5
<1>7. Cardinality(batch) = Cardinality(all) => batch = all
  <2>1. batch \subseteq all
    BY DEF all
  <2> QED BY <1>2, <2>1, FS_Subset
<1> QED BY <1>6, <1>7, FeedIs DEF all

LEMMA ScanKeeps ==
  ASSUME PurgesSound, NEW p \in Worker, Purging!Scan(p), UNCHANGED owed
  PROVE  PurgesSound'
<1>1. PICK batch \in SUBSET Purging!ExpiredRows :
        /\ Purging!Cardinality(batch) = Purging!Min({BatchSize, Purging!Cardinality(Purging!ExpiredRows)})
        /\ purge' = [purge EXCEPT ![p] = [at |-> "delete", batch |-> batch]]
  BY DEF Purging!Scan
<1>2. UNCHANGED << day, feed, given >> /\ purge[p] = Purging!Scanning
  BY DEF Purging!Scan
<1>3. batch \subseteq Rows /\ \A r \in batch : feed[r] # None
  BY DEF Purging!ExpiredRows, Purging!Expired
<1>4. PICK q : q = [at |-> "delete", batch |-> batch]
  OBVIOUS
<1>5. q \in PurgeStates /\ q.at = "delete" /\ q.batch = batch
  BY <1>3, <1>4 DEF PurgeStates
<1>6. /\ Purging!TypeOK' /\ FeedIds'
      /\ purge'[p] = q /\ \A x \in Worker \ {p} : purge'[x] = purge[x]
      /\ \A r \in Rows : Purging!Expired(r)' <=> Purging!Expired(r)
  BY <1>1, <1>2, <1>4, <1>5, FeedIs, PurgeTyped
<1>7. BatchSize <= Cardinality(batch) \/ batch = Purging!ExpiredRows
  BY <1>1, BatchIsFull
<1>8. q # Purging!Idle /\ purge[p] # Purging!Idle
  BY <1>2, <1>5 DEF Purging!Idle, Purging!Scanning
<1>9. ASSUME NEW x \in Worker, owed[x] # {}
      PROVE  x = p
  BY <1>8, <1>9 DEF PurgesSound, OwedSound
<1>10. ASSUME owed[p] # {}
       PROVE  /\ \A y \in Worker \ {p} : purge[y] = Purging!Idle
              /\ owed[p] \subseteq Rows \intersect given
              /\ \A r \in owed[p] : feed[r] = None \/ Purging!Expired(r)
  BY <1>10 DEF PurgesSound, OwedSound
<1>11. owed[p] # {} /\ batch = Purging!ExpiredRows => \A r \in owed[p] : feed[r] # None => r \in batch
  BY <1>10 DEF Purging!ExpiredRows
<1>12. OwedSound'
  BY <1>2, <1>3, <1>5, <1>6, <1>7, <1>8, <1>9, <1>10, <1>11 DEF OwedSound
<1> QED BY <1>2, <1>6, <1>12, FeedIs DEF PurgesSound

LEMMA DeleteKeeps ==
  ASSUME PurgesSound, NEW p \in Worker, Purging!Delete(p),
         owed' = [owed EXCEPT ![p] = IF purge'[p] = Purging!Idle THEN {} ELSE @]
  PROVE  PurgesSound'
<1>1. PICK gone, q :
        /\ gone = {r \in purge[p].batch : feed[r] # None}
        /\ q = IF Purging!IsLast(Purging!Cardinality(gone)) THEN Purging!Idle ELSE Purging!Scanning
  OBVIOUS
<1>2. /\ UNCHANGED << day, given >> /\ purge[p].at = "delete"
      /\ feed' = [r \in Rows |-> IF r \in gone THEN None ELSE feed[r]]
      /\ purge' = [purge EXCEPT ![p] = q]
  BY <1>1 DEF Purging!Delete
<1>3. q \in PurgeStates /\ (q = Purging!Idle \/ (q = Purging!Scanning /\ q.at # "delete" /\ q # Purging!Idle))
  BY <1>1 DEF PurgeStates, Purging!Idle, Purging!Scanning
<1>4. purge' \in [Worker -> PurgeStates] /\ purge'[p] = q /\ \A x \in Worker \ {p} : purge'[x] = purge[x]
  BY <1>2, <1>3, FeedIs
<1>5. /\ owed' \in [Worker -> SUBSET Rows] /\ \A x \in Worker \ {p} : owed'[x] = owed[x]
      /\ owed'[p] = IF q = Purging!Idle THEN {} ELSE owed[p]
  BY <1>4, FeedIs
<1>6. /\ feed' \in [Rows -> {None} \union FeedRows]
      /\ \A r \in Rows : feed'[r] = None \/ feed'[r] = feed[r]
  BY <1>2, FeedIs
<1>7. \A r \in Rows : Purging!Expired(r) => feed'[r] = None \/ Purging!Expired(r)'
  BY <1>2, <1>6 DEF Purging!Expired
<1>8. Purging!TypeOK'
  BY <1>2, <1>4, <1>6, FeedIs DEF Purging!TypeOK, PurgeStates, FeedRows
<1>9. FeedIds'
  BY <1>2, <1>6, FeedIs DEF FeedIds
<1>10. purge[p] # Purging!Idle
  BY <1>2 DEF Purging!Idle
<1>11. \A x \in Worker \ {p} : owed'[x] = {}
  BY <1>5, <1>10 DEF PurgesSound, OwedSound
<1>12. ASSUME owed'[p] # {}
       PROVE  /\ q = Purging!Scanning /\ \A x \in Worker \ {p} : purge'[x] = Purging!Idle
              /\ owed'[p] \subseteq Rows \intersect given'
              /\ \A r \in owed'[p] : feed'[r] = None \/ Purging!Expired(r)'
  <2>1. owed'[p] = owed[p] /\ q = Purging!Scanning /\ owed[p] # {}
    BY <1>3, <1>5, <1>12
  <2>2. /\ \A x \in Worker \ {p} : purge[x] = Purging!Idle
        /\ owed[p] \subseteq Rows \intersect given
        /\ \A r \in owed[p] : feed[r] = None \/ Purging!Expired(r)
    BY <2>1 DEF PurgesSound, OwedSound
  <2>3. \A r \in owed[p] : feed'[r] = None \/ Purging!Expired(r)'
    BY <1>6, <1>7, <2>2
  <2> QED BY <1>2, <1>4, <2>1, <2>2, <2>3
<1>13. OwedSound'
  <2>1. ASSUME NEW x \in Worker, owed'[x] # {}
        PROVE  /\ x = p /\ purge'[x] # Purging!Idle /\ purge'[x].at # "delete"
               /\ \A y \in Worker \ {x} : purge'[y] = Purging!Idle
               /\ owed'[x] \subseteq Rows \intersect given'
               /\ \A r \in owed'[x] : feed'[r] = None \/ Purging!Expired(r)'
    <3>1. x = p
      BY <1>11, <2>1
    <3>2. q = Purging!Scanning
      BY <1>12, <2>1, <3>1
    <3>3. q.at # "delete" /\ q # Purging!Idle
      BY <3>2 DEF Purging!Scanning, Purging!Idle
    <3> QED BY <1>4, <1>12, <2>1, <3>1, <3>2, <3>3
  <2> QED BY <2>1 DEF OwedSound
<1> QED BY <1>5, <1>8, <1>9, <1>13 DEF PurgesSound

LEMMA PurgesKept ==
  ASSUME PurgesSound, Purging!MCNext
  PROVE  PurgesSound'
BY DayAndInsertKeep, MarksKeep, DismissalKeeps, BeginKeeps, ScanKeeps, DeleteKeeps, PurgeFailsKeeps
   DEF Purging!MCNext

\* The last statement of a purge that ran alone leaves nothing of its debt.
LEMMA LastDeleteDrains ==
  ASSUME PurgesSound, NEW p \in Worker, Purging!Delete(p), purge'[p] = Purging!Idle, NEW r \in owed[p]
  PROVE  feed'[r] = None
<1>1. PICK gone : gone = {x \in purge[p].batch : feed[x] # None}
  OBVIOUS
<1>2. /\ purge[p].at = "delete"
      /\ feed' = [x \in Rows |-> IF x \in gone THEN None ELSE feed[x]]
      /\ purge' = [purge EXCEPT ![p] = IF Purging!IsLast(Purging!Cardinality(gone)) THEN Purging!Idle
                                       ELSE Purging!Scanning]
  BY <1>1 DEF Purging!Delete
<1>3. /\ r \in Rows
      /\ \A x \in purge[p].batch : feed[x] # None
      /\ BatchSize <= Cardinality(purge[p].batch)
           \/ \A x \in owed[p] : feed[x] # None => x \in purge[p].batch
  BY <1>2 DEF PurgesSound, OwedSound
<1>4. gone = purge[p].batch
  BY <1>1, <1>3
<1>5. Purging!Scanning # Purging!Idle
  BY DEF Purging!Scanning, Purging!Idle
<1>6. Cardinality(gone) < BatchSize
  BY <1>2, <1>5, FeedIs, SameCardinality DEF Purging!IsLast
<1>7. IsFiniteSet(gone) /\ Cardinality(gone) \in Nat
  <2>1. gone \subseteq Rows
    BY <1>2, <1>4, FeedIs, PurgeKinds
  <2>2. gone \subseteq given
    BY <1>3, <1>4, <2>1, FeedIs
  <2> QED BY <2>2, FeedIs, FS_Subset, FS_CardinalityType
<1>8. feed[r] # None => r \in gone
  BY <1>3, <1>4, <1>6, <1>7, FeedIs
<1> QED BY <1>2, <1>3, <1>8

-----------------------------------------------------------------------------
(* The sync *)

\* A retraction carries no look, and a sync holds changes that the bank made.
BankTyped ==
  /\ Bank!TypeOK
  /\ \A i \in DOMAIN log : log[i].look = None => log[i].kind = "removed"
  /\ \A w \in Syncers :
       /\ sync[w].cursor <= Len(log) /\ sync[w].todo \subseteq {log[i] : i \in DOMAIN log}
       /\ sync[w].next # None => sync[w].next <= Len(log)

LEMMA BankIs ==
  ASSUME BankTyped
  PROVE  /\ log \in Seq(Bank!Change) /\ DOMAIN log = 1 .. Len(log) /\ Len(log) \in Nat /\ Len(log) <= MaxLog
         /\ saved \in 0 .. Len(log) /\ MaxLog \in Nat
         /\ sync \in [Syncers -> Bank!Sync] /\ ledger \in [Ptx -> Bank!Row \union {None}]
         /\ None \notin Look /\ None \notin Nat
         /\ Bank!Idle \in Bank!Sync /\ Bank!Idle.cursor = 0 /\ Bank!Idle.todo = {} /\ Bank!Idle.next = None
BY CatchUpAssumption
   DEF BankTyped, Bank!TypeOK, Bank!BoundAssumption, Bank!NoneAssumption, Bank!Idle, Bank!Sync

LEMMA BankStarts ==
  ASSUME Bank!Init
  PROVE  BankTyped
<1>1. /\ log = << >> /\ log \in Seq(Bank!Change) /\ Len(log) = 0 /\ DOMAIN log = {} /\ saved = 0
      /\ MaxLog \in Nat
  BY CatchUpAssumption DEF Bank!Init, Bank!BoundAssumption
<1>2. /\ Bank!Idle \in Bank!Sync /\ Bank!Idle.cursor = 0 /\ Bank!Idle.todo = {} /\ Bank!Idle.next = None
  BY CatchUpAssumption DEF Bank!Idle, Bank!Sync, Bank!BoundAssumption
<1>3. sync \in [Syncers -> Bank!Sync] /\ \A w \in Syncers : sync[w] = Bank!Idle
  BY <1>2 DEF Bank!Init
<1>4. Bank!TypeOK
  <2>1. Len(log) <= MaxLog /\ saved \in 0 .. Len(log)
    BY <1>1
  <2>2. ledger \in [Ptx -> Bank!Row \union {None}] /\ closed \in BOOLEAN /\ touched \subseteq Ptx
        /\ status \in {"active", "consent_expired", "disconnected"}
    BY DEF Bank!Init
  <2> QED BY <1>1, <1>3, <2>1, <2>2 DEF Bank!TypeOK
<1> QED BY <1>1, <1>2, <1>3, <1>4 DEF BankTyped

LEMMA BankMoves ==
  ASSUME BankTyped, Bank!Bank
  PROVE  BankTyped'
<1>1. PICK kind \in {"added", "modified", "removed"}, p \in Ptx, look \in Look \union {None} :
        Bank!BankChange(kind, p, look) /\ (look = None => kind = "removed")
  BY BankIs DEF Bank!Bank, Bank!BankAdds, Bank!BankModifies, Bank!BankRetracts
<1>2. PICK e : e = [kind |-> kind, tx |-> p, look |-> look]
  OBVIOUS
<1>3. e \in Bank!Change /\ (e.look = None => e.kind = "removed")
  BY <1>1, <1>2 DEF Bank!Change
<1>4. /\ log' = Append(log, e) /\ Len(log) < MaxLog
      /\ UNCHANGED << ledger, saved, status, closed, sync, touched >>
  BY <1>1, <1>2 DEF Bank!BankChange, Bank!accountVars
<1>5. /\ log' \in Seq(Bank!Change) /\ Len(log') = Len(log) + 1 /\ Len(log') <= MaxLog
      /\ DOMAIN log' = 1 .. Len(log) + 1 /\ log'[Len(log) + 1] = e
      /\ \A i \in DOMAIN log : log'[i] = log[i] /\ i \in DOMAIN log'
  BY <1>3, <1>4, BankIs
<1>6. Bank!TypeOK'
  BY <1>4, <1>5, BankIs DEF BankTyped, Bank!TypeOK
<1>7. \A i \in DOMAIN log' : log'[i].look = None => log'[i].kind = "removed"
  <2> TAKE i \in DOMAIN log'
  <2>1. CASE i \in DOMAIN log
    BY <1>5, <2>1 DEF BankTyped
  <2>2. CASE i = Len(log) + 1
    BY <1>3, <1>5, <2>2
  <2> QED BY <1>5, <2>1, <2>2, BankIs
<1>8. ASSUME NEW w \in Syncers
      PROVE  /\ sync[w].cursor <= Len(log') /\ sync[w].todo \subseteq {log'[i] : i \in DOMAIN log'}
             /\ sync[w].next # None => sync[w].next <= Len(log')
  <2>1. /\ sync[w].cursor <= Len(log) /\ sync[w].todo \subseteq {log[i] : i \in DOMAIN log}
        /\ sync[w].next # None => sync[w].next <= Len(log)
    BY DEF BankTyped
  <2>2. sync[w].cursor \in Nat /\ sync[w].next \in Nat \union {None}
    BY BankIs DEF Bank!Sync
  <2> QED BY <1>5, <2>1, <2>2, BankIs
<1> QED BY <1>4, <1>6, <1>7, <1>8 DEF BankTyped

\* A step of a sync that leaves the bank alone.
LEMMA SyncMoves ==
  ASSUME BankTyped, NEW w \in Syncers, NEW s \in Bank!Sync, Bank!Become(w, s),
         UNCHANGED << log, status, closed, touched >>,
         ledger' \in [Ptx -> Bank!Row \union {None}], saved' \in {saved, sync[w].cursor},
         s.cursor <= Len(log), s.todo \subseteq {log[i] : i \in DOMAIN log},
         s.next # None => s.next <= Len(log)
  PROVE  BankTyped'
<1>1. sync' \in [Syncers -> Bank!Sync] /\ sync'[w] = s /\ \A v \in Syncers \ {w} : sync'[v] = sync[v]
  BY BankIs DEF Bank!Become
<1>2. saved' \in 0 .. Len(log)
  <2>1. sync[w].cursor \in Nat /\ sync[w].cursor <= Len(log)
    BY BankIs DEF BankTyped, Bank!Sync
  <2> QED BY <2>1, BankIs
<1>3. Bank!TypeOK'
  BY <1>1, <1>2 DEF BankTyped, Bank!TypeOK
<1> QED BY <1>1, <1>3 DEF BankTyped

LEMMA BankKept ==
  ASSUME BankTyped, Bank!SyncNext
  PROVE  BankTyped'
<1>1. ASSUME NEW w \in Syncers
      PROVE  /\ sync[w] \in Bank!Sync /\ sync[w].cursor \in 0 .. Len(log)
             /\ sync[w].todo \subseteq {log[i] : i \in DOMAIN log}
             /\ sync[w].next # None => sync[w].next \in 0 .. Len(log)
  BY BankIs DEF BankTyped, Bank!Sync
<1>2. ASSUME NEW w \in Syncers, Bank!Start(w) PROVE BankTyped'
  <2>1. PICK s : s = [Bank!Idle EXCEPT !.at = "fetch", !.cursor = saved]
    OBVIOUS
  <2>2. s \in Bank!Sync /\ s.cursor = saved /\ s.todo = {} /\ s.next = None
    <3>1. saved \in 0 .. MaxLog
      BY BankIs
    <3> QED BY <2>1, <3>1, BankIs DEF Bank!Sync
  <2>3. Bank!Become(w, s) /\ UNCHANGED << log, ledger, saved, status, closed, touched >>
    BY <1>2, <2>1 DEF Bank!Start, Bank!bankVars, Bank!accountVars
  <2> QED BY <2>2, <2>3, BankIs, SyncMoves
<1>3. ASSUME NEW w \in Syncers, Bank!FetchFails(w) \/ Bank!PagesSpent(w) PROVE BankTyped'
  <2>1. PICK s : s = [sync[w] EXCEPT !.at = "save"]
    OBVIOUS
  <2>2. s \in Bank!Sync /\ s.cursor = sync[w].cursor /\ s.todo = sync[w].todo /\ s.next = sync[w].next
    BY <1>1, <2>1 DEF Bank!Sync
  <2>3. Bank!Become(w, s) /\ UNCHANGED << log, ledger, saved, status, closed, touched >>
    BY <1>3, <2>1 DEF Bank!FetchFails, Bank!PagesSpent, Bank!bankVars, Bank!accountVars
  <2> QED BY <1>1, <2>2, <2>3, BankIs, SyncMoves
<1>4. ASSUME NEW w \in Syncers, Bank!TurnPage(w) PROVE BankTyped'
  <2>1. PICK next : next = sync[w].next
    OBVIOUS
  <2>2. PICK s : s = [sync[w] EXCEPT
                        !.cursor = IF next = None THEN @ ELSE next,
                        !.at = IF next # None /\ sync[w].more THEN "fetch" ELSE "save"]
    OBVIOUS
  <2>3. next # None => next \in 0 .. Len(log) /\ next \in 0 .. MaxLog
    BY <1>1, <2>1, BankIs
  <2>4. /\ s \in Bank!Sync /\ s.todo = sync[w].todo /\ s.next = next
        /\ s.cursor = IF next = None THEN sync[w].cursor ELSE next
    BY <1>1, <2>1, <2>2, <2>3 DEF Bank!Sync
  <2>5. Bank!Become(w, s) /\ UNCHANGED << log, ledger, saved, status, closed, touched >>
    BY <1>4, <2>1, <2>2 DEF Bank!TurnPage, Bank!bankVars, Bank!accountVars
  <2> QED BY <1>1, <2>1, <2>3, <2>4, <2>5, BankIs, SyncMoves
<1>5. ASSUME NEW w \in Syncers, Bank!Save(w) \/ Bank!Abort(w) PROVE BankTyped'
  <2>1. Bank!Become(w, Bank!Idle) /\ UNCHANGED << log, ledger, status, closed, touched >>
        /\ saved' \in {saved, sync[w].cursor}
    BY <1>5 DEF Bank!Save, Bank!Abort, Bank!bankVars, Bank!accountVars
  <2> QED BY <2>1, BankIs, SyncMoves
<1>6. ASSUME NEW w \in Syncers, NEW e \in sync[w].todo, Bank!Apply(w, e) PROVE BankTyped'
  <2>1. PICK s : s = [sync[w] EXCEPT !.todo = @ \ {e}]
    OBVIOUS
  <2>2. s \in Bank!Sync /\ s.cursor = sync[w].cursor /\ s.todo \subseteq sync[w].todo /\ s.next = sync[w].next
    BY <1>1, <2>1 DEF Bank!Sync
  <2>3. Bank!Become(w, s) /\ UNCHANGED << log, saved, status, closed, touched >>
        /\ ledger' = [ledger EXCEPT ![e.tx] = Bank!Applied(e)]
    BY <1>6, <2>1 DEF Bank!Apply, Bank!bankVars, Bank!accountVars
  <2>4. e \in Bank!Change /\ (e.look = None => e.kind = "removed")
    BY <1>1, BankIs DEF BankTyped
  <2>5. Bank!Applied(e) \in Bank!Row \union {None}
    <3>1. PICK old, new : old = ledger[e.tx] /\ new = [old EXCEPT !.look = e.look]
      OBVIOUS
    <3>2. old \in Bank!Row \union {None}
      BY <2>4, <3>1, BankIs DEF Bank!Change
    <3>3. e.kind # "removed" => e.look \in Look
      BY <2>4 DEF Bank!Change
    <3>4. e.kind # "removed" /\ old # None => new \in Bank!Row
      BY <3>1, <3>2, <3>3 DEF Bank!Row
    <3>5. e.kind # "removed" => [look |-> e.look, mine |-> FALSE] \in Bank!Row
      BY <3>3 DEF Bank!Row
    <3> QED BY <3>1, <3>2, <3>4, <3>5 DEF Bank!Applied
  <2>6. ledger' \in [Ptx -> Bank!Row \union {None}]
    BY <2>3, <2>5, BankIs
  <2> QED BY <1>1, <2>2, <2>3, <2>6, BankIs, SyncMoves
<1>7. ASSUME NEW w \in Syncers, NEW n \in Bank!Pages(sync[w].cursor), NEW more \in BOOLEAN,
             NEW next \in {n, sync[w].cursor, None}, Bank!Fetch(w, n, next, more)
      PROVE  BankTyped'
  <2>1. PICK page : page = {log[i] : i \in (sync[w].cursor + 1) .. n}
    OBVIOUS
  <2>2. PICK s : s = [sync[w] EXCEPT
                        !.at = "apply", !.pages = @ + 1, !.next = next, !.more = more, !.todo = page]
    OBVIOUS
  <2>3. n \in sync[w].cursor .. Len(log)
    BY DEF Bank!Pages
  <2>4. n \in 0 .. Len(log) /\ page \subseteq {log[i] : i \in DOMAIN log}
    BY <1>1, <2>1, <2>3, BankIs
  <2>5. page \subseteq Bank!Change
    BY <2>4, BankIs
  <2>6. next # None => next \in 0 .. Len(log) /\ next \in 0 .. MaxLog
    BY <1>1, <2>4, BankIs
  <2>7. sync[w].pages + 1 \in 0 .. MaxPages
    <3>1. sync[w].pages \in 0 .. MaxPages /\ sync[w].pages < MaxPages
      BY <1>1, <1>7 DEF Bank!Fetch, Bank!Sync
    <3> QED BY <3>1, CatchUpAssumption DEF Bank!BoundAssumption
  <2>8. s \in Bank!Sync /\ s.cursor = sync[w].cursor /\ s.todo = page /\ s.next = next
    BY <1>1, <2>2, <2>5, <2>6, <2>7 DEF Bank!Sync
  <2>9. Bank!Become(w, s) /\ UNCHANGED << log, ledger, saved, status, closed, touched >>
    BY <1>7, <2>1, <2>2 DEF Bank!Fetch, Bank!bankVars, Bank!accountVars
  <2> QED BY <1>1, <2>4, <2>6, <2>8, <2>9, BankIs, SyncMoves
<1>8. ASSUME NEW w \in Syncers, Bank!Syncing(w) PROVE BankTyped'
  BY <1>2, <1>3, <1>4, <1>5, <1>6, <1>7, <1>8 DEF Bank!Syncing
<1> QED BY <1>5, <1>8, BankMoves DEF Bank!SyncNext

-----------------------------------------------------------------------------
(* The four together *)

LEMMA BankRests == BankTyped /\ UNCHANGED bankVars => BankTyped'
BY DEF BankTyped, Bank!TypeOK, bankVars

LEMMA RemindersRest == RemindersSound /\ UNCHANGED reminderVars => RemindersSound'
<1> SUFFICES ASSUME RemindersSound, UNCHANGED << today, reminder, used, firing, fired, ragged >>
             PROVE  RemindersSound'
  BY DEF reminderVars, reminderTable
<1>1. Reminding!TypeOK' /\ ReminderIds'
  BY DEF RemindersSound, Reminding!TypeOK, ReminderIds
<1>2. BatchesSound'
  BY DEF RemindersSound, BatchesSound, BatchSound
<1>3. FiringSpaced => FiringSpaced'
  BY DEF FiringSpaced, Spaced, UnderWay, TickSpaced
<1> QED BY <1>1, <1>2, <1>3 DEF RemindersSound

LEMMA PurgesRest == PurgesSound /\ UNCHANGED purgeVars => PurgesSound'
<1> SUFFICES ASSUME PurgesSound, UNCHANGED << day, feed, given, purge, owed >>
             PROVE  PurgesSound'
  BY DEF purgeVars, purgeTable
<1>1. Purging!TypeOK' /\ FeedIds'
  BY DEF PurgesSound, Purging!TypeOK, FeedIds
<1>2. OwedSound'
  BY DEF PurgesSound, OwedSound, Purging!Expired
<1> QED BY <1>1, <1>2 DEF PurgesSound

\* Whatever part a behaviour shows, a step of another leaves what each has kept.
LEMMA PartsKept ==
  ASSUME ChatSound, BankTyped, RemindersSound, PurgesSound, [CatchUpNext]_CatchUpVars
  PROVE  /\ ChatSound' /\ BankTyped' /\ RemindersSound' /\ PurgesSound'
         /\ [MCNext]_<<vars, histories>>
         /\ [Reminding!MCNext]_reminderVars /\ [Purging!MCNext]_purgeVars
<1>1. [MCNext]_<<vars, histories>>
  BY DEF CatchUpNext, CatchUpVars, chatVars
<1>2. Bank!SyncNext \/ UNCHANGED bankVars
  BY DEF CatchUpNext, CatchUpVars
<1>3. [Reminding!MCNext]_reminderVars
  BY DEF CatchUpNext, CatchUpVars
<1>4. [Purging!MCNext]_purgeVars
  BY DEF CatchUpNext, CatchUpVars
<1> QED BY <1>1, <1>2, <1>3, <1>4, ChatSoundNext, BankKept, BankRests, RemindersKept, RemindersRest,
           PurgesKept, PurgesRest

LEMMA PartsStart ==
  ASSUME CatchUpInit
  PROVE  MCInit /\ ChatSound /\ BankTyped /\ RemindersSound /\ PurgesSound
BY ChatSoundInit, BankStarts, RemindersStart, PurgesStart DEF CatchUpInit

\* Whichever of the four a behaviour shows, its state has its types.
THEOREM CatchUpTyped == CatchUpSpec => []CatchUpTypeOK
<1> DEFINE Sound == ChatSound /\ BankTyped /\ RemindersSound /\ PurgesSound
<1>1. CatchUpInit => Sound
  BY PartsStart
<1>2. Sound /\ [CatchUpNext]_CatchUpVars => Sound'
  BY PartsKept
<1>3. Sound => CatchUpTypeOK
  BY DEF ChatSound, BankTyped, RemindersSound, PurgesSound, CatchUpTypeOK
<1> QED BY <1>1, <1>2, <1>3, PTL DEF CatchUpSpec, CatchUpVars

\* However ticks and users interleave: a tick that runs alone fires a reminder once per
\* cadence (fire_due_reminders clamps the next slot to now), and a purge that runs alone
\* ends only when nothing is left of what it found (a batch comes back short).
THEOREM TicksAreThorough == CatchUpSpec => TicksThoroughAlone
<1> DEFINE Sound == ChatSound /\ BankTyped /\ RemindersSound /\ PurgesSound
           Fires == ~ ragged => \A f \in Worker : Reminding!Notify(f) =>
                      LET row == Reminding!Current(f)
                      IN fired[row.id] # None => firing[f].now >= Reminding!advance(fired[row.id], row.cadence)
           Drains == \A p \in Worker :
                       Purging!Delete(p) /\ purge'[p] = Purging!Idle => \A r \in owed[p] : feed'[r] = None
<1>1. CatchUpInit => Sound
  BY PartsStart
<1>2. Sound /\ [CatchUpNext]_CatchUpVars => Sound'
  BY PartsKept
<1>3. Sound /\ [CatchUpNext]_CatchUpVars => [Fires]_<<Reminding!vars, fired, ragged>>
  BY FiringIsSpaced
<1>4. Sound /\ [CatchUpNext]_CatchUpVars => [Drains]_<<Purging!vars, owed>>
  BY LastDeleteDrains
<1> QED BY <1>1, <1>2, <1>3, <1>4, PTL
        DEF CatchUpSpec, CatchUpVars, TicksThoroughAlone, Reminding!SpacedAlone, Purging!PurgeDrainsAlone
=============================================================================
