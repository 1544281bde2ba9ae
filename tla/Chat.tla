-------------------------------- MODULE Chat --------------------------------
(***************************************************************************)
(* A browser tab and the conversation threads it writes to                 *)
(* (frontend/src/App.svelte, lib/chatQueue.js, lib/fetchTimeout.js, and    *)
(* the thread side of backend/src/rag.rs's chat_endpoint).                 *)
(*                                                                         *)
(* The tab queues what is typed while a turn is under way and drains the   *)
(* queue one message at a time.  JavaScript runs to the next await         *)
(* undisturbed, so a step here is what happens between two awaits.  On the *)
(* server every statement of a turn commits alone, several turns may be in *)
(* progress, and one whose client gave up may go on or be dropped at any   *)
(* await.  A message is its number in typing order; a thread is the number *)
(* of the message that made the server create it.                          *)
(*                                                                         *)
(* What a turn asks of the model and does to a budget is SharedBudget's;   *)
(* slash commands stay in the tab and are left out.                        *)
(***************************************************************************)
EXTENDS Integers, Sequences, SequencesExt

CONSTANTS Accounts,
          MaxTyped,   \* bound: messages ever typed
          QueueCap,   \* QUEUE_CAP
          None

ASSUME ChatAssumption == MaxTyped \in Nat \ {0} /\ QueueCap \in Nat \ {0} /\ None \notin Nat \union {"generated", "own"}

Messages == 1 .. MaxTyped

VARIABLES
  account,     \* whose session the tab has, or None
  typed,       \* how many messages were accepted
  queue,       \* pendingQueue
  isDraining,  \* the tab's flag: a drainQueue is running
  drain,       \* the drain loop that sent each message: waiting for the answer's headers,
               \* reading its body, at its next pass, or gone
  active,      \* activeConversationId
  turn,        \* the server's turn for each message
  thread       \* the rows of conversations, each with its chat_messages

tab == <<account, typed, queue, isDraining, drain, active>>
vars == <<tab, turn, thread>>

Titles == {None, "generated", "own"}
Thread == [owner : Accounts, title : Titles, log : Seq(Messages \X {"user", "ai"})]
Over == [at |-> "over"]
Stages == {"thread", "say", "answer", "title", "name", "reply"}
Threads == {k \in Messages : thread[k] # None}

TypeOK ==
  /\ account \in Accounts \union {None}
  /\ typed \in 0 .. MaxTyped
  /\ queue \in Seq(1 .. typed) /\ Len(queue) <= QueueCap
  /\ isDraining \in BOOLEAN
  /\ drain \in [Messages -> {"none", "waiting", "reading", "pass"}]
  /\ active \in Messages \union {None}
  /\ turn \in [Messages -> {Over} \union
                 [at : Stages, user : Accounts, thread : Messages \union {None}]
                 \union [at : {"refused"}]]
  /\ thread \in [Messages -> {None} \union Thread]

Init ==
  /\ account \in Accounts
  /\ typed = 0 /\ queue = << >> /\ isDraining = FALSE
  /\ drain = [m \in Messages |-> "none"]
  /\ active = None
  /\ turn = [m \in Messages |-> Over]
  /\ thread = [m \in Messages |-> None]

-----------------------------------------------------------------------------
(* The tab: typing and draining *)

Posted == [at |-> "thread", user |-> account, thread |-> active]

\* Bug to catch: the most recent message goes first.
LastOut(q) == [item |-> Last(q), rest |-> Front(q)]

dequeue(q) == [item |-> Head(q), rest |-> Tail(q)]

\* A pass of runDrain: take an item off the live queue and performSend it, up to its fetch.
PassWith(q, gone) ==
  LET next == dequeue(q) IN
    /\ queue' = next.rest
    /\ drain' = [m \in Messages |-> IF m = next.item THEN "waiting" ELSE IF m = gone THEN "none" ELSE drain[m]]
    /\ turn' = [turn EXCEPT ![next.item] = Posted]

\* Bug to catch: the loop ends without lowering the flag.
EndsHoldingFlag(m) ==
  /\ drain' = [drain EXCEPT ![m] = "none"]
  /\ UNCHANGED <<queue, isDraining, turn>>

\* runDrain's loop finds nothing, and drainQueue's finally.
EndDrain(m) ==
  /\ drain' = [drain EXCEPT ![m] = "none"]
  /\ isDraining' = FALSE
  /\ UNCHANGED <<queue, turn>>

\* Bug to catch: a message typed during a turn is sent at once.
SendAtOnce ==
  /\ account # None /\ typed < MaxTyped
  /\ Len(queue) < QueueCap
  /\ typed' = typed + 1
  /\ isDraining' = TRUE
  /\ PassWith(Append(queue, typed'), None)
  /\ UNCHANGED <<account, active, thread>>

\* sendChatMessage: enqueue, and start a drain unless one is running.
SendChatMessage ==
  /\ account # None /\ typed < MaxTyped
  /\ Len(queue) < QueueCap
  /\ typed' = typed + 1
  /\ \/ /\ isDraining
        /\ queue' = Append(queue, typed')
        /\ UNCHANGED <<isDraining, drain, turn>>
     \/ /\ ~ isDraining
        /\ isDraining' = TRUE
        /\ PassWith(Append(queue, typed'), None)
  /\ UNCHANGED <<account, active, thread>>

DrainPass(m) ==
  /\ drain[m] = "pass"
  /\ \/ queue # << >> /\ PassWith(queue, m) /\ UNCHANGED isDraining
     \/ queue = << >> /\ EndDrain(m)
  /\ UNCHANGED <<account, typed, active, thread>>

\* removeQueuedMessage and clearQueuedMessages.
Unqueue ==
  /\ queue # << >>
  /\ queue' \in {RemoveAt(queue, i) : i \in 1 .. Len(queue)} \union {<< >>}
  /\ UNCHANGED <<account, typed, isDraining, drain, active, turn, thread>>

\* handleNewConversation and /clear.
NewConversation ==
  /\ active # None
  /\ active' = None
  /\ UNCHANGED <<account, typed, queue, isDraining, drain, turn, thread>>

\* handleLogout, pressed or on a 401.
Logout ==
  /\ account # None
  /\ account' = None
  /\ queue' = << >> /\ isDraining' = FALSE /\ active' = None
  /\ UNCHANGED <<typed, drain, turn, thread>>

\* saveSession and startFreshSession.
Login(a) ==
  /\ account = None
  /\ account' = a /\ active' = None
  /\ UNCHANGED <<typed, queue, isDraining, drain, turn, thread>>

-----------------------------------------------------------------------------
(* The server: a turn *)

Owned(k, u) == k # None /\ thread[k] # None /\ thread[k].owner = u
Exists(m) == thread[turn[m].thread] # None

Goto(m, stage) == turn' = [turn EXCEPT ![m].at = stage]

\* The thread is verified or created, before anything is asked of the model.
ResolveThread(m) ==
  /\ turn[m].at = "thread"
  /\ LET t == turn[m] IN
       \/ /\ t.thread = None
          /\ thread' = [thread EXCEPT ![m] = [owner |-> t.user, title |-> None, log |-> << >>]]
          /\ turn' = [turn EXCEPT ![m] = [t EXCEPT !.at = "say", !.thread = m]]
       \/ /\ Owned(t.thread, t.user)
          /\ Goto(m, "say") /\ UNCHANGED thread
       \/ /\ t.thread # None /\ ~ Owned(t.thread, t.user)
          /\ turn' = [turn EXCEPT ![m] = [at |-> "refused"]] /\ UNCHANGED thread
  /\ UNCHANGED tab

\* An insert into a thread that is gone violates its foreign key, which is ignored.
Record(m, sender, kept) ==
  thread' = IF kept /\ Exists(m)
              THEN [thread EXCEPT ![turn[m].thread].log = Append(@, <<m, sender>>)]
              ELSE thread

\* The action has run: its outcome is saved as two messages.  An error is ignored.
SaveUserMessage(m, kept) ==
  /\ turn[m].at = "say"
  /\ Record(m, "user", kept)
  /\ Goto(m, "answer") /\ UNCHANGED tab

SaveAnswer(m, kept) ==
  /\ turn[m].at = "answer"
  /\ Record(m, "ai", kept)
  /\ Goto(m, "title") /\ UNCHANGED tab

\* Bug to catch: a title is generated whatever there is.
AlwaysTitles(m) ==
  /\ turn[m].at = "title"
  /\ Goto(m, IF Exists(m) THEN "name" ELSE "reply")
  /\ UNCHANGED <<tab, thread>>

ReadTitle(m) ==
  /\ turn[m].at = "title"
  /\ Goto(m, IF Exists(m) /\ thread[turn[m].thread].title = None THEN "name" ELSE "reply")
  /\ UNCHANGED <<tab, thread>>

\* generate_conversation_title, or fallback_title, and the UPDATE by id alone.
NameThread(m) ==
  /\ turn[m].at = "name"
  /\ thread' = IF Exists(m) THEN [thread EXCEPT ![turn[m].thread].title = "generated"] ELSE thread
  /\ Goto(m, "reply") /\ UNCHANGED tab

\* fetchWithTimeout settles and its timer is cleared; fetchApi goes on to the body, untimed.
HeadersArrive(m) ==
  /\ turn[m].at \in {"reply", "refused"} /\ drain[m] = "waiting"
  /\ drain' = [drain EXCEPT ![m] = "reading"]
  /\ UNCHANGED <<account, typed, queue, isDraining, active, turn, thread>>

Awaited(m) == drain[m] \in {"waiting", "reading"}
Returns(m) == drain' = [drain EXCEPT ![m] = "pass"] /\ UNCHANGED <<account, typed, queue, isDraining>>

\* The body is read, if the tab still waits: whatever thread it is in now, it takes the turn's.
Reply(m) ==
  /\ turn[m].at = "reply" /\ drain[m] # "waiting"
  /\ turn' = [turn EXCEPT ![m] = Over]
  /\ IF Awaited(m) THEN Returns(m) /\ active' = turn[m].thread ELSE UNCHANGED tab
  /\ UNCHANGED thread

\* 404: performSend shows the error.
Refused(m) ==
  /\ turn[m].at = "refused" /\ drain[m] # "waiting"
  /\ turn' = [turn EXCEPT ![m] = Over]
  /\ IF Awaited(m) THEN Returns(m) /\ UNCHANGED active ELSE UNCHANGED tab
  /\ UNCHANGED thread

\* fetchWithTimeout aborts, as it can only before the headers; the server's turn goes on, or
\* is dropped with the connection.
Timeout(m) ==
  /\ drain[m] = "waiting"
  /\ Returns(m) /\ UNCHANGED <<active, thread>>
  /\ turn' = turn \/ turn' = [turn EXCEPT ![m] = Over]

\* The server stops, the connection breaks or an error ends the turn: the tab sees a failed
\* fetch, or a body that fails.
CutOff(m) ==
  /\ turn[m] # Over
  /\ turn' = [turn EXCEPT ![m] = Over]
  /\ IF Awaited(m) THEN Returns(m) /\ UNCHANGED active ELSE UNCHANGED tab
  /\ UNCHANGED thread

TurnStep(m) ==
  \/ ResolveThread(m) \/ SaveUserMessage(m, TRUE) \/ SaveAnswer(m, TRUE)
  \/ ReadTitle(m) \/ NameThread(m)
  \/ HeadersArrive(m) \/ Reply(m) \/ Refused(m)

-----------------------------------------------------------------------------
(* The thread list *)

RenameConversation(k) ==
  /\ account # None /\ Owned(k, account)
  /\ thread' = [thread EXCEPT ![k].title = "own"]
  /\ UNCHANGED <<tab, turn>>

\* Its messages go with it; a tab that was in it starts afresh.
DeleteConversation(k) ==
  /\ account # None /\ Owned(k, account)
  /\ thread' = [thread EXCEPT ![k] = None]
  /\ active' = IF active = k THEN None ELSE active
  /\ UNCHANGED <<account, typed, queue, isDraining, drain, turn>>

Next ==
  \/ SendChatMessage \/ Unqueue \/ NewConversation \/ Logout
  \/ \E a \in Accounts : Login(a)
  \/ \E m \in Messages :
       \/ DrainPass(m) \/ TurnStep(m) \/ Timeout(m) \/ CutOff(m)
       \/ SaveUserMessage(m, FALSE) \/ SaveAnswer(m, FALSE)
       \/ RenameConversation(m) \/ DeleteConversation(m)

\* The browser resumes a loop whose await is over, and the timer of a fetch that has no
\* headers yet goes off.  Nothing makes the server answer, or a body that has begun end.
Fairness == \A m \in Messages : WF_vars(DrainPass(m)) /\ WF_vars(Timeout(m))

Spec == Init /\ [][Next]_vars /\ Fairness
=============================================================================
