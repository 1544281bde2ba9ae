------------------------------- MODULE MCChat -------------------------------
EXTENDS Chat, TLC

CONSTANT MaxTroubles

\* Histories.  sent: the messages posted.  author: who typed each.  epoch: how
\* often the tab started afresh, and in which epoch each message went out.
\* upset: a fetch failed, a drain outlived its session, a save failed or the tab
\* moved on during a turn.  renamed: the threads renamed while one was named.
VARIABLES sent, author, epoch, epochOf, upset, renamed, troubles
histories == <<sent, author, epoch, epochOf, upset, renamed, troubles>>

MCInit ==
  /\ Init /\ account = CHOOSE a \in Accounts : TRUE
  /\ sent = << >> /\ author = [m \in Messages |-> None]
  /\ epoch = 0 /\ epochOf = [m \in Messages |-> 0]
  /\ upset = FALSE /\ renamed = {} /\ troubles = 0

InProgress == {m \in Messages : drain[m] # "none" \/ turn[m] # Over}

Posts == {m \in Messages : drain[m] = "none" /\ drain'[m] = "waiting"}
Note ==
  /\ sent' = IF Posts = {} THEN sent ELSE Append(sent, CHOOSE m \in Posts : TRUE)
  /\ epochOf' = [m \in Messages |-> IF m \in Posts THEN epoch ELSE epochOf[m]]
  /\ author' = IF typed' = typed THEN author ELSE [author EXCEPT ![typed'] = account]

Smooth ==
  /\ SendChatMessage \/ \E m \in Messages : DrainPass(m) \/ TurnStep(m)
  /\ Note /\ UNCHANGED <<epoch, upset, renamed, troubles>>

Afresh ==
  /\ NewConversation \/ (\E a \in Accounts : Login(a)) \/ (\E k \in Messages : active = k /\ DeleteConversation(k))
  /\ epoch' = epoch + 1
  /\ upset' = (upset \/ InProgress # {})
  /\ UNCHANGED <<sent, author, epochOf, renamed>>

Rename ==
  /\ \E k \in Messages :
       /\ RenameConversation(k)
       /\ renamed' = renamed \union {j \in {k} : \E m \in Messages : turn[m].at = "name" /\ turn[m].thread = k}
  /\ UNCHANGED <<sent, author, epoch, epochOf, upset>>

Quiet ==
  /\ Unqueue \/ \E k \in Messages : active # k /\ DeleteConversation(k)
  /\ UNCHANGED <<sent, author, epoch, epochOf, upset, renamed>>

Upset ==
  /\ upset' = (upset \/ InProgress # {})
  /\ UNCHANGED <<sent, author, epoch, epochOf, renamed>>

Fails ==
  /\ \/ Logout
     \/ \E m \in Messages : CutOff(m) \/ SaveUserMessage(m, FALSE) \/ SaveAnswer(m, FALSE)
  /\ Upset

MCNext ==
  \/ Smooth
  \/ (\E m \in Messages : Timeout(m)) /\ Upset /\ UNCHANGED troubles
  \/ troubles < MaxTroubles /\ troubles' = troubles + 1 /\ (Afresh \/ Rename \/ Quiet \/ Fails)

MCSpec == MCInit /\ [][MCNext]_<<vars, histories>> /\ Fairness

\* The tab implements Outbox: what is typed goes out in order and once, whatever
\* fails, and even when two drain loops run (runDrain's two regressions).
Promise == INSTANCE Outbox WITH accepted <- typed, pending <- queue, sent <- sent
SentInOrder == Promise!Spec

\* A log of questions, each followed by its own answer, in the order they were typed.
Dialogue(entries) ==
  \A i \in DOMAIN entries :
    IF i = 1 \/ entries[i - 1][2] = "ai"
    THEN entries[i][2] = "user" /\ \A j \in 1 .. i - 1 : entries[j][1] < entries[i][1]
    ELSE entries[i] = <<entries[i - 1][1], "ai">>

\* Undisturbed, a tab has one turn in progress, and a thread reads as it was
\* typed: each question followed by its own answer, all of one conversation. Once
\* the turn of an entry is over, its question is answered and the thread has a title.
ThreadsReadAsTypedAlone ==
  ~ upset =>
    /\ \A m, n \in InProgress : m = n
    /\ \A k \in Threads :
         LET entries == thread[k].log
         IN /\ Dialogue(entries)
            /\ \A i \in DOMAIN entries : turn[entries[i][1]] = Over =>
                 thread[k].title # None /\ (entries[i][2] = "ai" \/ i < Len(entries))
            /\ \A i, j \in DOMAIN entries : epochOf[entries[i][1]] = epochOf[entries[j][1]]

\* A title the user gave stays, except that a turn which was generating one
\* when the user gave it writes over it once.
TitleKeptAlone ==
  [][\A k \in Threads \ renamed :
       thread[k].title = "own" /\ thread'[k] # None => thread'[k].title = "own"]_<<vars, histories>>

\* "A failing item must not stop the drain": the queue empties again and again, whatever
\* the server does, unless a body that has begun never ends, which no timer watches.
EventuallySent == (\A m \in Messages : []<>(drain[m] # "reading")) => []<>(queue = << >>)

\* handleLogout: "A background drainQueue() must not survive a session boundary".
DrainKeepsToItsSession ==
  [][\A m \in Messages : DrainPass(m) /\ queue # << >> => author[m] = author[Head(queue)]]_<<vars, histories>>
=============================================================================
