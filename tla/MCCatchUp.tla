----------------------------- MODULE MCCatchUp ------------------------------
(***************************************************************************)
(* What must eventually be done, for TLC: a message waits in the tab (Chat,*)
(* whose names are used as they are), a change waits at the bank           *)
(* (PlaidSync), a reminder is due (Reminders) or a row is past its         *)
(* retention (Retention).  The four share nothing but the process that     *)
(* serves them, so a behaviour shows one, chosen at first, while the       *)
(* others rest as they begin.                                              *)
(***************************************************************************)
EXTENDS MCChat

CONSTANTS Ptx, Look, Worker, MaxLog, PageSize, MaxPages,
          Rems, MaxDay, Week,
          Rows, LastDay, ReadDays, UnreadDays, BatchSize

VARIABLES part,
          log, ledger, saved, status, closed, sync, touched,
          today, reminder, used, firing, fired, ragged,
          day, feed, given, purge, owed

\* Bound: one sync at a time.
Syncers == {CHOOSE w \in Worker : TRUE}
Bank == INSTANCE PlaidSync WITH Worker <- Syncers
Reminding == INSTANCE MCReminders WITH Firers <- Worker
Purging == INSTANCE MCRetention WITH Purgers <- Worker, MaxDay <- LastDay

ASSUME CatchUpAssumption ==
  /\ Bank!BoundAssumption /\ Bank!NoneAssumption
  /\ Reminding!RemindersAssumption /\ Purging!RetentionAssumption

chatVars == <<vars, histories>>
bankVars == <<log, ledger, saved, status, closed, sync, touched>>
reminderTable == <<today, reminder, used, firing>>
reminderVars == <<reminderTable, fired, ragged>>
purgeTable == <<day, feed, given, purge>>
purgeVars == <<purgeTable, owed>>

CatchUpInit ==
  /\ part \in {"chat", "bank", "reminders", "retention"}
  /\ MCInit /\ Bank!Init /\ Reminding!MCInit /\ Purging!MCInit

CatchUpNext ==
  /\ UNCHANGED part
  /\ \/ part = "chat" /\ MCNext /\ UNCHANGED <<bankVars, reminderVars, purgeVars>>
     \/ part = "bank" /\ Bank!SyncNext /\ UNCHANGED <<chatVars, reminderVars, purgeVars>>
     \/ part = "reminders" /\ Reminding!MCNext /\ UNCHANGED <<chatVars, bankVars, purgeVars>>
     \/ part = "retention" /\ Purging!MCNext /\ UNCHANGED <<chatVars, bankVars, reminderVars>>

\* The fairness of each part, of the behaviours that show it: what the browser and the
\* process do by themselves, and neither what a user or a webhook starts nor an answer
\* from elsewhere.
CatchUpFairness ==
  /\ \A m \in Messages :
       /\ WF_vars(part = "chat" /\ DrainPass(m))
       /\ WF_vars(part = "chat" /\ Timeout(m))
  /\ \A w \in Syncers :
       WF_bankVars(part = "bank" /\ Bank!InHand(w) /\ (Bank!Syncing(w) \/ Bank!Abort(w)))
  /\ \A w \in Worker :
       /\ WF_reminderTable(part = "reminders" /\ Reminding!Tick(w))
       /\ WF_purgeTable(part = "retention" /\ (Purging!Purge(w) \/ Purging!PurgeFails(w)))

CatchUpSpec ==
  /\ CatchUpInit
  /\ [][CatchUpNext]_<<part, chatVars, bankVars, reminderVars, purgeVars>>
  /\ CatchUpFairness

CatchUpTypeOK ==
  /\ part = "chat" => TypeOK
  /\ part = "bank" => Bank!TypeOK
  /\ part = "reminders" => Reminding!TypeOK
  /\ part = "retention" => Purging!TypeOK

\* Nothing waits for ever that the program itself can move: a message is sent unless a
\* body hangs, a sync ends unless a call hangs and the ledger catches up with the bank
\* if syncs go on being started, a due reminder is fired, an expired row is purged.
BacklogsClear ==
  /\ EventuallySent
  /\ Bank!SyncEnds
  /\ Bank!EventuallyCaughtUp
  /\ Reminding!EventuallyFired
  /\ Purging!EventuallyPurged

\* What a tick that runs alone does: it fires a reminder once for each of its days,
\* and a purge leaves nothing of what it found expired.
TicksThoroughAlone == Reminding!SpacedAlone /\ Purging!PurgeDrainsAlone
=============================================================================
