------------------------------- MODULE Outbox -------------------------------
(***************************************************************************)
(* What the composer promises whoever types into it: the messages it       *)
(* accepts go out in the order they were typed, each at most once, unless  *)
(* they are taken back while they still wait.                              *)
(***************************************************************************)
EXTENDS Integers, Sequences, SequencesExt

VARIABLES accepted,  \* how many messages were typed: they are numbered
          pending,   \* the messages that wait
          sent       \* the messages that went out

outbox == <<accepted, pending, sent>>

Init == accepted = 0 /\ pending = << >> /\ sent = << >>

Accept ==
  /\ accepted' = accepted + 1
  /\ pending' = Append(pending, accepted')
  /\ UNCHANGED sent

Send ==
  /\ pending # << >>
  /\ sent' = Append(sent, Head(pending))
  /\ pending' = Tail(pending)
  /\ UNCHANGED accepted

\* Accepted while nothing is under way, a message makes the first one go at once.
AcceptAndSend ==
  /\ accepted' = accepted + 1
  /\ LET all == Append(pending, accepted') IN
       pending' = Tail(all) /\ sent' = Append(sent, Head(all))

TakeBack ==
  /\ \E i \in 1 .. Len(pending) : pending' = RemoveAt(pending, i)
  /\ UNCHANGED <<accepted, sent>>

TakeBackAll == pending' = << >> /\ UNCHANGED <<accepted, sent>>

Next == Accept \/ Send \/ AcceptAndSend \/ TakeBack \/ TakeBackAll

Spec == Init /\ [][Next]_outbox
=============================================================================
