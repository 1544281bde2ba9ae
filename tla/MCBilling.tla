------------------------------ MODULE MCBilling ------------------------------
(***************************************************************************)
(* The check of Billing.  informed remembers, for each request that may    *)
(* start a trial, whether an event of a subscription had been answered     *)
(* when it read the row; exposed, whether an account deletion cancelled    *)
(* while there was anything of Stripe's the row could not tell it of.      *)
(***************************************************************************)
EXTENDS Billing, TLC

VARIABLES informed, exposed

MCvars == <<vars, informed, exposed>>

MCInit == Init /\ informed = {} /\ exposed = FALSE

Busy(r) == req[r] # Idle

\* Something lives that the row does not name, or may yet be created.
Unknown ==
  \/ sessions > 0
  \/ \E s \in DOMAIN subs : Live(s) /\ Known.sub # s

MCNext ==
  /\ Next
  /\ informed' = {r \in Requests :
       req'[r] = "trial" /\ IF req[r] = "trial" THEN r \in informed
                            ELSE \E e \in acked : e.kind # "checkout_completed"}
  /\ exposed' = \/ exposed
                \/ \E r \in Requests :
                     req'[r] = "erase" /\ (Unknown \/ \E q \in Requests \ {r} : Busy(q)')

MCSpec == MCInit /\ [][MCNext]_MCvars

\* "no second free trial": creating a budget starts a trial only for a user of
\* whom no event had been received when the request read the row.
FirstTrial ==
  \A r \in Requests : StartTrial(r) /\ subs' # subs => r \notin informed

\* A deletion that could know of every subscription leaves none alive.
DeletionCancelsAlone ==
  gone /\ ~ exposed => \A s \in DOMAIN subs : ~ Live(s)
==============================================================================
