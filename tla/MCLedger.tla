------------------------------ MODULE MCLedger ------------------------------
(***************************************************************************)
(* What other hands do to a ledger, for TLC: the bank's updates of an      *)
(* account (PlaidSync, whose names are used as they are) and the           *)
(* categories that come and go with the transactions (AutoCategory).  A    *)
(* synced row keeps the category it was inserted with, and the categories  *)
(* hear of the bank only that a row is gone, which AutoCategory has as a   *)
(* step of its own; so a behaviour shows one, chosen at first, while the   *)
(* account rests as it begins, or the categories are None, or empty.       *)
(***************************************************************************)
EXTENDS MCPlaidSync

CONSTANTS Food, food

VARIABLES part, catBorn, cats, cat, txBorn, txs, in, req, mixed, cut

\* Food and food differ only in case.
Spelling == {Food, food}
Lower == [n \in Spelling |-> food]

\* The parts share model values, and so their symmetry.
Categories == INSTANCE MCAutoCategory
  WITH Tx <- Ptx, Cat <- Look, Name <- Spelling, Fold <- Lower, overlapped <- mixed

ASSUME LedgerAssumption == Categories!AutoCategoryAssumption

syncVars == <<vars, overlapped>>
categoryVars == <<catBorn, cats, cat, txBorn, txs, in, req, mixed, cut>>

NoCategories ==
  /\ catBorn = {} /\ cats = {} /\ cat = None /\ txBorn = {} /\ txs = {} /\ in = None
  /\ req = None /\ mixed = None /\ cut = None

LedgerInit ==
  \/ part = "sync" /\ MCInit /\ NoCategories
  \/ part = "categories" /\ MCInit /\ Categories!MCInit

LedgerNext ==
  /\ UNCHANGED part
  /\ \/ part = "sync" /\ MCNext /\ UNCHANGED categoryVars
     \/ part = "categories" /\ Categories!MCNext /\ UNCHANGED syncVars

LedgerSpec == LedgerInit /\ [][LedgerNext]_<<part, syncVars, categoryVars>>

LedgerTypeOK ==
  /\ part = "sync" => TypeOK
  /\ part = "categories" => Categories!TypeOK

\* The promises of AutoCategory, of the behaviours that show it.
ReclaimedAlone == part = "categories" => Categories!ReclaimedAlone
CategoriesSparedAlone ==
  [][part = "categories" => Categories!SparedAlone]_categoryVars
=============================================================================
