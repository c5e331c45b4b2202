----------------------------- MODULE MCCatalogue -----------------------------
(* The trees and the shelf-life rules.  Tree and Dates share no variable (Dates
   keeps the category parents it needs), so each is explored alone. *)
EXTENDS Tree, Dates, TLC

CONSTANTS l1, l2, l3, n1, g1, g2

VARIABLE focus

catalogueVars == <<treeVars, dateVars, focus>>

\* Three places and a category in one storage, a category in another.
MCHome == [n \in {l1, l2, l3, n1} |-> IF n = n1 THEN g2 ELSE g1]

CatalogueInit == TreeInit /\ DatesInit /\ focus \in {"tree", "dates"}

CatalogueNext ==
    \/ focus = "tree" /\ TreeNext /\ UNCHANGED <<dateVars, focus>>
    \/ focus = "dates" /\ DatesNext /\ UNCHANGED <<treeVars, focus>>

CatalogueSpec == CatalogueInit /\ [][CatalogueNext]_catalogueVars

\* Past maxTreeDepth nothing is claimed.
Shallow == ~deep

Symmetric == Permutations(Product)

\* The two type invariants.
CatalogueTypeOK == TreeTypeOK /\ DatesTypeOK

=============================================================================
