--------------------------- MODULE MCResultDelivery ---------------------------
(* Looks that change slowly, and images wider, higher and smaller than the square. *)
EXTENDS ResultDelivery, TLC

CONSTANTS c1, c2, unfit, spoilt

BestFirst == <<c1, c2>>
Slowly == {<<a, b>> \in Looks \X Looks : a - b \in -1..1}
SomeSizes == {<<16, 9>>, <<9, 16>>, <<7, 3>>, <<1, 24>>}
Symmetric == Permutations(Normal)

=============================================================================
