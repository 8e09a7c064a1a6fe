--------------------------- MODULE MCBridgeTable ----------------------------
(* Instances of BridgeTable: addresses of two words, of which <<0, 2>> is  *)
(* <<1, 2>> but for a word that is 0.                                      *)
EXTENDS BridgeTable

A == <<1, 1>>
B == <<1, 2>>
T == <<0, 2>>
Everyone == <<3, 3>>

ThreeStations == {A, B, T}
OnlyEveryone  == {Everyone}
Talk == {<<Everyone, A>>, <<A, B>>, <<B, T>>, <<T, Everyone>>}
HashTwo  == [a \in {A, B, T, Everyone} |-> IF a = A THEN 1 ELSE 0]

(* The cards are not told apart.                                           *)
Symmetry == Permutations(Cards)
=============================================================================
