---- MODULE MCV2Migration ----
EXTENDS V2Migration, TLC

(* The candidates, the posts and the keys are interchangeable.            *)
Interchangeable ==
  Permutations(Legacy) \cup Permutations(Posts) \cup Permutations(Keys)
====
