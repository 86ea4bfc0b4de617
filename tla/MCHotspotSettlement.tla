------------------------ MODULE MCHotspotSettlement ------------------------
(* Values for the model checker. *)
EXTENDS HotspotSettlement, TLC

MCPrice == [p \in Purchases |-> 333]

MCPlain == [pending |-> {{}}, paid |-> {{"success"}, {}}, failed |-> {{"failed"}, {}},
            reversed |-> {{"reversed"}, {"paid", "reversed"}, {}}]

\* "Unpaid" and "Unsuccessful" are among the words.
MCNegated == [MCPlain EXCEPT !["pending"] = {{}, {"paid"}}, !["failed"] = {{"failed"}, {"success"}}]

Symmetry == Permutations(Requests) \union Permutations(Purchases)
=============================================================================
