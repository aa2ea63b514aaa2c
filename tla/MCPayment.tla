----------------------------- MODULE MCPayment -----------------------------
(* One Advisor, one Service of two slots, two people who pay.              *)
EXTENDS Payment, TLC
CONSTANTS s1, s2, a1, a2, a3, i1, i2, h1, h2, ann, ben, advice, bob
MCOwnerOf == [service \in Services |-> bob]
MCDuration == [service \in Services |-> 2]
\* One session, or two later ones: either can be bought after the other.
TwoBaskets == {{1}, {3, 5}}
\* Baskets that can be bought beside each other.
Beside == {{1}, {3}}
OneBasket == {{1}}
Symmetry == Permutations(Sessions) \cup Permutations(Appointments)
            \cup Permutations(Invoices) \cup Permutations(Charges)
            \cup Permutations(Advisees)
=============================================================================
