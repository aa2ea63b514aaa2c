--------------------------- MODULE MCNotifications ---------------------------
(* Two messages of one room, a welcome tried twice, one device two people use. *)
EXTENDS Notifications, TLC

CONSTANTS ann, bob, m1, m2, hello1, hello2, room, s1, s2, phone

MCOwnerOf == [i \in Inputs |-> ann]
MCRoomOf == [i \in Inputs |-> IF i \in {m1, m2} THEN room ELSE None]
Symmetry ==
  Permutations(Sessions) \cup Permutations({m1, m2}) \cup Permutations({hello1, hello2})
=============================================================================
