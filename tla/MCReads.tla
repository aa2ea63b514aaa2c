------------------------------ MODULE MCReads ------------------------------
(* What is read: the pages of a chat by cursor, the lists by page number,  *)
(* and whom the guard answers.  The three do not meet, so they are run     *)
(* side by side: one of them moves and the others wait where they began.   *)
EXTENDS ChatFeed, Listings, Access, TLC
CONSTANTS s1, s2, ann, bob

VARIABLE moving   \* which of them

reads == <<feedVars, listVars, accessVars, moving>>
Symmetry == Permutations(Writers)

ReadsInit ==
  /\ moving \in {"feed", "list", "access"}
  /\ FeedInit /\ ListInit /\ AccessInit
  /\ moving # "access" => person = Applicant

FeedMoves ==
  moving = "feed" /\ FeedNext /\ UNCHANGED <<listVars, accessVars, moving>>
ListMoves ==
  moving = "list" /\ ListNext /\ UNCHANGED <<feedVars, accessVars, moving>>
AccessMoves ==
  moving = "access" /\ AccessNext /\ UNCHANGED <<feedVars, listVars, moving>>

ReadsNext == FeedMoves \/ ListMoves \/ AccessMoves

ReadsSpec == ReadsInit /\ [][ReadsNext]_reads
=============================================================================
