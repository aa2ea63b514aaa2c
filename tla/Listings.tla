------------------------------ MODULE Listings ------------------------------
(***************************************************************************)
(* The lists read by page number (common/pagination/offset-pagination) and *)
(* what may happen to a list while somebody turns its pages.               *)
(*                                                                         *)
(* A page is cut from the rows there are when it is read and the total is  *)
(* another statement.  A list is its ORDER BY and the ways its rows come   *)
(* and go: `leave' (deleted, or no longer what the filter asks for),       *)
(* `enter' (an old row the filter did not ask for before), `move' (stamped *)
(* again).  A row is `hidden' while it exists outside the filter or the    *)
(* joins, and a count reads the joins and the filter of its page.          *)
(***************************************************************************)
EXTENDS Naturals, FiniteSets

CONSTANTS
  Rows,        \* ids of rows, ordered as UUIDs are (bound)
  Stamps,      \* values of the column a list is ordered by (bound)
  PageLimit,   \* rows per page
  ScanLimit,   \* AVAILABLE_ON_SCAN_LIMIT
  MaxChanges   \* changes of the rows during a visit (bound)

VARIABLES
  list,    \* the list being read
  rows,    \* its rows: [is, at]
  visit    \* the reader: the page asked for and what they were shown

listVars == <<list, rows, visit>>

----------------------------------------------------------------------------
(* The lists: the column, the tie-break on the id, and the changes.        *)

Listing(order, ties, changes) ==
  [order |-> order, ties |-> ties, changes |-> changes, scanned |-> FALSE]

\* Without a status a ruling changes no page; with one it adds or removes a row.
ByStatus(order, ties) == {Listing(order, ties, c) : c \in {{}, {"leave"}, {"enter"}}}

\* refunds
RefundsOfRequester == {Listing("oldest", "asc", {})}
RefundQueue == ByStatus("oldest", "asc")
\* payouts
PayoutQueue == ByStatus("oldest", "asc")
PayoutStatement == {Listing("newest", "asc", {})}
\* safety
ReportQueue == ByStatus("newest", "desc")
ReportsOfReporter == {Listing("newest", "desc", {})}
FlagQueue == ByStatus("newest", "desc")
\* An erased account takes its documents with it.
SkillProofQueue == {Listing("oldest", "asc", c) : c \in {{"leave"}, {"leave", "enter"}}}
SkillProofsOfAdvisor == {Listing("oldest", "asc", {})}
\* Without a status a document submitted again moves; with one it leaves or enters.
IdentityQueue == {Listing("oldest", "asc", {"leave", "enter", "move"})}
\* screening, payment, chat
ScreeningRequestsOfAdvisor == ByStatus("newest", "desc")
InvoicesOfAdvisee == {Listing("newest", "desc", {})}
RoomsOfMember == {Listing("newest", "desc", {})}
\* accounts: suspended, reinstated, erased
AccountList == {Listing("newest", "desc", c) : c \in {{}, {"leave", "enter"}}}
\* bookings: a rescheduled booking is a new row
BookingsOfAdvisee == {Listing("oldest", "none", {})}
BookingsOfAdvisor == {Listing("oldest", "none", {})}
ReviewsOfAdvisor == {Listing("newest", "none", {})}
\* the catalogue
SkillList == {Listing("id", "asc", {"leave"})}
CategoryList == {Listing("id", "asc", {"leave"})}
ServicesOfAdvisor == {Listing("oldest", "none", {"leave"})}
ServiceList == {Listing("id", "asc", {"leave"})}
PublishedServices == {Listing("oldest", "asc", {"leave", "enter"})}
DiscoverableAdvisors == {Listing("oldest", "asc", {"leave", "enter"})}

\* The days' search reads the first ScanLimit candidates and keeps the open ones.
PublishedAvailableOn == {[l EXCEPT !.scanned = TRUE] : l \in PublishedServices}

Lists ==
  RefundsOfRequester \cup RefundQueue \cup PayoutQueue \cup PayoutStatement \cup ReportQueue
  \cup ReportsOfReporter \cup FlagQueue \cup SkillProofQueue \cup SkillProofsOfAdvisor
  \cup IdentityQueue \cup ScreeningRequestsOfAdvisor \cup InvoicesOfAdvisee \cup RoomsOfMember
  \cup AccountList \cup BookingsOfAdvisee \cup BookingsOfAdvisor \cup ReviewsOfAdvisor
  \cup SkillList \cup CategoryList \cup ServicesOfAdvisor \cup ServiceList
  \cup PublishedServices \cup DiscoverableAdvisors \cup PublishedAvailableOn

NoList == Listing("none", "none", {})

----------------------------------------------------------------------------
(* Who is listed and what may be done with them: the predicates of the     *)
(* statements, on an Advisor and a Service of theirs.                      *)

Standing == [published : BOOLEAN, active : BOOLEAN, banned : BOOLEAN, verified : BOOLEAN]

PublishedWhere(o) == o.published /\ o.active /\ ~o.banned /\ o.verified
DiscoverableWhere(o) == o.active /\ ~o.banned /\ o.verified /\ o.published
Bookable(o) == o.published /\ o.verified
HasSlots(o) == o.published /\ o.verified
Screenable(o) == o.published /\ o.active /\ ~o.banned
Reviewed(o) == o.active /\ ~o.banned

\* What is on show can be acted on.  Not the other way round: a suspended
\* Advisor's Service is off the lists and can still be booked by its id.
ASSUME ShownCanBeActedOn ==
  \A o \in Standing :
    PublishedWhere(o) => DiscoverableWhere(o) /\ Bookable(o) /\ HasSlots(o) /\ Screenable(o) /\ Reviewed(o)

----------------------------------------------------------------------------
(* What a statement sees.                                                  *)

Existing == {i \in Rows : rows[i].is # "absent"}
Least(m, n) == IF m < n THEN m ELSE n

Before(i, j) ==
  LET same == rows[i].at = rows[j].at \/ list.order = "id"
  IN \/ list.order = "oldest" /\ rows[i].at < rows[j].at
     \/ list.order = "newest" /\ rows[i].at > rows[j].at
     \/ same /\ list.ties = "asc" /\ i < j
     \/ same /\ list.ties = "desc" /\ i > j

Tied(i) == \E j \in Existing \ {i} : ~Before(i, j) /\ ~Before(j, i)

\* The rows an ORDER BY may put first: where it leaves ties, any of them.
Foremost(set, n) ==
  {s \in SUBSET set : /\ Cardinality(s) = Least(n, Cardinality(set))
                      /\ \A i \in s, j \in set \ s : ~Before(j, i)}

Candidates == IF list.scanned THEN UNION Foremost(Existing, ScanLimit) ELSE Existing
Listed == {i \in Candidates : rows[i].is = "shown"}

\* Variant: the base table is counted alone, without the joins and the filter.
CountedAlone == Cardinality(Candidates)

\* What count() selects, over the joins and the filter of the page.
Counted == Cardinality(Listed)

\* Variant: pages counted from zero.
OffsetPast(page) == page * PageLimit

Offset(page) == (page - 1) * PageLimit

TotalPages(total) == (total + PageLimit - 1) \div PageLimit

Page(page) ==
  UNION {{to \ from : to \in {t \in Foremost(Listed, Offset(page) + PageLimit) : from \subseteq t}} :
           from \in Foremost(Listed, Offset(page))}

----------------------------------------------------------------------------
(* The reader: page after page while there are more (paginateQuery()).     *)

NoVisit == [page |-> 0, read |-> {}, items |-> {}, total |-> 0, seen |-> {}, twice |-> {},
            stayed |-> {}, missable |-> {}, repeatable |-> {}, left |-> FALSE,
            changes |-> 0, empty |-> FALSE, done |-> TRUE]

Open(l) ==
  /\ list = NoList
  /\ list' = l
  /\ UNCHANGED <<rows, visit>>

Visit ==
  /\ list # NoList /\ visit.done
  /\ visit' = [NoVisit EXCEPT !.page = 1, !.stayed = Listed, !.done = FALSE]
  /\ UNCHANGED <<list, rows>>

\* The two statements of a page, in either order; the days' search is one.
Find ==
  /\ ~visit.done /\ "find" \notin visit.read
  /\ \E items \in Page(visit.page) :
       LET ties == {i \in Listed : Tied(i)}
           found == [visit EXCEPT !.items = items,
                                  !.missable = @ \cup ties, !.repeatable = @ \cup ties]
       IN visit' = IF list.scanned
                   THEN [found EXCEPT !.read = {"find", "count"}, !.total = Counted]
                   ELSE [found EXCEPT !.read = @ \cup {"find"}]
  /\ UNCHANGED <<list, rows>>

Count ==
  /\ ~visit.done /\ "count" \notin visit.read /\ ~list.scanned
  /\ visit' = [visit EXCEPT !.read = @ \cup {"count"}, !.total = Counted]
  /\ UNCHANGED <<list, rows>>

Turn ==
  /\ visit.read = {"find", "count"}
  /\ LET more == visit.page < TotalPages(visit.total)
     IN visit' = [visit EXCEPT !.seen = @ \cup visit.items,
                               !.twice = @ \cup (visit.seen \cap visit.items),
                               !.empty = @ \/ (visit.page > 1 /\ visit.items = {}),
                               !.items = {}, !.read = {}, !.total = 0,
                               !.page = IF more THEN @ + 1 ELSE @,
                               !.done = ~more]
  /\ UNCHANGED <<list, rows>>

----------------------------------------------------------------------------
(* The writers: a row is stored, or changes as the list lets it.           *)

Behind(set) == {j \in Listed : \E i \in set \ {j} : ~Before(j, i)}

\* What a reader under way may miss or meet again because of this step.
Watched ==
  LET moved == {i \in Listed \cap Listed' : rows'[i].at # rows[i].at}
      gone == (Listed \ Listed') \cup moved
      came == (Listed' \ Listed) \cup moved
      pushed == {j \in Listed' : \E i \in came \ {j} : ~(Before(j, i)')}
      late == "count" \in visit.read /\ "find" \notin visit.read
  IN [visit EXCEPT !.stayed = @ \ gone,
                   !.missable = @ \cup Behind(gone) \cup (IF late THEN pushed ELSE {}),
                   !.repeatable = @ \cup came \cup pushed,
                   !.left = @ \/ Listed \ Listed' # {},
                   !.changes = @ + 1]

Becomes(i, is, at) ==
  /\ list # NoList
  /\ visit.done \/ visit.changes < MaxChanges
  /\ rows' = [rows EXCEPT ![i] = [is |-> is, at |-> at]]
  /\ UNCHANGED list
  /\ visit' = IF visit.done THEN NoVisit ELSE Watched

Insert(i) ==
  /\ rows[i].is = "absent"
  /\ \E is \in {"shown", "hidden"}, at \in Stamps : Becomes(i, is, at)

Leave(i) ==
  /\ rows[i].is = "shown" /\ "leave" \in list.changes
  /\ \E is \in {"absent", "hidden"} : Becomes(i, is, rows[i].at)

Enter(i) ==
  /\ rows[i].is = "hidden" /\ "enter" \in list.changes
  /\ Becomes(i, "shown", rows[i].at)

Move(i) ==
  /\ rows[i].is = "shown" /\ "move" \in list.changes
  /\ \E at \in Stamps \ {rows[i].at} : Becomes(i, "shown", at)

----------------------------------------------------------------------------
ListInit ==
  /\ list = NoList
  /\ rows \in [Rows -> {[is |-> "absent", at |-> 0]}]
  /\ visit = NoVisit

ListNext ==
  \/ \E l \in Lists : Open(l)
  \/ Visit \/ Find \/ Count \/ Turn
  \/ \E i \in Rows : Insert(i) \/ Leave(i) \/ Enter(i) \/ Move(i)

ListSpec == ListInit /\ [][ListNext]_listVars

ASSUME ListingsAssumption ==
  /\ Rows \subseteq Nat /\ Stamps \subseteq Nat /\ IsFiniteSet(Rows)
  /\ PageLimit \in Nat \ {0} /\ ScanLimit \in Nat \ {0} /\ MaxChanges \in Nat

----------------------------------------------------------------------------
\* The types of the state.
ListTypeOK ==
  /\ list \in Lists \cup {NoList}
  /\ rows \in [Rows -> [is : {"absent", "shown", "hidden"}, at : Stamps \cup {0}]]
  /\ visit.page \in Nat /\ visit.total \in 0..Cardinality(Rows)
  /\ visit.read \subseteq {"find", "count"}
  /\ \A f \in {"items", "seen", "twice", "stayed", "missable", "repeatable"} : visit[f] \subseteq Rows

\* Who turns the pages of a list to its end has seen every row that stayed in
\* its place, except rows behind one that left or tied with another, and has
\* met none twice, except rows that came or were pushed on by one that came.
ShownOnce ==
  visit.done => /\ visit.stayed \ visit.seen \subseteq visit.missable
                /\ visit.twice \subseteq visit.repeatable

\* advisor-services.repository.ts:242-243 and identity-verification.repository.ts:
\* 72-75: a count that keeps what the page drops makes "the last page" empty.  A
\* page the total promised has rows, unless rows left meanwhile.
PromisedPagesHaveRows == visit.empty => visit.left

\* "so an Advisor who has waited longest is at the top and paging is stable"
\* (identity-verification.repository.ts:51-52; skill-proofs.repository.ts:51-52).
\* It fails even while nothing is submitted: a ruling between two pages takes a
\* row from the front, and the next page begins one row too late.
PagingIsStable ==
  visit.done /\ list \in IdentityQueue \cup SkillProofQueue /\ visit.repeatable = {}
    => visit.stayed \subseteq visit.seen

\* "every service matching the other filters is checked ... so the total and the
\* last page stay true" (advisor-services.service.ts:115-118).  It fails: a
\* Service behind the first ScanLimit is never checked.
EveryMatchIsShown ==
  visit.done /\ visit.page > 0 /\ visit.changes = 0 /\ list.scanned
    => {i \in Rows : rows[i].is = "shown"} \subseteq visit.seen
=============================================================================
