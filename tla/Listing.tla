------------------------------ MODULE Listing ------------------------------
(***************************************************************************)
(* A client pages through a list while the list changes: GET on orders,    *)
(* customers, users, the audit log and notifications (their paginate       *)
(* methods, and common/dto/pagination.dto.ts).                             *)
(*                                                                         *)
(* A list is the rows its where clause admits: a row enters when it is     *)
(* created or a filtered column of it changes, leaves in the same two      *)
(* ways, and moves when the column the list is sorted by changes.  That    *)
(* column is any the client names, and rows with one value come in any     *)
(* order, another for each query.  A page is two statements, the rows and  *)
(* their number, between which others run.  The rows of the users come and *)
(* go as well, though no user is added or removed: a PATCH of a name moves *)
(* one in or out of a search.  The client follows hasNextPage and asks     *)
(* again for a page it got no answer for.                                  *)
(***************************************************************************)
EXTENDS Integers, FiniteSets

CONSTANTS
    Rows,      \* the rows that may be in the list
    Values,    \* of the column it is sorted by, in the order asked for
    Limits     \* page sizes

ASSUME ListingConstants ==
    /\ IsFiniteSet(Rows)
    /\ Values \subseteq Int
    /\ Limits \subseteq Nat \ {0}

VARIABLES
    lists,           \* which list: "users", or one read in a transaction
    value,           \* the column it is sorted by, of each of its rows
    phase,           \* of the client: "page", "done"
    limit, page,     \* the query
    asked,           \* the statements of this page that were answered
    found, total,    \* ... and their results
    seen, twice,     \* history: rows on the pages received, rows on several of them
    start,           \* history: rows that kept their place since the first page
    tied,            \* history: rows that had the value of another one meanwhile
    grown, shrunk,   \* history: has a row entered or moved up, left or moved down
    hidden           \* history: has one entered after this page's count, before its rows

list == <<lists, value>>
query == <<limit, page, asked, found, total>>
history == <<seen, twice, start, tied, grown, shrunk, hidden>>
vars == <<list, phase, query, history>>

Statements == {"find", "count"}

rows == DOMAIN value

\* Rows that are not alone with their value v.
Ties(v) == {r \in DOMAIN v : \E q \in DOMAIN v \ {r} : v[q] = v[r]}

Init ==
    /\ lists \in {"users", "orders"}
    /\ \E s \in SUBSET Rows : value \in [s -> Values]
    /\ phase = "page"
    /\ limit \in Limits /\ page = 1 /\ asked = {} /\ found = {} /\ total = 0
    /\ seen = {} /\ twice = {} /\ start = rows /\ tied = Ties(value)
    /\ grown = FALSE /\ shrunk = FALSE /\ hidden = FALSE

-----------------------------------------------------------------------------
\* The getter of PaginationQueryDto.
Skip == (page - 1) * limit

\* buildPaginationMeta (mutants: an empty list has no page; the last page has a next).
TotalPages_MaybeNone(n) == (n + limit - 1) \div limit
TotalPages(n) == IF n = 0 THEN 1 ELSE (n + limit - 1) \div limit

HasNextPage_Last == page <= TotalPages(total)
HasNextPage == page < TotalPages(total)

\* How many of the positions from a up to b are in the page.
InPage(a, b) ==
    LET from == IF a > Skip THEN a ELSE Skip
        to == IF b < Skip + limit THEN b ELSE Skip + limit
    IN  IF to > from THEN to - from ELSE 0

\* What findMany may return: of the rows with one value, which take adjacent
\* positions, as many as the page has of these, whichever they are.
IsPage(s) ==
    \A v \in Values :
        LET before == Cardinality({r \in rows : value[r] < v})
            group == {r \in rows : value[r] = v}
        IN  Cardinality(s \cap group) = InPage(before, before + Cardinality(group))

\* May the statement run now?  An array given to $transaction runs in its order, find
\* before count (mutant: after it); Promise.all of the users has none.
Turn_CountFirst(s) == lists = "users" \/ s = "count" \/ "count" \in asked
Turn(s) == lists = "users" \/ s = "find" \/ "find" \in asked

-----------------------------------------------------------------------------
Waits(s) == phase = "page" /\ s \notin asked /\ Turn(s)

Find ==
    /\ Waits("find")
    /\ \E s \in SUBSET rows : IsPage(s) /\ found' = s
    /\ asked' = asked \cup {"find"}
    /\ UNCHANGED <<list, phase, limit, page, total, history>>

Count ==
    /\ Waits("count")
    /\ total' = Cardinality(rows)
    /\ asked' = asked \cup {"count"}
    /\ UNCHANGED <<list, phase, limit, page, found, history>>

\* The page arrives, and the client goes on if there is another.
Deliver ==
    /\ phase = "page" /\ asked = Statements
    /\ seen' = seen \cup found
    /\ twice' = twice \cup (seen \cap found)
    /\ IF HasNextPage
       THEN page' = page + 1 /\ hidden' = FALSE /\ UNCHANGED phase
       ELSE phase' = "done" /\ UNCHANGED <<page, hidden>>
    /\ asked' = {} /\ found' = {} /\ total' = 0
    /\ UNCHANGED <<list, limit, start, tied, grown, shrunk>>

\* A statement fails or the reply is lost: the client asks for the page again.
Fail ==
    /\ phase = "page" /\ asked # {}
    /\ asked' = {} /\ found' = {} /\ total' = 0 /\ hidden' = FALSE
    /\ UNCHANGED <<list, phase, limit, page, seen, twice, start, tied, grown, shrunk>>

-----------------------------------------------------------------------------
\* The column changes: rows between the two places shift, one way or the other.
Move(r, v) ==
    /\ phase = "page" /\ r \in rows /\ v # value[r]
    /\ value' = [value EXCEPT ![r] = v]
    /\ tied' = tied \cup Ties(value')
    /\ start' = start \ {r}
    /\ grown' = (grown \/ v < value[r]) /\ shrunk' = (shrunk \/ v > value[r])
    /\ UNCHANGED <<lists, phase, query, seen, twice, hidden>>

Enter(r, v) ==
    /\ phase = "page" /\ r \notin rows
    /\ value' = [q \in rows \cup {r} |-> IF q = r THEN v ELSE value[q]]
    /\ tied' = tied \cup Ties(value')
    /\ grown' = TRUE
    /\ hidden' = (hidden \/ asked = {"count"})
    /\ UNCHANGED <<lists, phase, query, seen, twice, start, shrunk>>

Leave(r) ==
    /\ phase = "page" /\ r \in rows
    /\ value' = [q \in rows \ {r} |-> value[q]]
    /\ start' = start \ {r}
    /\ shrunk' = TRUE
    /\ UNCHANGED <<lists, phase, query, seen, twice, tied, grown, hidden>>

Next ==
    \/ Find \/ Count \/ Deliver \/ Fail
    \/ \E r \in Rows : Leave(r) \/ \E v \in Values : Enter(r, v) \/ Move(r, v)

Spec == Init /\ [][Next]_vars

-----------------------------------------------------------------------------
\* Every variable keeps its type; no page has more rows than asked for, and an empty
\* list has one page (pagination.dto.ts:61-71).
TypeOK ==
    /\ rows \subseteq Rows /\ value \in [rows -> Values]
    /\ phase \in {"page", "done"}
    /\ page \in 1..Cardinality(Rows) + 1 /\ limit \in Limits
    /\ asked \subseteq Statements /\ found \subseteq Rows
    /\ Cardinality(found) <= limit
    /\ total \in 0..Cardinality(Rows)
    /\ TotalPages(total) >= 1
    /\ seen \cup twice \cup start \cup tied \subseteq Rows
    /\ grown \in BOOLEAN /\ shrunk \in BOOLEAN /\ hidden \in BOOLEAN

\* The pages of a list that others change are read as one list, within limits: a row
\* that keeps its place from the first page to the last, alone with its value, is missed
\* only if another has left or moved down it meanwhile, and is on two pages only if
\* another has entered or moved up, retries or not.  The list of users, whose rows and
\* number are asked for together, may also lose its end when a user enters it between
\* the count and the rows of its last page; the transaction of the other lists, which
\* reads the rows before it counts them, excludes this (order.repository.ts:70-78,
\* user.repository.ts:70-78).
PagesCoverTheList ==
    /\ phase = "done" /\ ~shrunk /\ (lists = "users" => ~hidden) => start \ tied \subseteq seen
    /\ ~grown => (twice \cap start) \subseteq tied

\* hasNextPage offers no empty page: the page it leads to has rows, unless some have
\* left or moved meanwhile (pagination.dto.ts:62-68).
OfferedPagesHaveRows ==
    phase = "page" /\ page > 1 /\ "find" \in asked /\ ~shrunk => found # {}
=============================================================================
