--------------------------- MODULE ListingProofs ---------------------------
(***************************************************************************)
(* Proofs about Listing, for any rows, values and page sizes, and however  *)
(* often the list changes between and within its pages.                    *)
(***************************************************************************)
EXTENDS Listing, FiniteSetTheorems, WellFoundedInduction, TLAPS

\* The rows before row r, whatever comes first among its equals, and their number.
Before(r) == {q \in rows : value[q] < value[r]}
Place(r) == Cardinality(Before(r))

\* Rows that have kept their place and their value to themselves.
Steady(r) == r \in start \ tied

\* A user entered the list between this page's count and its rows.
Excused == lists = "users" /\ hidden

\* A steady row has not been skipped while nothing left or moved down: it is seen, or
\* still to come, and the count taken meanwhile knows of it, unless excused.
Awaited(r) ==
    /\ Skip <= Place(r)
    /\ "find" \in asked => r \in found \/ Skip + limit <= Place(r)
    /\ asked = Statements => r \in found \/ Skip + limit < total \/ Excused

\* A steady row that was seen lies behind while nothing came or moved up.
Passed(r) ==
    /\ r \in seen => Place(r) < Skip /\ r \notin found
    /\ r \in found => Place(r) < Skip + limit

ListInv ==
    /\ start \subseteq rows
    /\ Ties(value) \subseteq tied
    /\ "count" \in asked => "find" \in asked \/ lists = "users"
    /\ asked = {"count"} /\ ~shrunk /\ ~Excused => total = Cardinality(rows)
    /\ "count" \in asked /\ ~shrunk => total <= Cardinality(rows)
    /\ "find" \notin asked => found = {}
    /\ phase = "page" /\ page > 1 /\ ~shrunk => Skip < Cardinality(rows)

AwaitedInv ==
    phase = "page" /\ ~shrunk => \A r \in Rows : Steady(r) /\ r \notin seen => Awaited(r)

PassedInv ==
    phase = "page" /\ ~grown => \A r \in Rows : Steady(r) => Passed(r)

IInv == TypeOK /\ ListInv /\ AwaitedInv /\ PassedInv /\ PagesCoverTheList /\ OfferedPagesHaveRows

-----------------------------------------------------------------------------
\* Among sets of parts of a finite set there is a least one: the form in which induction
\* over finite sets is used here.
LEMMA LeastSet ==
    ASSUME NEW S, IsFiniteSet(S), NEW T \in SUBSET (SUBSET S), T # {}
    PROVE  \E x \in T : \A y \in T : y \subseteq x => y = x
<1>1. IsWellFoundedOn(StrictSubsetOrdering(S), FiniteSubsetsOf(S))
  BY FS_StrictSubsetOrderingWellFounded
<1>2. T \subseteq FiniteSubsetsOf(S)
  BY FS_Subset DEF FiniteSubsetsOf
<1>3. \E x \in T : \A y \in T : <<y, x>> \notin StrictSubsetOrdering(S)
  BY <1>1, <1>2, WFMin
<1> QED
  BY <1>3 DEF StrictSubsetOrdering

\* Of some rows one is last.
LEMMA LastRow ==
    ASSUME TypeOK, NEW D \in SUBSET rows, D # {}
    PROVE  \E r \in D : \A q \in D : value[q] <= value[r]
<1> DEFINE Above(r) == {q \in D : value[r] <= value[q]}
           T == {U \in SUBSET Rows : \E r \in D : U = Above(r)}
<1>1. D \subseteq Rows /\ \A q \in D : value[q] \in Int
  BY ListingConstants DEF TypeOK
<1>2. \A r \in D : Above(r) \in T
  BY <1>1
<1>3. T # {} /\ T \in SUBSET (SUBSET Rows)
  BY <1>2
<1> HIDE DEF T
<1>4. PICK U \in T : \A y \in T : y \subseteq U => y = U
  BY <1>3, LeastSet, ListingConstants
<1>5. PICK r \in D : U = Above(r)
  BY <1>4 DEF T
<1>6. \A q \in D : value[r] <= value[q] => value[q] <= value[r]
  <2> SUFFICES ASSUME NEW q \in D, value[r] <= value[q] PROVE value[q] <= value[r]
    OBVIOUS
  <2>1. Above(q) \subseteq Above(r)
    BY <1>1
  <2>2. Above(q) = Above(r)
    BY <1>2, <1>4, <1>5, <2>1
  <2>3. r \in Above(r)
    BY <1>1
  <2> QED
    BY <2>2, <2>3
<1> QED
  BY <1>1, <1>6

\* Skip and a page further.
LEMMA Skips ==
    ASSUME TypeOK
    PROVE  /\ Skip \in Nat /\ limit \in Nat /\ limit > 0 /\ page \in Nat /\ page > 0
           /\ Skip + limit = page * limit
<1>1. limit \in Nat /\ limit > 0 /\ page \in Nat /\ page > 0
  BY ListingConstants, FS_CardinalityType DEF TypeOK
<1>2. (page - 1) * limit \in Nat /\ (page - 1) * limit + limit = page * limit
  BY <1>1
<1> QED
  BY <1>1, <1>2 DEF Skip

LEMMA RowsFinite ==
    ASSUME TypeOK
    PROVE  /\ \A D : D \subseteq rows => IsFiniteSet(D) /\ Cardinality(D) \in Nat
           /\ \A D, E : D \subseteq E /\ E \subseteq rows => Cardinality(D) <= Cardinality(E)
<1>1. IsFiniteSet(Rows) /\ rows \subseteq Rows
  BY ListingConstants DEF TypeOK
<1>2. \A D : D \subseteq rows => IsFiniteSet(D) /\ Cardinality(D) \in Nat
  BY <1>1, FS_Subset, FS_CardinalityType
<1> QED
  BY <1>2, FS_Subset

\* Of a beginning of the list, a page has what of its positions falls within: by
\* induction over the beginnings, each but for its last group a beginning.
LEMMA PageOfBeginning ==
    ASSUME TypeOK, NEW s \in SUBSET rows, IsPage(s), NEW D \in SUBSET rows,
           \A r \in D : \A q \in rows : value[q] <= value[r] => q \in D
    PROVE  Cardinality(s \cap D) = InPage(0, Cardinality(D))
<1> DEFINE Begins(E) == \A r \in E : \A q \in rows : value[q] <= value[r] => q \in E
           T == {E \in SUBSET rows : Begins(E) /\ Cardinality(s \cap E) # InPage(0, Cardinality(E))}
<1> SUFFICES ASSUME T # {} PROVE FALSE
  OBVIOUS
<1>1. IsFiniteSet(rows) /\ \A q \in rows : value[q] \in Int /\ value[q] \in Values
  BY RowsFinite, ListingConstants DEF TypeOK
<1>2. PICK E \in T : \A y \in T : y \subseteq E => y = E
  <2>1. T \in SUBSET (SUBSET rows)
    OBVIOUS
  <2> HIDE DEF T
  <2> QED
    BY <1>1, <2>1, LeastSet
<1>3. E \in SUBSET rows /\ Begins(E) /\ Cardinality(s \cap E) # InPage(0, Cardinality(E))
  OBVIOUS
<1>4. E # {}
  <2>1. InPage(0, 0) = 0
    BY Skips DEF InPage
  <2> QED
    BY <1>3, <2>1, FS_EmptySet
<1>5. PICK r \in E : \A q \in E : value[q] <= value[r]
  BY <1>3, <1>4, LastRow
<1> DEFINE v == value[r]
           F == {q \in rows : value[q] < v}
           G == {q \in rows : value[q] = v}
<1>6. F \subseteq E /\ G \subseteq E /\ E = F \cup G /\ F \cap G = {} /\ r \in G /\ r \notin F
  BY <1>1, <1>3, <1>5
<1>7. Begins(F) /\ F \in SUBSET rows
  BY <1>1
<1>8. Cardinality(s \cap F) = InPage(0, Cardinality(F))
  BY <1>2, <1>6, <1>7
<1>9. Cardinality(s \cap G) = InPage(Cardinality(F), Cardinality(F) + Cardinality(G))
  BY <1>1, <1>3 DEF IsPage
<1>10. Cardinality(E) = Cardinality(F) + Cardinality(G)
  <2>1. IsFiniteSet(F) /\ IsFiniteSet(G) /\ Cardinality(F) \in Nat /\ Cardinality(G) \in Nat
    BY RowsFinite
  <2>2. Cardinality(F \cup G) = Cardinality(F) + Cardinality(G) - Cardinality(F \cap G)
    BY <2>1, FS_Union
  <2> HIDE DEF F, G
  <2>3. Cardinality(F \cap G) = 0
    BY <1>6, FS_EmptySet
  <2> QED
    BY <1>6, <2>1, <2>2, <2>3
<1>11. Cardinality(s \cap E) = Cardinality(s \cap F) + Cardinality(s \cap G)
  <2> DEFINE a == s \cap F
             b == s \cap G
  <2>1. IsFiniteSet(a) /\ IsFiniteSet(b) /\ Cardinality(a) \in Nat /\ Cardinality(b) \in Nat
    BY RowsFinite
  <2>2. a \cup b = s \cap E /\ a \cap b = {}
    BY <1>6
  <2> HIDE DEF a, b
  <2>3. Cardinality(a \cup b) = Cardinality(a) + Cardinality(b) - Cardinality(a \cap b)
    BY <2>1, FS_Union
  <2>4. Cardinality(a \cap b) = 0
    BY <2>2, FS_EmptySet
  <2>5. Cardinality(s \cap E) = Cardinality(a \cup b)
    BY <2>2, Zenon
  <2>6. Cardinality(s \cap E) = Cardinality(a) + Cardinality(b)
    BY <2>1, <2>3, <2>4, <2>5
  <2> QED
    BY <2>6 DEF a, b
<1>12. Cardinality(F) \in Nat /\ Cardinality(G) \in Nat
  BY RowsFinite
<1>13. \A a, b \in Nat : InPage(0, a) + InPage(a, a + b) = InPage(0, a + b)
  BY Skips DEF InPage
<1> QED
  BY <1>3, <1>8, <1>9, <1>10, <1>11, <1>12, <1>13

\* A page has as many rows as there are, from Skip on and up to the limit.
LEMMA PageSize ==
    ASSUME TypeOK, NEW s \in SUBSET rows, IsPage(s)
    PROVE  Cardinality(s) <= limit /\ (Skip < Cardinality(rows) => s # {})
<1>1. Cardinality(s \cap rows) = InPage(0, Cardinality(rows)) /\ s \cap rows = s
  BY PageOfBeginning
<1>2. Cardinality(rows) \in Nat
  BY RowsFinite
<1>3. InPage(0, Cardinality(rows)) <= limit
  BY <1>2, Skips DEF InPage
<1>4. Skip < Cardinality(rows) => InPage(0, Cardinality(rows)) > 0
  BY <1>2, Skips DEF InPage
<1> QED
  BY <1>1, <1>3, <1>4, FS_EmptySet

\* A row that is alone with its value is on the page of its place.
LEMMA PageOfOne ==
    ASSUME TypeOK, NEW s \in SUBSET rows, IsPage(s), NEW r \in rows, r \notin Ties(value)
    PROVE  r \in s <=> Skip <= Place(r) /\ Place(r) < Skip + limit
<1> DEFINE G == {q \in rows : value[q] = value[r]}
<1>1. G = {r}
  BY DEF Ties, rows
<1>2. value[r] \in Values
  BY DEF TypeOK
<1>3. Cardinality(s \cap G) = InPage(Place(r), Place(r) + Cardinality(G))
  BY <1>2 DEF IsPage, Place, Before
<1>4. Place(r) \in Nat
  BY RowsFinite DEF Place, Before
<1>5. Cardinality(s \cap {r}) = InPage(Place(r), Place(r) + 1)
  BY <1>1, <1>3, FS_Singleton
<1>6. InPage(Place(r), Place(r) + 1) = IF Skip <= Place(r) /\ Place(r) < Skip + limit THEN 1 ELSE 0
  BY <1>4, Skips DEF InPage
<1>7. Cardinality(s \cap {r}) = IF r \in s THEN 1 ELSE 0
  <2>1. CASE r \in s
    <3>1. s \cap {r} = {r}
      BY <2>1
    <3> QED
      BY <2>1, <3>1, FS_Singleton
  <2>2. CASE r \notin s
    <3>1. s \cap {r} = {}
      BY <2>2
    <3> QED
      BY <2>2, <3>1, FS_EmptySet
  <2> QED
    BY <2>1, <2>2
<1> QED
  BY <1>5, <1>6, <1>7

\* buildPaginationMeta: there is a next page if and only if rows are left for it.
LEMMA NextPage ==
    ASSUME TypeOK, NEW n \in Nat
    PROVE  /\ page < TotalPages(n) <=> Skip + limit < n
           /\ TotalPages(n) >= 1
<1>1. limit \in Nat /\ limit > 0 /\ page \in Nat /\ page > 0 /\ Skip + limit = page * limit
  BY Skips
<1> DEFINE k == (n + limit - 1) \div limit
<1>2. k \in Int /\ limit * k <= n + limit - 1 /\ n + limit - 1 < limit * k + limit
  BY <1>1
<1> HIDE DEF k
<1>3. page < k => page * limit < n
  <2>1. page < k => limit * (page + 1) <= limit * k
    BY <1>1, <1>2
  <2> QED
    BY <1>1, <1>2, <2>1
<1>4. page * limit < n => page < k
  <2>1. k <= page => limit * k <= limit * page
    BY <1>1, <1>2
  <2> QED
    BY <1>1, <1>2, <2>1
<1>5. n > 0 => k >= 1
  <2>1. k <= 0 => limit * k <= 0
    BY <1>1, <1>2
  <2> QED
    BY <1>1, <1>2, <2>1
<1>6. page * limit >= 1
  BY <1>1
<1> QED
  BY <1>1, <1>3, <1>4, <1>5, <1>6 DEF TotalPages, k

LEMMA PlaceInList ==
    ASSUME TypeOK, NEW r \in rows
    PROVE  Place(r) \in Nat /\ Place(r) < Cardinality(rows)
<1>1. Before(r) \subseteq rows /\ r \notin Before(r) /\ IsFiniteSet(rows)
  <2>1. value[r] \in Int
    BY ListingConstants DEF TypeOK
  <2> QED
    BY <2>1, RowsFinite DEF Before
<1>2. Cardinality(Before(r)) # Cardinality(rows)
  BY <1>1, FS_Subset
<1> QED
  BY <1>1, <1>2, RowsFinite DEF Place

-----------------------------------------------------------------------------
LEMMA InitInv == Init => IInv
<1> SUFFICES ASSUME Init PROVE IInv
  OBVIOUS
<1>1. rows \subseteq Rows /\ value \in [rows -> Values]
  BY DEF Init, rows
<1>2. IsFiniteSet(Rows) /\ Cardinality(Rows) \in Nat /\ limit \in Nat /\ limit > 0
  BY ListingConstants, FS_CardinalityType DEF Init
<1>3. TypeOK
  <2>1. Cardinality({}) <= limit /\ TotalPages(total) >= 1
    BY <1>2, FS_EmptySet DEF Init, TotalPages
  <2>2. seen \cup twice \cup start \cup tied \subseteq Rows
    BY <1>1 DEF Init, Ties, rows
  <2>3. page \in 1..Cardinality(Rows) + 1 /\ total \in 0..Cardinality(Rows)
    BY <1>2 DEF Init
  <2> QED
    BY <1>1, <2>1, <2>2, <2>3 DEF Init, TypeOK
<1>4. ListInv /\ PassedInv /\ PagesCoverTheList /\ OfferedPagesHaveRows
  BY DEF Init, ListInv, PassedInv, Passed, PagesCoverTheList, OfferedPagesHaveRows, Excused
<1>5. AwaitedInv
  <2>1. \A r \in rows : Place(r) \in Nat
    BY <1>3, PlaceInList
  <2>2. Skip = 0
    BY <1>2 DEF Init, Skip
  <2> QED
    BY <2>1, <2>2 DEF Init, AwaitedInv, Awaited, Steady, Statements
<1> QED
  BY <1>3, <1>4, <1>5 DEF IInv

LEMMA FindInv == IInv /\ Find => IInv'
<1> SUFFICES ASSUME IInv, Find PROVE IInv'
  OBVIOUS
<1>1. TypeOK /\ ListInv /\ AwaitedInv /\ PassedInv /\ PagesCoverTheList
  BY DEF IInv
<1>2. PICK s \in SUBSET rows : IsPage(s) /\ found' = s
  BY DEF Find
<1>3. /\ phase = "page" /\ asked' = asked \cup {"find"}
      /\ lists' = lists /\ value' = value /\ phase' = phase /\ limit' = limit /\ page' = page
      /\ total' = total /\ UNCHANGED history
  BY DEF Find, Waits, list
<1>4. Cardinality(s) <= limit /\ (Skip < Cardinality(rows) => s # {})
  BY <1>1, <1>2, PageSize
<1>5. rows' = rows /\ Skip' = Skip /\ \A r : Place(r)' = Place(r)
  BY <1>3 DEF rows, Skip, Place, Before
<1>6. TypeOK'
  BY <1>1, <1>2, <1>3, <1>4, <1>5 DEF TypeOK, TotalPages, history, Statements
<1>7. ListInv'
  BY <1>1, <1>3, <1>5 DEF ListInv, Excused, history
<1>8. \A r \in start \ tied : /\ r \in Rows /\ r \in rows
                              /\ r \in s <=> Skip <= Place(r) /\ Place(r) < Skip + limit
  <2>1. \A r \in start \ tied : r \in rows /\ r \notin Ties(value)
    BY <1>1 DEF ListInv
  <2> QED
    BY <1>1, <1>2, <2>1, PageOfOne DEF TypeOK
<1>9. Skip \in Nat /\ limit \in Nat /\ \A r \in rows : Place(r) \in Nat /\ Place(r) < Cardinality(rows)
  BY <1>1, Skips, PlaceInList
<1>10. AwaitedInv'
  <2> SUFFICES ASSUME ~shrunk, NEW r \in Rows, r \in start \ tied, r \notin seen
               PROVE  /\ Skip <= Place(r)
                      /\ r \in s \/ Skip + limit <= Place(r)
                      /\ asked' = Statements => r \in s \/ Skip + limit < total \/ Excused
    BY <1>2, <1>3, <1>5 DEF AwaitedInv, Awaited, Steady, Excused, history
  <2>1. Skip <= Place(r)
    BY <1>1, <1>3 DEF AwaitedInv, Awaited, Steady
  <2>2. r \in s \/ Skip + limit <= Place(r)
    BY <1>8, <1>9, <2>1
  <2>3. asked' = Statements => asked = {"count"}
    BY <1>1, <1>3 DEF Statements, Find, Waits, TypeOK
  <2>4. asked' = Statements => total = Cardinality(rows) \/ Excused
    BY <1>1, <2>3 DEF ListInv
  <2>5. Cardinality(rows) \in Nat
    BY <1>1, RowsFinite
  <2> QED
    BY <1>8, <1>9, <2>1, <2>2, <2>4, <2>5
<1>11. PassedInv'
  <2> SUFFICES ASSUME ~grown, NEW r \in Rows, r \in start \ tied
               PROVE  /\ r \in seen => Place(r) < Skip /\ r \notin s
                      /\ r \in s => Place(r) < Skip + limit
    BY <1>2, <1>3, <1>5 DEF PassedInv, Passed, Steady, history
  <2>1. r \in seen => Place(r) < Skip
    BY <1>1, <1>3 DEF PassedInv, Passed, Steady
  <2> QED
    BY <1>8, <1>9, <2>1
<1>12. PagesCoverTheList'
  BY <1>1, <1>3 DEF PagesCoverTheList, history
<1>13. OfferedPagesHaveRows'
  BY <1>1, <1>2, <1>3, <1>4 DEF OfferedPagesHaveRows, ListInv, history
<1> QED
  BY <1>6, <1>7, <1>10, <1>11, <1>12, <1>13 DEF IInv

LEMMA CountInv == IInv /\ Count => IInv'
<1> SUFFICES ASSUME IInv, Count PROVE IInv'
  OBVIOUS
<1>1. TypeOK /\ ListInv /\ AwaitedInv /\ PassedInv /\ PagesCoverTheList /\ OfferedPagesHaveRows
  BY DEF IInv
<1>2. /\ phase = "page" /\ asked' = asked \cup {"count"} /\ Turn("count")
      /\ lists' = lists /\ value' = value /\ phase' = phase /\ limit' = limit /\ page' = page
      /\ total' = Cardinality(rows) /\ found' = found /\ UNCHANGED history
  BY DEF Count, Waits, list
<1>3. rows' = rows /\ Skip' = Skip /\ \A r : Place(r)' = Place(r)
  BY <1>2 DEF rows, Skip, Place, Before
<1>4. Cardinality(rows) \in 0..Cardinality(Rows) /\ TotalPages(Cardinality(rows)) >= 1
  <2>1. Cardinality(rows) \in Nat
    BY <1>1, RowsFinite
  <2>2. Cardinality(rows) <= Cardinality(Rows) /\ Cardinality(Rows) \in Nat
    BY <1>1, ListingConstants, FS_Subset, FS_CardinalityType DEF TypeOK
  <2> QED
    BY <1>1, <2>1, <2>2, NextPage
<1>5. TypeOK'
  <2>1. TotalPages(total)' = TotalPages(Cardinality(rows))
    BY <1>2 DEF TotalPages
  <2> QED
    BY <1>1, <1>2, <1>3, <1>4, <2>1 DEF TypeOK, history, Statements
<1>6. ListInv'
  BY <1>1, <1>2, <1>3, <1>4 DEF ListInv, history, Turn, Excused
<1>7. AwaitedInv'
  <2> SUFFICES ASSUME ~shrunk, NEW r \in Rows, r \in start \ tied, r \notin seen
               PROVE  /\ Skip <= Place(r)
                      /\ "find" \in asked => r \in found \/ Skip + limit <= Place(r)
                      /\ asked' = Statements => r \in found \/ Skip + limit < Cardinality(rows)
    BY <1>2, <1>3 DEF AwaitedInv, Awaited, Steady, history
  <2>1. Awaited(r)
    BY <1>1, <1>2 DEF AwaitedInv, Steady
  <2>2. asked' = Statements => "find" \in asked
    BY <1>2 DEF Statements
  <2>3. Skip \in Nat /\ limit \in Nat /\ Cardinality(rows) \in Nat
    BY <1>1, Skips, RowsFinite
  <2>4. Place(r) \in Nat /\ Place(r) < Cardinality(rows)
    BY <1>1, PlaceInList DEF ListInv
  <2> QED
    BY <2>1, <2>2, <2>3, <2>4 DEF Awaited
<1>8. PassedInv'
  BY <1>1, <1>2, <1>3 DEF PassedInv, Passed, Steady, history
<1>9. PagesCoverTheList' /\ OfferedPagesHaveRows'
  BY <1>1, <1>2 DEF PagesCoverTheList, OfferedPagesHaveRows, history
<1> QED
  BY <1>5, <1>6, <1>7, <1>8, <1>9 DEF IInv

LEMMA FailInv == IInv /\ Fail => IInv'
<1> SUFFICES ASSUME IInv, Fail PROVE IInv'
  OBVIOUS
<1>1. TypeOK /\ ListInv /\ AwaitedInv /\ PassedInv /\ PagesCoverTheList /\ OfferedPagesHaveRows
  BY DEF IInv
<1>2. /\ phase = "page" /\ asked' = {} /\ found' = {} /\ total' = 0 /\ hidden' = FALSE
      /\ lists' = lists /\ value' = value /\ phase' = phase /\ limit' = limit /\ page' = page
      /\ UNCHANGED <<seen, twice, start, tied, grown, shrunk>>
  BY DEF Fail, list
<1>3. rows' = rows /\ Skip' = Skip /\ \A r : Place(r)' = Place(r)
  BY <1>2 DEF rows, Skip, Place, Before
<1>4. TypeOK'
  <2>1. Cardinality({}) <= limit /\ 0 \in 0..Cardinality(Rows)
    BY <1>1, Skips, ListingConstants, FS_EmptySet, FS_CardinalityType
  <2>2. TotalPages(total)' >= 1
    BY <1>2 DEF TotalPages
  <2> QED
    BY <1>1, <1>2, <1>3, <2>1, <2>2 DEF TypeOK
<1>5. ListInv'
  BY <1>1, <1>2, <1>3 DEF ListInv
<1>6. AwaitedInv'
  BY <1>1, <1>2, <1>3 DEF AwaitedInv, Awaited, Steady, Statements
<1>7. PassedInv'
  BY <1>1, <1>2, <1>3 DEF PassedInv, Passed, Steady
<1>8. PagesCoverTheList' /\ OfferedPagesHaveRows'
  BY <1>1, <1>2 DEF PagesCoverTheList, OfferedPagesHaveRows
<1> QED
  BY <1>4, <1>5, <1>6, <1>7, <1>8 DEF IInv

LEMMA DeliverInv == IInv /\ Deliver => IInv'
<1> SUFFICES ASSUME IInv, Deliver PROVE IInv'
  OBVIOUS
<1>1. TypeOK /\ ListInv /\ AwaitedInv /\ PassedInv /\ PagesCoverTheList
  BY DEF IInv
<1>2. /\ phase = "page" /\ asked = Statements /\ asked' = {} /\ found' = {}
      /\ seen' = seen \cup found /\ twice' = twice \cup (seen \cap found)
      /\ lists' = lists /\ value' = value /\ limit' = limit /\ total' = 0
      /\ start' = start /\ tied' = tied /\ grown' = grown /\ shrunk' = shrunk
  BY DEF Deliver, list
<1>3. "find" \in asked /\ "count" \in asked
  BY <1>2 DEF Statements
<1>4. rows' = rows /\ \A r : Place(r)' = Place(r)
  BY <1>2 DEF rows, Place, Before
<1>5. /\ total \in Nat /\ Cardinality(Rows) \in Nat /\ total <= Cardinality(Rows)
      /\ Cardinality(rows) \in Nat
  BY <1>1, RowsFinite, ListingConstants, FS_CardinalityType DEF TypeOK
<1>6. HasNextPage <=> Skip + limit < total
  BY <1>1, <1>5, NextPage DEF HasNextPage
<1>7. Skip \in Nat /\ limit \in Nat /\ limit > 0 /\ page \in Nat /\ page > 0
  BY <1>1, Skips
<1>8. \A r \in start : r \in Rows /\ Place(r) \in Nat
  BY <1>1, PlaceInList DEF ListInv, TypeOK
<1>9. PagesCoverTheList' /\ TypeOK' /\ ListInv' /\ AwaitedInv' /\ PassedInv'
  <2>1. \/ HasNextPage /\ page' = page + 1 /\ phase' = phase /\ hidden' = FALSE
        \/ ~HasNextPage /\ phase' = "done" /\ page' = page /\ hidden' = hidden
    BY DEF Deliver
  <2>2. page' \in 1..Cardinality(Rows) + 1
    <3>1. Skip + limit = page * limit /\ page <= page * limit
      BY <1>1, <1>7, Skips
    <3> QED
      BY <1>1, <1>5, <1>6, <1>7, <2>1, <3>1 DEF TypeOK
  <2>3. TypeOK'
    <3>1. Cardinality({}) <= limit
      BY <1>7, FS_EmptySet
    <3>2. TotalPages(total)' >= 1 /\ total' \in 0..Cardinality(Rows) /\ hidden' \in BOOLEAN
      <4>1. TotalPages(total)' >= 1
        BY <1>2 DEF TotalPages
      <4>2. total' \in 0..Cardinality(Rows)
        BY <1>2, <1>5
      <4>3. hidden' \in BOOLEAN
        BY <1>1, <2>1 DEF TypeOK
      <4> QED
        BY <4>1, <4>2, <4>3
    <3>3. seen' \cup twice' \cup start' \cup tied' \subseteq Rows
      BY <1>1, <1>2 DEF TypeOK
    <3>4. phase' \in {"page", "done"}
      BY <1>2, <2>1
    <3> QED
      BY <1>1, <1>2, <1>4, <2>2, <3>1, <3>2, <3>3, <3>4 DEF TypeOK
  <2>4. CASE HasNextPage
    <3>1. phase' = "page" /\ Skip' = Skip + limit
      <4>1. Skip' = page * limit
        BY <1>2, <1>7, <2>1, <2>4 DEF Skip
      <4> QED
        BY <1>1, <1>2, <2>1, <2>4, <4>1, Skips
    <3>2. ListInv'
      <4>1. ~shrunk => Skip' < Cardinality(rows)
        BY <1>1, <1>3, <1>5, <1>6, <1>7, <2>4, <3>1 DEF ListInv
      <4> QED
        BY <1>1, <1>2, <1>4, <4>1 DEF ListInv
    <3>3. AwaitedInv'
      BY <1>1, <1>2, <1>3, <1>4, <3>1 DEF AwaitedInv, Awaited, Steady, Statements
    <3>4. PassedInv'
      <4> SUFFICES ASSUME ~grown, NEW r \in Rows, r \in start \ tied, r \in seen \cup found
                   PROVE  Place(r) < Skip + limit
        BY <1>2, <1>4, <3>1 DEF PassedInv, Passed, Steady
      <4>1. Passed(r)
        BY <1>1, <1>2 DEF PassedInv, Steady
      <4> QED
        BY <1>7, <1>8, <4>1 DEF Passed
    <3>5. PagesCoverTheList'
      BY <1>1, <1>2, <1>8, <3>1 DEF PagesCoverTheList, PassedInv, Passed, Steady
    <3> QED
      BY <2>3, <3>2, <3>3, <3>4, <3>5
  <2>5. CASE ~HasNextPage
    <3>1. phase' = "done"
      BY <2>1, <2>5
    <3>2. ListInv' /\ AwaitedInv' /\ PassedInv'
      BY <1>1, <1>2, <1>4, <3>1 DEF ListInv, AwaitedInv, PassedInv
    <3>3. ~shrunk /\ ~Excused => start \ tied \subseteq seen'
      <4> SUFFICES ASSUME ~shrunk, ~Excused, NEW r \in start, r \notin tied, r \notin seen, r \notin found
                   PROVE  FALSE
        BY <1>2
      <4>1. Awaited(r)
        BY <1>1, <1>2, <1>8 DEF AwaitedInv, Steady
      <4> QED
        BY <1>2, <1>6, <2>5, <4>1 DEF Awaited
    <3>4. ~grown => (twice' \cap start) \subseteq tied
      BY <1>1, <1>2, <1>8 DEF PagesCoverTheList, PassedInv, Passed, Steady
    <3> QED
      BY <1>2, <2>1, <2>3, <2>5, <3>2, <3>3, <3>4 DEF PagesCoverTheList, Excused
  <2> QED
    BY <2>4, <2>5
<1>10. OfferedPagesHaveRows'
  BY <1>2 DEF OfferedPagesHaveRows
<1> QED
  BY <1>9, <1>10 DEF IInv

-----------------------------------------------------------------------------
\* What a change of the list does to the places of its rows: until something left or
\* moved down they only grow, until something came or moved up they only shrink.
Shift ==
    /\ phase = "page" /\ lists' = lists /\ UNCHANGED phase /\ UNCHANGED query
    /\ seen' = seen /\ twice' = twice
    /\ rows' \subseteq Rows /\ value' \in [rows' -> Values]
    /\ asked = {"count"} /\ ~shrunk' /\ ~hidden' => rows' = rows
    /\ start' \subseteq start \cap rows'
    /\ tied \subseteq tied' /\ tied' \subseteq Rows /\ Ties(value') \subseteq tied'
    /\ grown' \in BOOLEAN /\ shrunk' \in BOOLEAN /\ hidden' \in BOOLEAN
    /\ grown => grown'
    /\ shrunk => shrunk'
    /\ hidden => hidden'
    /\ ~shrunk' => /\ Cardinality(rows) <= Cardinality(rows')
                   /\ \A q \in start' : Place(q) <= Place(q)'
    /\ ~grown' => \A q \in start' : Place(q)' <= Place(q)

LEMMA ShiftInv == IInv /\ Shift => IInv'
<1> SUFFICES ASSUME IInv, Shift PROVE IInv'
  OBVIOUS
<1>1. TypeOK /\ ListInv /\ AwaitedInv /\ PassedInv /\ PagesCoverTheList /\ OfferedPagesHaveRows
  BY DEF IInv
<1>2. /\ phase = "page" /\ phase' = phase /\ limit' = limit /\ page' = page /\ asked' = asked
      /\ found' = found /\ total' = total /\ lists' = lists /\ seen' = seen /\ twice' = twice
      /\ start' \subseteq start /\ tied \subseteq tied'
      /\ ~shrunk' => ~shrunk
      /\ ~grown' => ~grown
  BY DEF Shift, query
<1>3. Skip' = Skip
  BY <1>2 DEF Skip
<1>4. TypeOK'
  <2>1. seen' \cup twice' \cup start' \cup tied' \subseteq Rows
    BY <1>1, <1>2 DEF TypeOK, Shift
  <2>2. TotalPages(total)' = TotalPages(total)
    BY <1>2 DEF TotalPages
  <2> QED
    BY <1>1, <1>2, <2>1, <2>2 DEF TypeOK, Shift
<1>5. /\ Skip \in Nat /\ limit \in Nat
      /\ Cardinality(rows) \in Nat /\ Cardinality(rows') \in Nat
      /\ total \in Nat
      /\ \A r \in start' : r \in Rows /\ Place(r) \in Nat /\ Place(r)' \in Nat
  <2>1. Cardinality(rows') \in Nat
    BY ListingConstants, FS_Subset, FS_CardinalityType DEF Shift
  <2>2. \A r \in rows' : Place(r)' \in Nat
    <3> SUFFICES ASSUME NEW r \in rows' PROVE Cardinality(Before(r)') \in Nat
      BY DEF Place
    <3>1. Before(r)' \subseteq Rows
      BY DEF Before, Shift
    <3> QED
      BY <3>1, ListingConstants, FS_Subset, FS_CardinalityType
  <2>3. Cardinality(rows) \in Nat /\ total \in Nat
    BY <1>1, RowsFinite, ListingConstants, FS_CardinalityType DEF TypeOK
  <2>4. \A r \in start' : r \in Rows /\ Place(r) \in Nat
    BY <1>1, <1>2, PlaceInList DEF ListInv, TypeOK
  <2> QED
    BY <1>1, <2>1, <2>2, <2>3, <2>4, Skips DEF Shift
<1>6. ListInv'
  <2>1. ~shrunk' => Cardinality(rows) <= Cardinality(rows')
    BY DEF Shift
  <2>2. asked = {"count"} /\ ~shrunk' /\ ~Excused' => total = Cardinality(rows')
    <3>1. asked = {"count"} => lists = "users"
      BY <1>1 DEF ListInv
    <3> QED
      BY <1>1, <1>2, <3>1 DEF ListInv, Shift, Excused
  <2>3. "count" \in asked /\ ~shrunk' => total <= Cardinality(rows')
    BY <1>1, <1>2, <1>5, <2>1 DEF ListInv
  <2>4. page > 1 /\ ~shrunk' => Skip < Cardinality(rows')
    BY <1>1, <1>2, <1>5, <2>1 DEF ListInv
  <2>5. start' \subseteq rows' /\ Ties(value)' \subseteq tied'
    BY DEF Shift, Ties
  <2> QED
    BY <1>1, <1>2, <1>3, <2>2, <2>3, <2>4, <2>5 DEF ListInv
<1>7. AwaitedInv'
  <2> SUFFICES ASSUME ~shrunk', NEW r \in Rows, r \in start', r \notin tied', r \notin seen
               PROVE  Awaited(r)'
    BY <1>2 DEF AwaitedInv, Steady
  <2>1. Awaited(r)
    BY <1>1, <1>2 DEF AwaitedInv, Steady
  <2>2. Place(r) <= Place(r)'
    BY DEF Shift
  <2> QED
    BY <1>2, <1>3, <1>5, <2>1, <2>2 DEF Awaited, Excused, Shift
<1>8. PassedInv'
  <2> SUFFICES ASSUME ~grown', NEW r \in Rows, r \in start', r \notin tied'
               PROVE  Passed(r)'
    BY <1>2 DEF PassedInv, Steady
  <2>1. Passed(r)
    BY <1>1, <1>2 DEF PassedInv, Steady
  <2>2. Place(r)' <= Place(r)
    BY DEF Shift
  <2> QED
    BY <1>2, <1>3, <1>5, <2>1, <2>2 DEF Passed
<1>9. PagesCoverTheList' /\ OfferedPagesHaveRows'
  BY <1>1, <1>2 DEF PagesCoverTheList, OfferedPagesHaveRows
<1> QED
  BY <1>4, <1>6, <1>7, <1>8, <1>9 DEF IInv

\* The fewer rows before a row, the lower its place, now and after a step.
LEMMA Places ==
    ASSUME rows \subseteq Rows, rows' \subseteq Rows, NEW q
    PROVE  /\ Before(q) \subseteq Before(q)' => Place(q) <= Place(q)'
           /\ Before(q)' \subseteq Before(q) => Place(q)' <= Place(q)
<1>1. Before(q) \subseteq Rows /\ Before(q)' \subseteq Rows
  BY DEF Before
<1>2. IsFiniteSet(Before(q)) /\ IsFiniteSet(Before(q)')
  BY <1>1, ListingConstants, FS_Subset
<1> QED
  BY <1>2, FS_Subset DEF Place

LEMMA MoveInv == ASSUME NEW r \in Rows, NEW v \in Values PROVE IInv /\ Move(r, v) => IInv'
<1> SUFFICES ASSUME IInv, Move(r, v) PROVE Shift
  BY ShiftInv
<1>1. TypeOK /\ ListInv
  BY DEF IInv
<1>2. /\ phase = "page" /\ r \in rows /\ v # value[r]
      /\ value' = [value EXCEPT ![r] = v]
      /\ tied' = tied \cup Ties(value') /\ start' = start \ {r}
      /\ grown' = (grown \/ v < value[r]) /\ shrunk' = (shrunk \/ v > value[r])
      /\ UNCHANGED <<lists, phase, query, seen, twice, hidden>>
  BY DEF Move
<1>3. rows' = rows /\ value' \in [rows -> Values] /\ rows \subseteq Rows
  BY <1>1, <1>2 DEF TypeOK, rows
<1>4. v \in Int /\ \A q \in rows : value[q] \in Int
  BY <1>1, ListingConstants DEF TypeOK
<1>5. Ties(value') \subseteq rows
  BY <1>3 DEF Ties, rows
<1>6. \A q \in start' : /\ ~shrunk' => Before(q) \subseteq Before(q)'
                        /\ ~grown' => Before(q)' \subseteq Before(q)
  <2> SUFFICES ASSUME NEW q \in rows, q # r
               PROVE  /\ ~shrunk' => Before(q) \subseteq Before(q)'
                      /\ ~grown' => Before(q)' \subseteq Before(q)
    BY <1>1, <1>2 DEF ListInv
  <2>1. value'[q] = value[q] /\ \A p \in rows : value'[p] = IF p = r THEN v ELSE value[p]
    BY <1>1, <1>2 DEF TypeOK
  <2>2. ~shrunk' => ~(v > value[r]) /\ v # value[r]
    BY <1>2
  <2>3. ~grown' => ~(v < value[r]) /\ v # value[r]
    BY <1>2
  <2> QED
    BY <1>2, <1>3, <1>4, <2>1, <2>2, <2>3 DEF Before
<1>7. \A q \in start' : /\ ~shrunk' => Place(q) <= Place(q)'
                        /\ ~grown' => Place(q)' <= Place(q)
  BY <1>3, <1>6, Places
<1>8. Cardinality(rows) <= Cardinality(rows')
  BY <1>1, <1>3, RowsFinite
<1>9. start' \subseteq start \cap rows' /\ tied' \subseteq Rows
  BY <1>1, <1>2, <1>3, <1>5 DEF TypeOK, ListInv
<1>10. /\ grown' \in BOOLEAN /\ shrunk' \in BOOLEAN /\ hidden' \in BOOLEAN
       /\ (grown => grown') /\ (shrunk => shrunk')
  BY <1>1, <1>2 DEF TypeOK
<1> QED
  BY <1>2, <1>3, <1>7, <1>8, <1>9, <1>10 DEF Shift

LEMMA EnterInv == ASSUME NEW r \in Rows, NEW v \in Values PROVE IInv /\ Enter(r, v) => IInv'
<1> SUFFICES ASSUME IInv, Enter(r, v) PROVE Shift
  BY ShiftInv
<1>1. TypeOK /\ ListInv
  BY DEF IInv
<1>2. /\ phase = "page" /\ r \notin rows /\ hidden' = (hidden \/ asked = {"count"})
      /\ value' = [q \in rows \cup {r} |-> IF q = r THEN v ELSE value[q]]
      /\ tied' = tied \cup Ties(value') /\ grown' = TRUE
      /\ UNCHANGED <<lists, phase, query, seen, twice, start, shrunk>>
  BY DEF Enter
<1>3. rows' = rows \cup {r} /\ value' \in [rows' -> Values] /\ rows \subseteq Rows /\ rows' \subseteq Rows
  BY <1>1, <1>2 DEF TypeOK, rows
<1>4. Ties(value') \subseteq Rows
  BY <1>3 DEF Ties, rows
<1>5. \A q \in start' : Before(q) \subseteq Before(q)'
  BY <1>1, <1>2, <1>3 DEF Before, ListInv
<1>6. \A q \in start' : Place(q) <= Place(q)'
  BY <1>3, <1>5, Places
<1>7. Cardinality(rows) <= Cardinality(rows')
  BY <1>3, ListingConstants, FS_Subset
<1>8. start' \subseteq start \cap rows' /\ tied' \subseteq Rows
  BY <1>1, <1>2, <1>3, <1>4 DEF TypeOK, ListInv
<1>9. shrunk' \in BOOLEAN /\ hidden' \in BOOLEAN
  BY <1>1, <1>2 DEF TypeOK
<1> QED
  BY <1>2, <1>3, <1>6, <1>7, <1>8, <1>9 DEF Shift

LEMMA LeaveInv == ASSUME NEW r \in Rows PROVE IInv /\ Leave(r) => IInv'
<1> SUFFICES ASSUME IInv, Leave(r) PROVE Shift
  BY ShiftInv
<1>1. TypeOK /\ ListInv
  BY DEF IInv
<1>2. /\ phase = "page" /\ r \in rows
      /\ value' = [q \in rows \ {r} |-> value[q]]
      /\ start' = start \ {r} /\ shrunk' = TRUE
      /\ UNCHANGED <<lists, phase, query, seen, twice, tied, grown, hidden>>
  BY DEF Leave
<1>3. rows' = rows \ {r} /\ value' \in [rows' -> Values] /\ rows \subseteq Rows
  BY <1>1, <1>2 DEF TypeOK, rows
<1>4. Ties(value') \subseteq Ties(value)
  BY <1>2, <1>3 DEF Ties, rows
<1>5. \A q \in start' : Before(q)' \subseteq Before(q)
  BY <1>1, <1>2, <1>3 DEF Before, ListInv
<1>6. \A q \in start' : Place(q)' <= Place(q)
  BY <1>3, <1>5, Places
<1>7. start' \subseteq start \cap rows' /\ tied' \subseteq Rows /\ Ties(value') \subseteq tied'
  BY <1>1, <1>2, <1>3, <1>4 DEF TypeOK, ListInv
<1>8. grown' \in BOOLEAN /\ hidden' \in BOOLEAN
  BY <1>1, <1>2 DEF TypeOK
<1> QED
  BY <1>2, <1>3, <1>6, <1>7, <1>8 DEF Shift

LEMMA NextInv == IInv /\ [Next]_vars => IInv'
<1> SUFFICES ASSUME IInv, [Next]_vars PROVE IInv'
  OBVIOUS
<1>1. CASE Find
  BY <1>1, FindInv
<1>2. CASE Count
  BY <1>2, CountInv
<1>3. CASE Deliver
  BY <1>3, DeliverInv
<1>4. CASE Fail
  BY <1>4, FailInv
<1>5. ASSUME NEW r \in Rows, Leave(r) PROVE IInv'
  BY <1>5, LeaveInv
<1>6. ASSUME NEW r \in Rows, NEW v \in Values, Enter(r, v) PROVE IInv'
  BY <1>6, EnterInv
<1>7. ASSUME NEW r \in Rows, NEW v \in Values, Move(r, v) PROVE IInv'
  BY <1>7, MoveInv
<1>8. CASE UNCHANGED vars
  <2>1. /\ lists' = lists /\ value' = value /\ phase' = phase /\ limit' = limit /\ page' = page
        /\ asked' = asked /\ found' = found /\ total' = total /\ seen' = seen /\ twice' = twice
        /\ start' = start /\ tied' = tied /\ grown' = grown /\ shrunk' = shrunk
        /\ hidden' = hidden
    BY <1>8 DEF vars, list, query, history
  <2> QED
    BY <2>1 DEF IInv, TypeOK, ListInv, AwaitedInv, PassedInv, PagesCoverTheList,
       OfferedPagesHaveRows, Awaited, Passed, Steady, Excused, Place, Before, Skip, TotalPages,
       rows, Ties
<1> QED
  BY <1>1, <1>2, <1>3, <1>4, <1>5, <1>6, <1>7, <1>8 DEF Next

-----------------------------------------------------------------------------
\* The inductive invariant: the places of the rows still awaited and of those passed,
\* against the offset of the page asked for and the count taken (order.repository.ts:66-78).
THEOREM Invariance == Spec => []IInv
  BY InitInv, NextInv, PTL DEF Spec

\* Every variable keeps its type, a page never has more rows than asked for, and
\* buildPaginationMeta gives every list a page (pagination.dto.ts:61-71).
THEOREM TypeCorrect == Spec => []TypeOK
  BY Invariance, PTL DEF IInv

\* A client that follows hasNextPage to the end of an offset-paged list misses a row that
\* kept its place only if another left or moved down meanwhile, or, of the users, entered
\* between the count and the rows of the last page; and gets it twice only if another
\* entered or moved up, for every page size (order.repository.ts:70-78, user.repository.ts:70-78).
THEOREM PagesAreComplete == Spec => []PagesCoverTheList
  BY Invariance, PTL DEF IInv

\* hasNextPage leads to a page with rows unless some left or moved down meanwhile: the
\* count taken never exceeds the list that is read next (pagination.dto.ts:62-68).
THEOREM NextPagesHaveRows == Spec => []OfferedPagesHaveRows
  BY Invariance, PTL DEF IInv
=============================================================================
