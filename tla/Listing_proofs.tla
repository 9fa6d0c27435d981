------------------------------- MODULE Listing_proofs -------------------------------
(***************************************************************************)
(* What a reader of a list is shown, for any number of accounts, any       *)
(* limits and any order of the other requests.                             *)
(***************************************************************************)
EXTENDS Listing, FiniteSetTheorems, SequenceTheorems, TLAPS

(***************************************************************************)
(* The rows of a tenant in the order of a list.                            *)
(***************************************************************************)

\* A tenant has finitely many accounts, and none of another tenant.
LEMMA MineIsFinite ==
  ASSUME TypeOK
  PROVE  /\ Mine \subseteq Users /\ Mine \cap Others = {}
         /\ IsFiniteSet(Mine) /\ Cardinality(Mine) \in Nat
  <1>1. Mine \in SUBSET Users /\ Mine \cap Others = {}
    BY DEF TypeOK, Mine
  <1>2. IsFiniteSet(Mine)
    BY <1>1, FS_Subset, NumbersAreLegal
  <1> QED
    BY <1>1, <1>2, FS_CardinalityType

\* A list has every account of the tenant at one place.
LEMMA OrderFacts ==
  ASSUME TypeOK, NEW s \in Orders
  PROVE  /\ s \in Seq(Mine) /\ Len(s) = Cardinality(Mine) /\ DOMAIN s = 1 .. Len(s)
         /\ \A i, j \in 1 .. Len(s) : i # j => s[i] # s[j]
         /\ \A u \in Mine : \E i \in 1 .. Len(s) : s[i] = u
  <1> DEFINE n == Cardinality(Mine)
  <1>1. IsFiniteSet(Mine) /\ n \in Nat
    BY MineIsFinite
  <1>2. s \in [1 .. n -> Mine] /\ \A i, j \in 1 .. n : i # j => s[i] # s[j]
    BY DEF Orders, SetToSeqs
  <1>3. s \in Seq(Mine) /\ Len(s) = n /\ DOMAIN s = 1 .. n
    BY <1>1, <1>2
  <1>4. s \in Injection(1 .. n, Mine)
    BY <1>2 DEF Injection, IsInjective
  <1>5. Cardinality(1 .. n) = n
    BY <1>1, FS_Interval
  <1>6. s \in Surjection(1 .. n, Mine)
    BY <1>1, <1>4, <1>5, FS_Injection
  <1> QED
    BY <1>2, <1>3, <1>6 DEF Surjection

\* In a list without ties the place of an account is its rank.
LEMMA PlaceIsRank ==
  ASSUME TypeOK, Untied, NEW s \in Orders, NEW i \in 1 .. Len(s)
  PROVE  Rank(s[i]) = i
  <1> DEFINE newer == {v \in Mine : created[v] >= created[s[i]]}
             head == [j \in 1 .. i |-> s[j]]
  <1>1. /\ s \in Seq(Mine) /\ DOMAIN s = 1 .. Len(s) /\ Len(s) \in Nat
        /\ \A k, j \in 1 .. Len(s) : k # j => s[k] # s[j]
        /\ \A u \in Mine : \E j \in 1 .. Len(s) : s[j] = u
    BY OrderFacts
  <1>2. \A j \in 1 .. Len(s) : s[j] \in Mine /\ created[s[j]] \in Nat
    <2>1. \A j \in 1 .. Len(s) : s[j] \in Mine
      BY <1>1, ElementOfSeq
    <2> QED
      BY <2>1, MineIsFinite, NumbersAreLegal DEF TypeOK
  <1>3. \A k, j \in 1 .. Len(s) : k < j => created[s[k]] > created[s[j]]
    <2> SUFFICES ASSUME NEW k \in 1 .. Len(s), NEW j \in 1 .. Len(s), k < j
                 PROVE  created[s[k]] > created[s[j]]
      OBVIOUS
    <2>1. created[s[k]] >= created[s[j]]
      BY <1>1 DEF Orders
    <2>2. s[k] # s[j] /\ s[k] \in Users \ Others /\ s[j] \in Users \ Others
      BY <1>1, <1>2, MineIsFinite
    <2> QED
      BY <1>2, <2>1, <2>2 DEF Untied
  <1>4. \A j \in 1 .. Len(s) : s[j] \in newer <=> j <= i
    BY <1>1, <1>2, <1>3
  <1>5. head \in [1 .. i -> newer] /\ IsInjective(head)
    BY <1>1, <1>4 DEF IsInjective
  <1>6. \A v \in newer : \E j \in 1 .. i : head[j] = v
    BY <1>1, <1>4
  <1>7. head \in Bijection(1 .. i, newer)
    BY <1>5, <1>6 DEF Bijection, Injection, Surjection
  <1> QED
    BY <1>7, FS_CountingElements DEF Rank, ExistsBijection

\* How many of n rows LIMIT and OFFSET leave.
RowsLeft(n, offset, limit) ==
  IF n <= offset THEN 0 ELSE IF n < offset + limit THEN n - offset ELSE limit

\* The window is those rows, in their order.
LEMMA WindowFacts ==
  ASSUME TypeOK, NEW s \in Orders, NEW offset \in Nat, NEW limit \in Nat, limit >= 1
  PROVE  /\ Window(s, offset, limit) \in Seq(Mine) /\ Len(Window(s, offset, limit)) \in Nat
         /\ Len(Window(s, offset, limit)) = RowsLeft(Len(s), offset, limit)
         /\ Len(Window(s, offset, limit)) > 0 => offset + Len(Window(s, offset, limit)) <= Len(s)
         /\ \A i \in 1 .. Len(Window(s, offset, limit)) :
               Window(s, offset, limit)[i] = s[offset + i]
  <1> DEFINE m == offset + 1
             n == AtMost(Len(s), offset + limit)
  <1>1. Len(s) \in Nat /\ \A i \in 1 .. Len(s) : s[i] \in Mine
    BY OrderFacts, ElementOfSeq, LenProperties
  <1>2. m \in Int /\ n \in Int /\ n <= Len(s) /\ n <= offset + limit
    BY <1>1 DEF AtMost
  <1>3. \A i \in m .. n : s[i] \in Mine
    BY <1>1, <1>2
  <1> HIDE DEF n
  <1>4. /\ SubSeq(s, m, n) \in Seq(Mine)
        /\ Len(SubSeq(s, m, n)) = IF m <= n THEN n - m + 1 ELSE 0
        /\ \A i \in 1 .. n - m + 1 : SubSeq(s, m, n)[i] = s[m + i - 1]
    BY <1>2, <1>3, SubSeqProperties
  <1>5. Window(s, offset, limit) = SubSeq(s, m, n)
    BY DEF Window, n
  <1>6. n = IF Len(s) < offset + limit THEN Len(s) ELSE offset + limit
    BY <1>1 DEF n, AtMost
  <1> QED
    BY <1>1, <1>2, <1>4, <1>5, <1>6 DEF RowsLeft

\* How often an answer shows an account.
Showings(shown, u) == Cardinality({i \in DOMAIN shown : shown[i] = u})

\* Of an answer cut short after some rows, how often it shows an account.
LEMMA ShownFacts ==
  ASSUME TypeOK, NEW s \in Orders, NEW offset \in Nat, NEW limit \in Nat, limit >= 1,
         NEW scanned \in 0 .. Len(Window(s, offset, limit))
  PROVE  /\ Len(SubSeq(Window(s, offset, limit), 1, scanned)) = scanned
         /\ \A u : Showings(SubSeq(Window(s, offset, limit), 1, scanned), u)
                     = IF \E i \in 1 .. scanned : s[offset + i] = u THEN 1 ELSE 0
  <1> DEFINE page == Window(s, offset, limit)
             shown == SubSeq(page, 1, scanned)
  <1>1. /\ s \in Seq(Mine) /\ DOMAIN s = 1 .. Len(s) /\ Len(s) \in Nat
        /\ \A k, j \in 1 .. Len(s) : k # j => s[k] # s[j]
    BY OrderFacts
  <1>2. /\ page \in Seq(Mine) /\ Len(page) \in Nat
        /\ Len(page) > 0 => offset + Len(page) <= Len(s)
        /\ \A i \in 1 .. Len(page) : page[i] = s[offset + i]
    BY <1>1, WindowFacts
  <1> HIDE DEF page
  <1>3. scanned \in Nat /\ scanned <= Len(page)
    BY <1>2 DEF page
  <1>4. \A i \in 1 .. scanned : page[i] \in Mine
    BY <1>2, <1>3, ElementOfSeq
  <1>5. /\ shown \in Seq(Mine) /\ Len(shown) = scanned
        /\ \A i \in 1 .. scanned : shown[i] = page[i]
    BY <1>3, <1>4, SubSeqProperties
  <1>6. DOMAIN shown = 1 .. scanned /\ \A i \in 1 .. scanned : shown[i] = s[offset + i]
    BY <1>2, <1>3, <1>5
  <1> HIDE DEF shown
  <1>7. ASSUME NEW u
        PROVE  Showings(shown, u)
                 = IF \E i \in 1 .. scanned : s[offset + i] = u THEN 1 ELSE 0
    <2>1. CASE \E i \in 1 .. scanned : s[offset + i] = u
      <3>1. PICK k \in 1 .. scanned : s[offset + k] = u
        BY <2>1
      <3>2. \A i \in 1 .. scanned : s[offset + i] = u => i = k
        BY <1>1, <1>2, <1>3, <3>1
      <3>3. {i \in DOMAIN shown : shown[i] = u} = {k}
        BY <1>6, <3>1, <3>2
      <3> QED
        BY <2>1, <3>3, FS_Singleton DEF Showings
    <2>2. CASE ~ \E i \in 1 .. scanned : s[offset + i] = u
      <3>1. {i \in DOMAIN shown : shown[i] = u} = {}
        BY <1>6, <2>2
      <3> QED
        BY <2>2, <3>1, FS_EmptySet DEF Showings
    <2> QED
      BY <2>1, <2>2
  <1> QED
    BY <1>5, <1>7 DEF page, shown

(***************************************************************************)
(* What one page does to the reader.                                       *)
(***************************************************************************)

\* How many rows there are for the page the reader is at.
PageSize == RowsLeft(Cardinality(Mine), Position, reader.limit)

\* Whether the first n rows of that page show an account.
Shows(s, n, u) == \E i \in 1 .. n : s[Position + i] = u

\* A reader's numbers.
LEMMA ReaderNumbers ==
  ASSUME TypeOK
  PROVE  /\ reader.page \in Nat /\ reader.page >= 1 /\ reader.limit \in Nat /\ reader.limit >= 1
         /\ reader.total \in Nat /\ reader.filled \in Nat
         /\ Position \in Nat /\ PageSize \in Nat /\ PageSize <= reader.limit
         /\ Position = (reader.page - 1) * reader.limit
  <1>1. /\ reader.page \in Nat /\ reader.page >= 1 /\ reader.limit \in Nat /\ reader.limit >= 1
        /\ reader.total \in Nat /\ reader.filled \in Nat
    BY DEF TypeOK
  <1>2. Position = (reader.page - 1) * reader.limit /\ reader.page - 1 \in Nat
    BY <1>1 DEF Position, Offset
  <1>3. Position \in Nat
    BY <1>1, <1>2
  <1> QED
    BY <1>1, <1>2, <1>3, MineIsFinite DEF PageSize, RowsLeft

\* A page shows the first n rows after the position, all there are unless the
\* connection is lost; the admin goes on to the next page after a full one, the
\* directory to the page it takes its next index for.
Answers(s, n) ==
  /\ \A u \in Users : seen'[u] = seen[u] + IF Shows(s, n, u) THEN 1 ELSE 0
  /\ seen' \in [Users -> Nat]
  /\ meanwhile' = meanwhile \cup IF n < PageSize THEN {"LOST"} ELSE {}
  /\ reader.list = "admin" =>
       reader' = [reader EXCEPT
                    !.pc = IF n < reader.limit THEN "done" ELSE "COUNT",
                    !.page = IF n < reader.limit THEN @ ELSE @ + 1,
                    !.filled = @ + IF n > 0 THEN 1 ELSE 0]
  /\ reader.list = "scim" =>
       LET next == Position + 1 + n
           last == next > reader.total \/ n = 0 IN
       reader' = [reader EXCEPT
                    !.pc = IF last THEN "done" ELSE "COUNT",
                    !.page = IF last THEN @ ELSE next,
                    !.filled = @ + IF n > 0 THEN 1 ELSE 0]

\* That is what Select does.
LEMMA SelectShows ==
  ASSUME TypeOK, Select
  PROVE  \E s \in Orders, n \in 0 .. PageSize : Answers(s, n)
  <1> USE DEF Answers
  <1>1. PICK s \in Orders :
          \E shown \in Scanned(Window(s, Position, reader.limit)) :
             /\ reader' = [Follows(shown) EXCEPT
                             !.filled = @ + IF Len(shown) > 0 THEN 1 ELSE 0]
             /\ seen' = [u \in Users |-> seen[u] + Showings(shown, u)]
             /\ meanwhile' = meanwhile \cup
                  IF Len(shown) < Len(Window(s, Position, reader.limit)) THEN {"LOST"} ELSE {}
    BY DEF Select, Position, Showings
  <1> DEFINE page == Window(s, Position, reader.limit)
  <1>2. PICK n \in 0 .. Len(page) :
             LET shown == SubSeq(page, 1, n) IN
             /\ reader' = [Follows(shown) EXCEPT
                             !.filled = @ + IF Len(shown) > 0 THEN 1 ELSE 0]
             /\ seen' = [u \in Users |-> seen[u] + Showings(shown, u)]
             /\ meanwhile' = meanwhile \cup
                  IF Len(shown) < Len(page) THEN {"LOST"} ELSE {}
    BY <1>1 DEF Scanned
  <1> DEFINE shown == SubSeq(page, 1, n)
  <1>3. s \in Seq(Mine) /\ Len(s) = Cardinality(Mine) /\ Cardinality(Mine) \in Nat
    BY OrderFacts, MineIsFinite
  <1>4. Position \in Nat /\ reader.limit \in Nat /\ reader.limit >= 1
    BY ReaderNumbers
  <1>5. Len(page) = PageSize
    BY <1>3, <1>4, WindowFacts DEF PageSize
  <1>6. Len(shown) = n /\ \A u : Showings(shown, u) = IF Shows(s, n, u) THEN 1 ELSE 0
    <2>1. /\ Len(shown) = n
          /\ \A u : Showings(shown, u)
                      = IF \E i \in 1 .. n : s[Position + i] = u THEN 1 ELSE 0
      <3>1. \A o, l \in Nat : l >= 1 => \A k \in 0 .. Len(Window(s, o, l)) :
              /\ Len(SubSeq(Window(s, o, l), 1, k)) = k
              /\ \A u : Showings(SubSeq(Window(s, o, l), 1, k), u)
                          = IF \E i \in 1 .. k : s[o + i] = u THEN 1 ELSE 0
        BY ShownFacts
      <3> QED
        BY <1>4, <3>1
    <2> QED
      BY <2>1 DEF Shows
  <1>7. /\ reader' = [Follows(shown) EXCEPT !.filled = @ + IF Len(shown) > 0 THEN 1 ELSE 0]
        /\ seen' = [u \in Users |-> seen[u] + Showings(shown, u)]
        /\ meanwhile' = meanwhile \cup IF n < PageSize THEN {"LOST"} ELSE {}
    BY <1>2, <1>5, <1>6
  <1>8. n \in 0 .. PageSize /\ n \in Nat
    BY <1>5, ReaderNumbers
  <1> HIDE DEF page, shown
  <1>9. \A u \in Users : seen'[u] = seen[u] + IF Shows(s, n, u) THEN 1 ELSE 0
    BY <1>6, <1>7
  <1>10. seen' \in [Users -> Nat]
    <2>1. \A u \in Users : seen[u] \in Nat /\ Showings(shown, u) \in {0, 1}
      BY <1>6 DEF TypeOK
    <2>2. \A u \in Users : seen[u] + Showings(shown, u) \in Nat
      BY <2>1
    <2> QED
      BY <1>7, <2>2
  <1>11. reader \in [list : Lists, pc : {"idle", "COUNT", "SELECT", "done"}, page : Nat \ {0},
                     limit : Nat \ {0}, total : Nat, filled : Nat]
    BY DEF TypeOK
  <1>12. ASSUME reader.list = "admin"
         PROVE  reader' = [reader EXCEPT
                             !.pc = IF n < reader.limit THEN "done" ELSE "COUNT",
                             !.page = IF n < reader.limit THEN @ ELSE @ + 1,
                             !.filled = @ + IF n > 0 THEN 1 ELSE 0]
    <2>1. Follows(shown) = IF n < reader.limit THEN [reader EXCEPT !.pc = "done"]
                           ELSE [reader EXCEPT !.pc = "COUNT", !.page = @ + 1]
      BY <1>6, <1>12 DEF Follows
    <2> QED
      BY <1>6, <1>7, <1>11, <2>1
  <1>13. ASSUME reader.list = "scim"
         PROVE  LET next == Position + 1 + n
                    last == next > reader.total \/ n = 0 IN
                reader' = [reader EXCEPT
                             !.pc = IF last THEN "done" ELSE "COUNT",
                             !.page = IF last THEN @ ELSE next,
                             !.filled = @ + IF n > 0 THEN 1 ELSE 0]
    <2>1. StartIndex(reader.page, reader.limit) + Len(shown) = Position + 1 + n
      BY <1>4, <1>6, <1>8, ReaderNumbers DEF StartIndex
    <2>2. Follows(shown) = IF Position + 1 + n > reader.total \/ n = 0
                           THEN [reader EXCEPT !.pc = "done"]
                           ELSE [reader EXCEPT !.pc = "COUNT", !.page = Position + 1 + n]
      BY <1>6, <1>13, <2>1 DEF Follows
    <2> QED
      BY <1>6, <1>7, <1>11, <2>2
  <1> QED
    BY <1>7, <1>8, <1>9, <1>10, <1>12, <1>13

\* A page shows accounts of the tenant only, and in a list without ties those
\* whose rank falls in it.
LEMMA ShownByRank ==
  ASSUME TypeOK, NEW s \in Orders, NEW n \in 0 .. PageSize, NEW u
  PROVE  /\ Shows(s, n, u) => u \in Mine
         /\ Untied /\ u \in Mine =>
              /\ Rank(u) \in 1 .. Cardinality(Mine)
              /\ Shows(s, n, u) <=> Position < Rank(u) /\ Rank(u) <= Position + n
  <1>1. /\ s \in Seq(Mine) /\ Len(s) = Cardinality(Mine) /\ DOMAIN s = 1 .. Len(s)
        /\ \A v \in Mine : \E i \in 1 .. Len(s) : s[i] = v
    BY OrderFacts
  <1>2. Position \in Nat /\ Len(s) \in Nat /\ PageSize \in Nat
    BY <1>1, ReaderNumbers, MineIsFinite
  <1>3. n \in Nat /\ n <= PageSize
    BY <1>2
  <1>4. n > 0 => Position + n <= Len(s)
    BY <1>1, <1>2, <1>3, ReaderNumbers DEF PageSize, RowsLeft
  <1>5. \A i \in 1 .. n : Position + i \in 1 .. Len(s)
    BY <1>2, <1>3, <1>4
  <1>6. Shows(s, n, u) => u \in Mine
    BY <1>1, <1>5, ElementOfSeq DEF Shows
  <1>7. ASSUME Untied, u \in Mine
        PROVE  /\ Rank(u) \in 1 .. Cardinality(Mine)
               /\ Shows(s, n, u) <=> Position < Rank(u) /\ Rank(u) <= Position + n
    <2>1. PICK k \in 1 .. Len(s) : s[k] = u
      BY <1>1, <1>7
    <2>2. \A j \in 1 .. Len(s) : s[j] = u => Rank(u) = j
      BY <1>7, PlaceIsRank
    <2>3. Rank(u) = k /\ k \in Nat
      BY <2>1, <2>2
    <2>4. Shows(s, n, u) => Position < Rank(u) /\ Rank(u) <= Position + n
      BY <1>2, <1>3, <1>5, <2>2 DEF Shows
    <2>5. ASSUME Position < Rank(u), Rank(u) <= Position + n
          PROVE  Shows(s, n, u)
      <3>1. k - Position \in 1 .. n /\ Position + (k - Position) = k
        BY <1>2, <1>3, <2>3, <2>5
      <3> QED
        BY <2>1, <3>1 DEF Shows
    <2> QED
      BY <1>1, <2>1, <2>3, <2>4, <2>5
  <1> QED
    BY <1>6, <1>7

\* An account of the tenant has a rank, of at least 1.
LEMMA RankFacts ==
  ASSUME TypeOK, NEW u \in Mine
  PROVE  Rank(u) \in Nat /\ Rank(u) >= 1
  <1> DEFINE newer == {v \in Mine : created[v] >= created[u]}
  <1>1. IsFiniteSet(newer) /\ Cardinality(newer) \in Nat
    <2>1. IsFiniteSet(Mine) /\ newer \in SUBSET Mine
      BY MineIsFinite
    <2> QED
      BY <2>1, FS_Subset, FS_CardinalityType
  <1>2. u \in newer
    <2>1. created[u] \in Nat
      BY MineIsFinite, NumbersAreLegal DEF TypeOK
    <2> QED
      BY <2>1
  <1>3. Cardinality(newer) >= 1
    BY <1>1, <1>2, FS_EmptySet
  <1> QED
    BY <1>1, <1>3 DEF Rank

\* It grows with the table, and falls with it.
LEMMA RankMoves ==
  ASSUME TypeOK, TypeOK', created' = created, NEW u
  PROVE  /\ Rank(u)' \in Nat
         /\ Mine \subseteq Mine' => Rank(u) <= Rank(u)'
         /\ Mine' \subseteq Mine => Rank(u)' <= Rank(u)
  <1> DEFINE newer == {v \in Mine : created[v] >= created[u]}
             newerNext == {v \in Mine' : created[v] >= created[u]}
  <1>1. newer \in SUBSET Users /\ newerNext \in SUBSET Users
    BY DEF TypeOK, Mine
  <1>2. /\ IsFiniteSet(newer) /\ IsFiniteSet(newerNext)
        /\ Cardinality(newerNext) \in Nat
    BY <1>1, FS_Subset, FS_CardinalityType, NumbersAreLegal
  <1>3. Rank(u) = Cardinality(newer) /\ Rank(u)' = Cardinality(newerNext)
    BY DEF Rank
  <1>4. ASSUME Mine \subseteq Mine' PROVE Rank(u) <= Rank(u)'
    <2>1. newer \in SUBSET newerNext
      BY <1>4
    <2> QED
      BY <1>2, <1>3, <2>1, FS_Subset
  <1>5. ASSUME Mine' \subseteq Mine PROVE Rank(u)' <= Rank(u)
    <2>1. newerNext \in SUBSET newer
      BY <1>5
    <2> QED
      BY <1>2, <1>3, <2>1, FS_Subset
  <1> QED
    BY <1>2, <1>3, <1>4, <1>5

(***************************************************************************)
(* Every action but Select.                                                *)
(***************************************************************************)

\* No reader has begun.
LEMMA ListingStarts == Init => ListingIInv
  <1> SUFFICES ASSUME Init PROVE ListingIInv
    OBVIOUS
  <1>1. reader.pc = "idle" /\ meanwhile = {} /\ witness = {} /\ \A u \in Users : seen[u] = 0
    BY DEF Init, NoReader
  <1>2. TypeOK
    BY NumbersAreLegal DEF Init, TypeOK, NoReader, Lists
  <1>3. NothingBeforeTheReader /\ OneTenant
    BY <1>1, NumbersAreLegal DEF Init, NothingBeforeTheReader, OneTenant
  <1>4. NoneTwice
    BY <1>1 DEF NoneTwice
  <1> QED
    BY <1>1, <1>2, <1>3, <1>4
    DEF ListingIInv, Reading, Finished, UnseenAreAhead, SeenAreBehind, TotalIsFresh,
        PagesWereFull, FirstPageIsAhead, NoneSkipped, TotalsAgree, OnePageIsAll,
        Undisturbed, CutPageIsLast, EachOnce, NoGaps

\* A limit is a positive number, whatever was asked for.
LEMMA LimitsArePositive ==
  ASSUME NEW limit \in Limits
  PROVE  AdminLimit(limit) \in Nat \ {0} /\ ScimLimit(limit) \in Nat \ {0}
  <1>1. limit \in Int
    BY NumbersAreLegal
  <1> QED
    BY <1>1, NumbersAreLegal DEF AdminLimit, ScimLimit, AtLeast, AtMost

\* The reader begins before the first row, with nothing seen.
LEMMA BeginsKeeps == ListingIInv /\ Begins => ListingIInv'
  <1> SUFFICES ASSUME ListingIInv, Begins PROVE ListingIInv'
    OBVIOUS
  <1>1. TypeOK /\ meanwhile = {} /\ \A u \in Users : seen[u] = 0
    BY DEF ListingIInv, NothingBeforeTheReader, Begins
  <1>2. UNCHANGED <<rows, past, created, seen, meanwhile>> /\ witness' = Mine /\ Mine' = Mine
    BY DEF Begins, Mine
  <1>3. PICK list \in Lists, limit \in Limits :
          reader' = [NoReader EXCEPT
                       !.list = list, !.pc = "COUNT",
                       !.limit = IF list = "admin" THEN AdminLimit(limit) ELSE ScimLimit(limit)]
    BY DEF Begins
  <1>4. /\ reader'.pc = "COUNT" /\ reader'.page = 1 /\ reader'.filled = 0
        /\ reader'.limit \in Nat \ {0}
    BY <1>3, LimitsArePositive DEF NoReader
  <1>5. TypeOK'
    <2>1. reader' = [list |-> list, pc |-> "COUNT", page |-> 1, limit |-> reader'.limit,
                     total |-> 0, filled |-> 0]
      BY <1>3 DEF NoReader
    <2>2. reader' \in [list : Lists, pc : {"idle", "COUNT", "SELECT", "done"},
                       page : Nat \ {0}, limit : Nat \ {0}, total : Nat, filled : Nat]
      BY <1>4, <2>1
    <2> QED
      BY <1>1, <1>2, <2>2 DEF TypeOK, Mine
  <1>6. Position' = 0
    BY <1>4 DEF Position, Offset
  <1>7. \A u \in Mine' : Rank(u)' > Position'
    <2> SUFFICES ASSUME NEW u \in Mine PROVE Rank(u)' > 0
      BY <1>2, <1>6
    <2> QED
      BY <1>1, <1>2, <1>5, RankFacts, RankMoves
  <1>8. Cardinality(Mine') \in Nat
    BY <1>1, <1>2, MineIsFinite
  <1>9. \A u \in Users : seen'[u] = 0
    BY <1>1, <1>2
  <1>10. OneTenant'
    BY <1>2, <1>9, NumbersAreLegal DEF OneTenant
  <1>11. UnseenAreAhead' /\ Undisturbed' /\ CutPageIsLast' /\ NoGaps'
    BY <1>2, <1>6, <1>7, <1>9, MineIsFinite, <1>1
    DEF UnseenAreAhead, Undisturbed, CutPageIsLast, NoGaps
  <1>12. SeenAreBehind' /\ NoneTwice'
    BY <1>5, <1>9, MineIsFinite DEF SeenAreBehind, NoneTwice, Mine, TypeOK
  <1>13. PagesWereFull' /\ FirstPageIsAhead'
    BY <1>4, <1>6, <1>8, <1>9 DEF PagesWereFull, FirstPageIsAhead
  <1> QED
    BY <1>4, <1>5, <1>10, <1>11, <1>12, <1>13
    DEF ListingIInv, Finished, NothingBeforeTheReader, TotalIsFresh, NoneSkipped,
        TotalsAgree, OnePageIsAll, EachOnce

\* COUNT makes the total that of the table.
LEMMA CountKeeps == ListingIInv /\ Count => ListingIInv'
  <1> SUFFICES ASSUME ListingIInv, Count PROVE ListingIInv'
    OBVIOUS
  <1>1. /\ TypeOK /\ OneTenant /\ Undisturbed /\ UnseenAreAhead /\ SeenAreBehind
        /\ CutPageIsLast /\ PagesWereFull /\ FirstPageIsAhead /\ NoneTwice /\ NoGaps
    BY DEF ListingIInv
  <1>2. /\ UNCHANGED <<rows, past, created, seen, witness, meanwhile>> /\ Mine' = Mine
        /\ reader.pc = "COUNT" /\ Reading
        /\ reader' = [reader EXCEPT !.pc = "SELECT", !.total = Cardinality(Mine)]
    BY DEF Count, Mine, Reading
  <1>3. TypeOK'
    BY <1>1, <1>2, MineIsFinite DEF TypeOK
  <1>4. /\ reader'.pc = "SELECT" /\ reader'.total = Cardinality(Mine)
        /\ reader'.list = reader.list /\ reader'.page = reader.page
        /\ reader'.limit = reader.limit /\ reader'.filled = reader.filled
    BY <1>1, <1>2 DEF TypeOK
  <1>5. Position' = Position /\ \A u : Rank(u)' = Rank(u)
    BY <1>2, <1>4 DEF Position, Rank
  <1>6. OneTenant' /\ NoneTwice' /\ Undisturbed'
    BY <1>1, <1>2 DEF OneTenant, NoneTwice, Untied, Undisturbed
  <1>7. UnseenAreAhead' /\ SeenAreBehind'
    BY <1>1, <1>2, <1>4, <1>5 DEF Reading, UnseenAreAhead, Steady, SeenAreBehind, Untied
  <1>8. CutPageIsLast' /\ NoGaps'
    BY <1>1, <1>2, <1>4 DEF Reading, CutPageIsLast, NoGaps, Untied
  <1>9. PagesWereFull' /\ FirstPageIsAhead' /\ TotalIsFresh'
    BY <1>1, <1>2, <1>4, <1>5 DEF Reading, PagesWereFull, FirstPageIsAhead, TotalIsFresh
  <1> QED
    BY <1>3, <1>4, <1>6, <1>7, <1>8, <1>9
    DEF ListingIInv, Finished, NothingBeforeTheReader, NoneSkipped, TotalsAgree, OnePageIsAll,
        EachOnce

\* An account created meanwhile only moves others to later places.
LEMMA InsertKeeps ==
  ASSUME ListingIInv, reader.pc # "done", NEW u \in Users, Insert(u)
  PROVE  ListingIInv'
  <1>1. /\ TypeOK /\ NothingBeforeTheReader /\ OneTenant /\ UnseenAreAhead /\ NoneTwice
        /\ CutPageIsLast /\ NoGaps
    BY DEF ListingIInv
  <1>2. /\ UNCHANGED <<past, created, reader, seen, witness>> /\ rows' = rows \cup {u}
        /\ meanwhile' = meanwhile \cup IF reader.pc = "idle" THEN {} ELSE {"INSERT"}
    BY DEF Insert
  <1>3. TypeOK' /\ Mine \subseteq Mine'
    BY <1>1, <1>2 DEF TypeOK, Mine
  <1>4. Position' = Position /\ (Reading' <=> Reading)
    BY <1>2 DEF Position, Reading
  <1>5. NothingBeforeTheReader' /\ OneTenant'
    BY <1>1, <1>2, <1>3 DEF NothingBeforeTheReader, OneTenant
  <1>6. UnseenAreAhead'
    <2> SUFFICES ASSUME Reading, Untied, Steady, NEW v \in witness
                 PROVE  seen[v] >= 1 \/ Rank(v)' > Position
      BY <1>2, <1>4 DEF UnseenAreAhead, Untied, Steady
    <2>1. v \in Mine /\ (seen[v] >= 1 \/ Rank(v) > Position)
      BY <1>1 DEF OneTenant, UnseenAreAhead
    <2>2. Rank(v) \in Nat /\ Rank(v)' \in Nat /\ Rank(v) <= Rank(v)' /\ Position \in Nat
      BY <1>1, <1>2, <1>3, <2>1, RankFacts, RankMoves, ReaderNumbers
    <2> QED
      BY <2>1, <2>2
  <1>7. reader.pc # "idle" => "INSERT" \in meanwhile'
    BY <1>2
  <1>8. NoneTwice'
    <2>1. CASE reader.pc = "idle"
      <3>1. \A v \in Users : seen'[v] = 0
        BY <1>1, <1>2, <2>1 DEF NothingBeforeTheReader
      <3> QED
        BY <3>1 DEF NoneTwice
    <2>2. CASE reader.pc # "idle"
      BY <1>7, <2>2 DEF NoneTwice
    <2> QED
      BY <2>1, <2>2
  <1>9. CutPageIsLast' /\ NoGaps'
    BY <1>1, <1>2, <1>4 DEF CutPageIsLast, NoGaps, Untied
  <1> QED
    BY <1>2, <1>3, <1>5, <1>6, <1>7, <1>8, <1>9
    DEF ListingIInv, Reading, Finished, SeenAreBehind, TotalIsFresh, PagesWereFull,
        FirstPageIsAhead, NoneSkipped, TotalsAgree, OnePageIsAll, Undisturbed, EachOnce

\* An account deleted meanwhile only moves others to earlier places.
LEMMA DeleteKeeps ==
  ASSUME ListingIInv, reader.pc # "done", NEW u \in Users, Delete(u)
  PROVE  ListingIInv'
  <1>1. /\ TypeOK /\ NothingBeforeTheReader /\ OneTenant /\ SeenAreBehind /\ NoneTwice
        /\ CutPageIsLast /\ NoGaps
    BY DEF ListingIInv
  <1>2. /\ UNCHANGED <<created, reader, seen>> /\ rows' = rows \ {u}
        /\ past' = past \cup {u} /\ witness' = witness \ {u}
        /\ meanwhile' = meanwhile \cup IF reader.pc = "idle" THEN {} ELSE {"DELETE"}
    BY DEF Delete
  <1>3. TypeOK' /\ Mine' = Mine \ {u}
    BY <1>1, <1>2 DEF TypeOK, Mine
  <1>4. Position' = Position /\ (Reading' <=> Reading)
    BY <1>2 DEF Position, Reading
  <1>5. NothingBeforeTheReader' /\ OneTenant'
    BY <1>1, <1>2, <1>3 DEF NothingBeforeTheReader, OneTenant
  <1>6. SeenAreBehind'
    <2> SUFFICES ASSUME Reading, Untied, "INSERT" \notin meanwhile, NEW v \in Mine', seen[v] >= 1
                 PROVE  Rank(v)' <= Position
      BY <1>2, <1>4 DEF SeenAreBehind, Untied
    <2>1. v \in Mine /\ Rank(v) <= Position
      BY <1>1, <1>3 DEF SeenAreBehind
    <2>2. Rank(v) \in Nat /\ Rank(v)' \in Nat /\ Rank(v)' <= Rank(v) /\ Position \in Nat
      BY <1>1, <1>2, <1>3, <2>1, RankFacts, RankMoves, ReaderNumbers
    <2> QED
      BY <2>1, <2>2
  <1>7. reader.pc # "idle" => "DELETE" \in meanwhile'
    BY <1>2
  <1>8. NoneTwice'
    BY <1>1, <1>2 DEF NoneTwice, Untied
  <1>9. CutPageIsLast' /\ NoGaps'
    BY <1>1, <1>2, <1>4 DEF CutPageIsLast, NoGaps, Untied
  <1> QED
    BY <1>2, <1>3, <1>5, <1>6, <1>7, <1>8, <1>9
    DEF ListingIInv, Reading, Finished, UnseenAreAhead, Steady, TotalIsFresh, PagesWereFull,
        FirstPageIsAhead, NoneSkipped, TotalsAgree, OnePageIsAll, Undisturbed, EachOnce

\* So does a step in which nothing happens.
LEMMA StutterKeeps == ListingIInv /\ UNCHANGED vars => ListingIInv'
  <1> SUFFICES ASSUME ListingIInv, UNCHANGED vars PROVE ListingIInv'
    OBVIOUS
  <1>1. UNCHANGED <<rows, past, created, reader, seen, witness, meanwhile>>
    BY DEF vars
  <1>2. Mine' = Mine /\ Position' = Position /\ Untied' = Untied /\ Reading' = Reading
    BY <1>1 DEF Mine, Position, Untied, Reading
  <1>3. \A u : Rank(u)' = Rank(u)
    BY <1>1, <1>2 DEF Rank
  <1>4. TypeOK' /\ NothingBeforeTheReader' /\ OneTenant' /\ Undisturbed'
    BY <1>1, <1>2 DEF ListingIInv, TypeOK, NothingBeforeTheReader, OneTenant, Undisturbed
  <1>5. Steady' = Steady
    BY <1>1 DEF Steady
  <1>6. UnseenAreAhead' /\ SeenAreBehind' /\ TotalIsFresh' /\ PagesWereFull' /\ FirstPageIsAhead'
    BY <1>1, <1>2, <1>3, <1>5
    DEF ListingIInv, UnseenAreAhead, SeenAreBehind, TotalIsFresh, PagesWereFull, FirstPageIsAhead
  <1>7. CutPageIsLast' /\ NoGaps' /\ EachOnce'
    BY <1>1, <1>2 DEF ListingIInv, CutPageIsLast, NoGaps, EachOnce, Finished
  <1>8. NoneSkipped' /\ NoneTwice' /\ TotalsAgree' /\ OnePageIsAll'
    BY <1>1, <1>2 DEF ListingIInv, NoneSkipped, NoneTwice, TotalsAgree, OnePageIsAll, Finished
  <1> QED
    BY <1>4, <1>6, <1>8, <1>7 DEF ListingIInv

(***************************************************************************)
(* Select, promise by promise.                                             *)
(***************************************************************************)

\* The page after a full one begins where that one ended.
LEMMA NextPage ==
  ASSUME NEW page \in Nat, NEW limit \in Nat
  PROVE  Offset(page + 1, limit) = Offset(page, limit) + limit
  <1>1. page + 1 - 1 = (page - 1) + 1
    OBVIOUS
  <1>2. ((page - 1) + 1) * limit = (page - 1) * limit + limit
    BY SMT
  <1> QED
    BY <1>1, <1>2 DEF Offset

\* A number is not made smaller by a limit.
LEMMA TimesLimit ==
  ASSUME NEW k \in Nat, NEW limit \in Nat, limit >= 1
  PROVE  k * limit \in Nat /\ k * limit >= k
  <1>1. limit - 1 \in Nat
    OBVIOUS
  <1>2. k * (limit - 1) \in Nat
    BY <1>1
  <1>3. k * limit = k * (limit - 1) + k
    BY SMT
  <1> QED
    BY <1>2, <1>3

\* Ceil is the number of pages it takes.
LEMMA PagesCover ==
  ASSUME NEW limit \in Nat, limit >= 1, NEW full \in Nat, NEW rest \in 0 .. limit - 1
  PROVE  TotalPages(full * limit + rest, limit) = full + IF rest > 0 THEN 1 ELSE 0
  <1> DEFINE k == full + IF rest > 0 THEN 1 ELSE 0
             r == IF rest > 0 THEN rest - 1 ELSE limit - 1
             a == full * limit + rest + limit - 1
  <1>1. k \in Nat /\ r \in 0 .. limit - 1
    OBVIOUS
  <1>2. a = k * limit + r
    <2>1. (full + 1) * limit = full * limit + limit /\ full * limit \in Nat
      BY SMT
    <2> QED
      BY <2>1
  <1>3. a \div limit = k
    <2> HIDE DEF k, r, a
    <2> QED
      BY <1>1, <1>2
  <1> QED
    BY <1>3 DEF TotalPages

\* A Select changes no table and no list asked for.
LEMMA SelectFrame ==
  ASSUME TypeOK, Select
  PROVE  /\ UNCHANGED <<rows, past, created, witness>>
         /\ Mine' = Mine /\ Untied' = Untied /\ reader.pc = "SELECT" /\ Reading
         /\ \A u : Rank(u)' = Rank(u)
         /\ reader'.list = reader.list /\ reader'.limit = reader.limit
         /\ reader'.total = reader.total /\ reader'.pc \in {"COUNT", "done"}
         /\ TypeOK'
  <1> USE DEF Answers
  <1>1. /\ UNCHANGED <<rows, past, created, witness>>
        /\ Mine' = Mine /\ Untied' = Untied /\ reader.pc = "SELECT" /\ Reading
    BY DEF Select, Mine, Untied, Reading
  <1>2. PICK s \in Orders, n \in 0 .. PageSize : Answers(s, n)
    BY SelectShows
  <1>3. reader \in [list : Lists, pc : {"idle", "COUNT", "SELECT", "done"}, page : Nat \ {0},
                    limit : Nat \ {0}, total : Nat, filled : Nat]
    BY DEF TypeOK
  <1>4. PICK pc \in {"COUNT", "done"}, page \in Nat \ {0}, filled \in Nat :
          reader' = [reader EXCEPT !.pc = pc, !.page = page, !.filled = filled]
    <2>1. reader.filled + (IF n > 0 THEN 1 ELSE 0) \in Nat
      BY ReaderNumbers
    <2>2. CASE reader.list = "admin"
      <3>1. reader.page + 1 \in Nat \ {0} /\ reader.page \in Nat \ {0}
        BY ReaderNumbers
      <3>2. reader' = [reader EXCEPT
                         !.pc = IF n < reader.limit THEN "done" ELSE "COUNT",
                         !.page = IF n < reader.limit THEN reader.page ELSE reader.page + 1,
                         !.filled = reader.filled + IF n > 0 THEN 1 ELSE 0]
        BY <1>2, <2>2
      <3>3. (IF n < reader.limit THEN reader.page ELSE reader.page + 1) \in Nat \ {0}
        BY <3>1
      <3> QED
        BY <2>1, <3>2, <3>3
    <2>3. CASE reader.list = "scim"
      <3>1. Position + 1 + n \in Nat \ {0}
        BY ReaderNumbers
      <3> QED
        BY <1>2, <1>3, <2>1, <2>3, <3>1
    <2> QED
      BY <1>3, <2>2, <2>3 DEF Lists
  <1>5. /\ reader'.list = reader.list /\ reader'.limit = reader.limit
        /\ reader'.total = reader.total /\ reader'.pc \in {"COUNT", "done"}
    BY <1>3, <1>4
  <1>6. reader' \in [list : Lists, pc : {"idle", "COUNT", "SELECT", "done"}, page : Nat \ {0},
                     limit : Nat \ {0}, total : Nat, filled : Nat]
    BY <1>3, <1>4
  <1>7. TypeOK'
    BY <1>1, <1>2, <1>6 DEF TypeOK
  <1>8. \A u : Rank(u)' = Rank(u)
    BY <1>1 DEF Rank
  <1> QED
    BY <1>1, <1>5, <1>7, <1>8

\* The same of the place the reader has got to.
MovesOn(s, n) ==
  /\ \A u \in Users : seen'[u] = seen[u] + IF Shows(s, n, u) THEN 1 ELSE 0
  /\ "LOST" \notin meanwhile' => n = PageSize
  /\ n = PageSize => meanwhile' = meanwhile
  /\ meanwhile \subseteq meanwhile' /\ meanwhile' \subseteq meanwhile \cup {"LOST"}
  /\ reader'.filled = reader.filled + IF n > 0 THEN 1 ELSE 0
  /\ reader.list = "admin" =>
       IF n < reader.limit THEN reader'.pc = "done"
       ELSE /\ reader'.pc = "COUNT" /\ reader'.page = reader.page + 1
            /\ n = reader.limit /\ Position' = Position + n
  /\ reader.list = "scim" =>
       IF Position + 1 + n > reader.total \/ n = 0 THEN reader'.pc = "done"
       ELSE /\ reader'.pc = "COUNT" /\ Position' = (Position + n) * reader.limit

\* A reader goes on by as many rows as it was shown, or by more.
LEMMA SelectMoves ==
  ASSUME TypeOK, Select
  PROVE  \E s \in Orders, n \in 0 .. PageSize : MovesOn(s, n)
  <1> USE DEF Answers
  <1>1. PICK s \in Orders, n \in 0 .. PageSize : Answers(s, n)
    BY SelectShows
  <1>2. reader \in [list : Lists, pc : {"idle", "COUNT", "SELECT", "done"}, page : Nat \ {0},
                    limit : Nat \ {0}, total : Nat, filled : Nat]
    BY DEF TypeOK
  <1>3. n \in Nat /\ n <= PageSize /\ PageSize \in Nat /\ n <= reader.limit
    BY ReaderNumbers
  <1>4. ("LOST" \notin meanwhile' => n = PageSize) /\ (n = PageSize => meanwhile' = meanwhile)
    BY <1>1, <1>3
  <1>5. meanwhile \subseteq meanwhile' /\ meanwhile' \subseteq meanwhile \cup {"LOST"}
    BY <1>1
  <1>6. reader'.filled = reader.filled + IF n > 0 THEN 1 ELSE 0
    <2>1. CASE reader.list = "admin"
      BY <1>1, <1>2, <2>1
    <2>2. CASE reader.list = "scim"
      BY <1>1, <1>2, <2>2
    <2> QED
      BY <1>2, <2>1, <2>2 DEF Lists
  <1>7. ASSUME reader.list = "admin"
        PROVE  IF n < reader.limit THEN reader'.pc = "done"
               ELSE /\ reader'.pc = "COUNT" /\ reader'.page = reader.page + 1
                    /\ n = reader.limit /\ Position' = Position + n
    <2>1. CASE n < reader.limit
      BY <1>1, <1>2, <1>7, <2>1
    <2>2. CASE ~(n < reader.limit)
      <3>1. reader'.pc = "COUNT" /\ reader'.page = reader.page + 1 /\ reader'.limit = reader.limit
        BY <1>1, <1>2, <1>7, <2>2
      <3>2. n = reader.limit
        BY <1>3, <2>2, ReaderNumbers
      <3>3. Position' = Position + n
        BY <3>1, <3>2, NextPage, ReaderNumbers DEF Position
      <3> QED
        BY <2>2, <3>1, <3>2, <3>3
    <2> QED
      BY <2>1, <2>2
  <1>8. ASSUME reader.list = "scim"
        PROVE  IF Position + 1 + n > reader.total \/ n = 0 THEN reader'.pc = "done"
               ELSE /\ reader'.pc = "COUNT" /\ Position' = (Position + n) * reader.limit
    <2>1. CASE Position + 1 + n > reader.total \/ n = 0
      BY <1>1, <1>2, <1>8, <2>1
    <2>2. CASE ~(Position + 1 + n > reader.total \/ n = 0)
      <3>1. /\ reader'.pc = "COUNT" /\ reader'.page = Position + 1 + n
            /\ reader'.limit = reader.limit
        BY <1>1, <1>2, <1>8, <2>2
      <3>2. Position' = (Position + n) * reader.limit
        <4>1. reader'.page - 1 = Position + n
          BY <1>3, <3>1, ReaderNumbers
        <4>2. Position' = (reader'.page - 1) * reader'.limit
          BY DEF Position, Offset
        <4> QED
          BY <3>1, <4>1, <4>2
      <3> QED
        BY <2>2, <3>1, <3>2
    <2> QED
      BY <2>1, <2>2
  <1> QED
    BY <1>1, <1>4, <1>5, <1>6, <1>7, <1>8 DEF MovesOn

\* Who was shown is left behind, and is shown once.
LEMMA SelectRepeatsNone ==
  ASSUME ListingIInv, Select
  PROVE  OneTenant' /\ SeenAreBehind' /\ NoneTwice'
  <1> USE DEF MovesOn
  <1>1. TypeOK /\ OneTenant /\ SeenAreBehind /\ NoneTwice
    BY DEF ListingIInv
  <1>2. /\ Mine' = Mine /\ Untied' = Untied /\ reader.pc = "SELECT" /\ Reading
        /\ witness' = witness /\ \A u : Rank(u)' = Rank(u)
        /\ reader'.list = reader.list /\ reader'.limit = reader.limit
        /\ reader'.total = reader.total /\ reader'.pc \in {"COUNT", "done"}
    BY <1>1, SelectFrame
  <1>3. PICK s \in Orders, n \in 0 .. PageSize : MovesOn(s, n)
    BY <1>1, SelectMoves
  <1>4. /\ n \in Nat /\ n <= PageSize /\ PageSize \in Nat /\ n <= reader.limit /\ Position \in Nat
        /\ reader.limit \in Nat /\ reader.limit >= 1 /\ Cardinality(Mine) \in Nat
    BY <1>1, ReaderNumbers, MineIsFinite
  <1>5. \A u \in Users : seen[u] \in Nat
    BY <1>1 DEF TypeOK
  <1>6. OneTenant'
    <2>1. \A u \in Others : u \in Users /\ u \notin Mine /\ seen[u] = 0
      BY <1>1, MineIsFinite, NumbersAreLegal DEF OneTenant
    <2>2. \A u \in Others : seen'[u] = 0
      BY <1>1, <1>3, <2>1, ShownByRank
    <2> QED
      BY <1>1, <1>2, <2>2 DEF OneTenant
  <1>7. ASSUME Untied, "INSERT" \notin meanwhile', NEW u \in Mine
        PROVE  /\ seen'[u] <= 1
               /\ seen'[u] >= 1 => Rank(u) <= Position + n
    <2>1. u \in Users /\ u \notin Others /\ "INSERT" \notin meanwhile
      BY <1>1, <1>3, <1>7, MineIsFinite
    <2>2. seen[u] <= 1 /\ (seen[u] >= 1 => Rank(u) <= Position)
      BY <1>1, <1>2, <1>7, <2>1 DEF NoneTwice, SeenAreBehind
    <2>3. /\ Rank(u) \in Nat
          /\ Shows(s, n, u) <=> Position < Rank(u) /\ Rank(u) <= Position + n
      BY <1>1, <1>4, <1>7, ShownByRank
    <2>4. CASE Shows(s, n, u)
      <3>1. seen[u] = 0 /\ Rank(u) <= Position + n
        BY <1>4, <1>5, <2>1, <2>2, <2>3, <2>4
      <3> QED
        BY <1>3, <2>1, <2>4, <3>1
    <2>5. CASE ~Shows(s, n, u)
      BY <1>3, <1>4, <1>5, <2>1, <2>2, <2>3, <2>5
    <2> QED
      BY <2>4, <2>5
  <1>8. SeenAreBehind'
    <2> SUFFICES ASSUME Reading', Untied, "INSERT" \notin meanwhile', NEW u \in Mine, seen'[u] >= 1
                 PROVE  Rank(u) <= Position'
      BY <1>2 DEF SeenAreBehind
    <2>1. Position' \in Nat /\ Position' >= Position + n
      <3>1. reader'.pc = "COUNT"
        BY <1>2 DEF Reading
      <3>2. CASE reader.list = "admin"
        BY <1>3, <1>4, <3>1, <3>2
      <3>3. CASE reader.list = "scim"
        <4>1. Position' = (Position + n) * reader.limit
          BY <1>3, <3>1, <3>3
        <4> QED
          BY <1>4, <4>1, TimesLimit
      <3> QED
        BY <1>1, <3>2, <3>3 DEF TypeOK, Lists
    <2>2. Rank(u) <= Position + n /\ Rank(u) \in Nat
      BY <1>1, <1>7, RankFacts
    <2> QED
      BY <1>4, <2>1, <2>2
  <1>9. NoneTwice'
    <2> SUFFICES ASSUME Untied, "INSERT" \notin meanwhile', NEW u \in Users
                 PROVE  seen'[u] <= IF u \in Others THEN 0 ELSE 1
      BY <1>2 DEF NoneTwice
    <2>1. CASE u \in Others
      BY <1>6, <2>1 DEF OneTenant
    <2>2. CASE u \in Mine
      BY <1>7, <2>2, MineIsFinite, <1>1
    <2>3. CASE u \notin Mine /\ u \notin Others
      <3>1. ~Shows(s, n, u)
        BY <1>1, <2>3, ShownByRank
      <3>2. seen[u] <= 1
        BY <1>1, <1>3, <2>3 DEF NoneTwice
      <3> QED
        BY <1>3, <1>5, <2>3, <3>1, <3>2
    <2> QED
      BY <2>1, <2>2, <2>3
  <1> QED
    BY <1>6, <1>8, <1>9

\* Who was there throughout is shown, or still ahead.
LEMMA SelectSkipsNone ==
  ASSUME ListingIInv, Select
  PROVE  UnseenAreAhead' /\ Undisturbed' /\ NoneSkipped' /\ EachOnce'
  <1> USE DEF MovesOn
  <1>1. TypeOK /\ OneTenant /\ UnseenAreAhead /\ TotalIsFresh /\ Undisturbed
    BY DEF ListingIInv
  <1>2. /\ Mine' = Mine /\ Untied' = Untied /\ reader.pc = "SELECT" /\ Reading
        /\ witness' = witness /\ \A u : Rank(u)' = Rank(u)
        /\ reader'.list = reader.list /\ reader'.limit = reader.limit
        /\ reader'.total = reader.total /\ reader'.pc \in {"COUNT", "done"}
    BY <1>1, SelectFrame
  <1>3. PICK s \in Orders, n \in 0 .. PageSize : MovesOn(s, n)
    BY <1>1, SelectMoves
  <1>4. /\ n \in Nat /\ n <= PageSize /\ PageSize \in Nat /\ n <= reader.limit /\ Position \in Nat
        /\ reader.limit \in Nat /\ reader.limit >= 1 /\ Cardinality(Mine) \in Nat
    BY <1>1, ReaderNumbers, MineIsFinite
  <1>5. \A u \in Users : seen[u] \in Nat
    BY <1>1 DEF TypeOK
  <1>6. ASSUME Steady', Untied, NEW v \in witness
        PROVE  seen'[v] >= 1 \/ (reader'.pc = "COUNT" /\ Rank(v) > Position')
    <2>1. n = PageSize /\ Steady
      BY <1>2, <1>3, <1>6 DEF Steady
    <2>2. v \in Mine /\ v \in Users /\ (seen[v] >= 1 \/ Rank(v) > Position)
      BY <1>1, <1>2, <1>6, <2>1, MineIsFinite DEF UnseenAreAhead, OneTenant
    <2>3. /\ Rank(v) \in 1 .. Cardinality(Mine)
          /\ Shows(s, n, v) <=> Position < Rank(v) /\ Rank(v) <= Position + n
      BY <1>1, <1>6, <2>2, ShownByRank
    <2>4. CASE seen[v] >= 1
      BY <1>3, <1>5, <2>2, <2>4
    <2>5. CASE Position < Rank(v) /\ Rank(v) <= Position + n
      BY <1>3, <1>5, <2>2, <2>3, <2>5
    <2>6. CASE Rank(v) > Position + n
      <3>1. n = reader.limit
        BY <1>4, <2>1, <2>3, <2>6 DEF PageSize, RowsLeft
      <3>2. CASE reader.list = "admin"
        BY <1>3, <1>4, <2>6, <3>1, <3>2
      <3>3. CASE reader.list = "scim"
        <4>1. reader.limit = 1 /\ meanwhile = {}
          BY <2>1, <3>3 DEF Steady
        <4>2. reader.total = Cardinality(Mine)
          BY <1>1, <1>2, <4>1 DEF TotalIsFresh
        <4>3. ~(Position + 1 + n > reader.total \/ n = 0)
          BY <1>4, <2>3, <2>6, <3>1, <4>1, <4>2
        <4>4. reader'.pc = "COUNT" /\ Position' = (Position + n) * 1
          BY <1>3, <3>3, <4>1, <4>3
        <4>5. (Position + n) * 1 = Position + n
          BY <1>4
        <4> QED
          BY <2>6, <4>4, <4>5
      <3> QED
        BY <1>1, <3>2, <3>3 DEF TypeOK, Lists
    <2> QED
      BY <1>4, <2>2, <2>3, <2>4, <2>5, <2>6
  <1>7. UnseenAreAhead'
    BY <1>2, <1>6 DEF UnseenAreAhead, Reading
  <1>8. NoneSkipped'
    BY <1>2, <1>6 DEF NoneSkipped, Finished, Steady
  <1>9. Undisturbed'
    <2>1. \A u \in Users \ Mine : ~Shows(s, n, u)
      BY <1>1, ShownByRank
    <2> QED
      BY <1>1, <1>2, <1>3, <1>5, <2>1 DEF Undisturbed
  <1>10. EachOnce'
    <2> SUFFICES ASSUME reader'.pc = "done", Untied, meanwhile' = {},
                        reader.list = "admin" \/ reader.limit = 1, NEW u \in Users
                 PROVE  seen'[u] = IF u \in Mine THEN 1 ELSE 0
      BY <1>2 DEF EachOnce
    <2>1. Steady'
      BY <1>1, <1>2 DEF Steady, TypeOK, Lists
    <2>2. CASE u \in Mine
      <3>1. u \in witness /\ u \notin Others
        BY <1>1, <1>2, <1>9, <2>2, MineIsFinite DEF Undisturbed
      <3>2. seen'[u] >= 1
        BY <1>6, <2>1, <3>1
      <3>3. seen'[u] <= 1
        BY <1>2, <3>1, SelectRepeatsNone DEF NoneTwice
      <3>4. seen'[u] \in Nat
        BY <1>1, SelectFrame DEF TypeOK
      <3> QED
        BY <2>2, <3>2, <3>3, <3>4
    <2>3. CASE u \notin Mine
      BY <1>2, <1>9, <2>1, <2>3 DEF Undisturbed
    <2> QED
      BY <2>2, <2>3
  <1> QED
    BY <1>7, <1>8, <1>9, <1>10

\* With nothing else happening every page but the last was full.
LEMMA SelectTotals ==
  ASSUME ListingIInv, Select
  PROVE  TotalIsFresh' /\ PagesWereFull' /\ TotalsAgree'
  <1> USE DEF MovesOn
  <1>1. TypeOK /\ TotalIsFresh /\ PagesWereFull
    BY DEF ListingIInv
  <1>2. /\ Mine' = Mine /\ Untied' = Untied /\ reader.pc = "SELECT" /\ Reading
        /\ witness' = witness /\ \A u : Rank(u)' = Rank(u)
        /\ reader'.list = reader.list /\ reader'.limit = reader.limit
        /\ reader'.total = reader.total /\ reader'.pc \in {"COUNT", "done"}
    BY <1>1, SelectFrame
  <1>3. PICK s \in Orders, n \in 0 .. PageSize : MovesOn(s, n)
    BY <1>1, SelectMoves
  <1>4. /\ n \in Nat /\ n <= PageSize /\ PageSize \in Nat /\ n <= reader.limit /\ Position \in Nat
        /\ reader.limit \in Nat /\ reader.limit >= 1 /\ Cardinality(Mine) \in Nat
    BY <1>1, ReaderNumbers, MineIsFinite
  <1>5. \A u \in Users : seen[u] \in Nat
    BY <1>1 DEF TypeOK
  <1>6. meanwhile' = {} => meanwhile = {} /\ n = PageSize
    BY <1>3
  <1>7. TotalIsFresh'
    BY <1>1, <1>2, <1>6 DEF TotalIsFresh
  <1>8. ASSUME meanwhile' = {}, reader.list = "admin"
        PROVE  /\ reader'.total = Cardinality(Mine)
               /\ reader.filled = reader.page - 1 /\ Position <= Cardinality(Mine)
               /\ reader.page \in Nat /\ reader.page >= 1
    BY <1>1, <1>2, <1>6, <1>8, ReaderNumbers DEF TotalIsFresh, PagesWereFull
  <1>9. ASSUME meanwhile' = {}, reader.list = "admin", reader'.pc = "COUNT"
        PROVE  reader'.filled = reader'.page - 1 /\ Position' <= Cardinality(Mine)
    <2>1. /\ n = reader.limit /\ reader'.page = reader.page + 1 /\ Position' = Position + n
          /\ n = PageSize /\ reader'.filled = reader.filled + 1
      BY <1>3, <1>4, <1>6, <1>9
    <2>2. Position + n <= Cardinality(Mine)
      BY <1>4, <2>1 DEF PageSize, RowsLeft
    <2> QED
      BY <1>8, <1>9, <2>1, <2>2
  <1>10. ASSUME meanwhile' = {}, reader.list = "admin", reader'.pc = "done"
         PROVE  reader'.filled = TotalPages(reader'.total, reader.limit)
    <2>1. n < reader.limit /\ n = PageSize
      BY <1>3, <1>6, <1>10
    <2>2. n \in 0 .. reader.limit - 1 /\ Cardinality(Mine) = Position + n
      BY <1>4, <1>8, <1>10, <2>1 DEF PageSize, RowsLeft
    <2>3. Position = (reader.page - 1) * reader.limit /\ reader.page - 1 \in Nat
      BY <1>1, ReaderNumbers
    <2>4. TotalPages((reader.page - 1) * reader.limit + n, reader.limit)
            = (reader.page - 1) + IF n > 0 THEN 1 ELSE 0
      BY <1>4, <2>2, <2>3, PagesCover
    <2> QED
      BY <1>3, <1>8, <1>10, <2>2, <2>3, <2>4
  <1>11. PagesWereFull'
    BY <1>2, <1>9 DEF PagesWereFull, Reading
  <1>12. TotalsAgree'
    BY <1>2, <1>7, <1>10 DEF TotalsAgree, TotalIsFresh
  <1> QED
    BY <1>7, <1>11, <1>12

\* A page that holds the whole list is the last one.
LEMMA SelectFirstPage ==
  ASSUME ListingIInv, Select
  PROVE  FirstPageIsAhead' /\ OnePageIsAll'
  <1> USE DEF MovesOn
  <1>1. TypeOK /\ TotalIsFresh /\ FirstPageIsAhead
    BY DEF ListingIInv
  <1>2. /\ Mine' = Mine /\ Untied' = Untied /\ reader.pc = "SELECT" /\ Reading
        /\ witness' = witness /\ \A u : Rank(u)' = Rank(u)
        /\ reader'.list = reader.list /\ reader'.limit = reader.limit
        /\ reader'.total = reader.total /\ reader'.pc \in {"COUNT", "done"}
    BY <1>1, SelectFrame
  <1>3. PICK s \in Orders, n \in 0 .. PageSize : MovesOn(s, n)
    BY <1>1, SelectMoves
  <1>4. /\ n \in Nat /\ n <= PageSize /\ PageSize \in Nat /\ n <= reader.limit /\ Position \in Nat
        /\ reader.limit \in Nat /\ reader.limit >= 1 /\ Cardinality(Mine) \in Nat
    BY <1>1, ReaderNumbers, MineIsFinite
  <1>5. \A u \in Users : seen[u] \in Nat
    BY <1>1 DEF TypeOK
  <1>6. ASSUME meanwhile' = {}, reader.list = "scim", reader.limit >= Cardinality(Mine)
        PROVE  /\ reader'.pc = "done"
               /\ \A u \in Users : seen'[u] = IF u \in Mine THEN 1 ELSE 0
    <2>1. meanwhile = {} /\ n = PageSize
      BY <1>3, <1>6
    <2>2. reader.page = 1 /\ reader.total = Cardinality(Mine) /\ \A u \in Users : seen[u] = 0
      BY <1>1, <1>2, <1>6, <2>1 DEF FirstPageIsAhead, TotalIsFresh
    <2>3. Position = 0
      BY <1>4, <2>2 DEF Position, Offset
    <2>4. n = Cardinality(Mine)
      BY <1>4, <1>6, <2>1, <2>3 DEF PageSize, RowsLeft
    <2>5. reader'.pc = "done"
      BY <1>3, <1>4, <1>6, <2>2, <2>3, <2>4
    <2>6. Len(s) = Cardinality(Mine) /\ \A u \in Mine : \E i \in 1 .. Len(s) : s[i] = u
      BY <1>1, OrderFacts
    <2>7. \A u \in Users : Shows(s, n, u) <=> u \in Mine
      <3>1. \A u \in Mine : Shows(s, n, u)
        BY <1>4, <2>3, <2>4, <2>6 DEF Shows
      <3> QED
        BY <1>1, <3>1, ShownByRank
    <2> QED
      BY <1>3, <2>2, <2>5, <2>7
  <1>7. FirstPageIsAhead'
    BY <1>2, <1>6 DEF FirstPageIsAhead, Reading
  <1>8. OnePageIsAll'
    BY <1>2, <1>6 DEF OnePageIsAll, Finished
  <1> QED
    BY <1>7, <1>8

\* Among accounts created at different times, the newer ones come first.
LEMMA NewerFirst ==
  ASSUME TypeOK, NEW u \in Mine, NEW v \in Mine, created[u] >= created[v]
  PROVE  Rank(u) <= Rank(v)
  <1> DEFINE newer(w) == {x \in Mine : created[x] >= created[w]}
  <1>1. \A x \in Mine : created[x] \in Nat
    BY MineIsFinite, NumbersAreLegal DEF TypeOK
  <1>2. newer(u) \in SUBSET newer(v)
    BY <1>1
  <1>3. IsFiniteSet(newer(v))
    BY MineIsFinite, FS_Subset
  <1> QED
    BY <1>2, <1>3, FS_Subset DEF Rank

\* A page cut short hides nobody who comes before one it shows.
LEMMA SelectLeavesNoGaps ==
  ASSUME ListingIInv, Select
  PROVE  CutPageIsLast' /\ NoGaps'
  <1> USE DEF MovesOn
  <1>1. TypeOK /\ OneTenant /\ UnseenAreAhead /\ CutPageIsLast /\ NoGaps
    BY DEF ListingIInv
  <1>2. /\ Mine' = Mine /\ Untied' = Untied /\ reader.pc = "SELECT" /\ Reading
        /\ witness' = witness /\ created' = created
        /\ reader'.list = reader.list /\ reader'.pc \in {"COUNT", "done"}
    BY <1>1, SelectFrame
  <1>3. PICK s \in Orders, n \in 0 .. PageSize : MovesOn(s, n)
    BY <1>1, SelectMoves
  <1>4. /\ n \in Nat /\ n <= PageSize /\ PageSize \in Nat /\ n <= reader.limit
        /\ Position \in Nat /\ reader.limit \in Nat /\ PageSize <= reader.limit
    BY <1>1, ReaderNumbers
  <1>5. \A u \in Users : seen[u] \in Nat
    BY <1>1 DEF TypeOK
  <1>6. CutPageIsLast'
    <2> SUFFICES ASSUME reader.list = "admin", reader'.pc = "COUNT"
                 PROVE  "LOST" \notin meanwhile'
      BY <1>2 DEF CutPageIsLast, Reading
    <2>1. n = reader.limit
      BY <1>3
    <2>2. n = PageSize
      BY <1>4, <2>1
    <2> QED
      BY <1>1, <1>2, <1>3, <2>2 DEF CutPageIsLast
  <1>7. NoGaps'
    <2> SUFFICES ASSUME reader.list = "admin", Untied, "DELETE" \notin meanwhile',
                        NEW u \in witness, NEW v \in Users,
                        seen'[v] >= 1, created[u] >= created[v]
                 PROVE  seen'[u] >= 1
      BY <1>2 DEF NoGaps
    <2>1. Steady /\ "DELETE" \notin meanwhile
      BY <1>1, <1>2, <1>3 DEF Steady, CutPageIsLast, TypeOK
    <2>2. u \in Mine /\ u \in Users /\ (seen[u] >= 1 \/ Rank(u) > Position)
      BY <1>1, <1>2, <2>1, MineIsFinite DEF UnseenAreAhead, OneTenant
    <2>3. CASE seen[u] >= 1
      BY <1>3, <1>5, <2>2, <2>3
    <2>4. CASE seen[v] >= 1
      <3>1. seen[u] >= 1
        BY <1>1, <2>1, <2>4 DEF NoGaps
      <3> QED
        BY <2>3, <3>1
    <2>5. CASE Rank(u) > Position /\ ~(seen[v] >= 1)
      <3>1. Shows(s, n, v)
        BY <1>3, <1>5, <2>5
      <3>2. v \in Mine /\ Rank(v) \in Nat /\ Rank(v) <= Position + n
        BY <1>1, <3>1, ShownByRank, RankFacts
      <3>3. Rank(u) \in Nat /\ Rank(u) <= Rank(v)
        BY <1>1, <2>2, <3>2, NewerFirst, RankFacts
      <3>4. Shows(s, n, u)
        BY <1>1, <1>4, <2>2, <2>5, <3>2, <3>3, ShownByRank
      <3> QED
        BY <1>3, <1>5, <2>2, <3>4
    <2> QED
      BY <1>5, <2>2, <2>3, <2>4, <2>5
  <1> QED
    BY <1>6, <1>7

\* A page keeps the invariant.
LEMMA SelectKeeps == ListingIInv /\ Select => ListingIInv'
  <1> SUFFICES ASSUME ListingIInv, Select PROVE ListingIInv'
    OBVIOUS
  <1>1. TypeOK' /\ reader'.pc # "idle"
    BY SelectFrame DEF ListingIInv
  <1>2. NothingBeforeTheReader'
    BY <1>1 DEF NothingBeforeTheReader
  <1> QED
    BY <1>1, <1>2, SelectSkipsNone, SelectRepeatsNone, SelectTotals, SelectFirstPage,
      SelectLeavesNoGaps
    DEF ListingIInv

(***************************************************************************)
(* The promises, for every number of accounts.                             *)
(***************************************************************************)

\* The inductive invariant of the lists: what was shown lies behind the reader,
\* what was not lies ahead, whatever COUNT, SELECT and other requests come between.
THEOREM ListingInvariant == Spec => []ListingIInv
  <1>1. ASSUME ListingIInv, [Next]_vars PROVE ListingIInv'
    <2>1. CASE Begins
      BY <1>1, <2>1, BeginsKeeps
    <2>2. CASE Count
      BY <1>1, <2>2, CountKeeps
    <2>3. CASE Select
      BY <1>1, <2>3, SelectKeeps
    <2>4. CASE Rests \/ UNCHANGED vars
      BY <1>1, <2>4, StutterKeeps DEF Rests
    <2>5. ASSUME reader.pc # "done", NEW u \in Users, Insert(u) PROVE ListingIInv'
      BY <1>1, <2>5, InsertKeeps
    <2>6. ASSUME reader.pc # "done", NEW u \in Users, Delete(u) PROVE ListingIInv'
      BY <1>1, <2>6, DeleteKeeps
    <2> QED
      BY <1>1, <2>1, <2>2, <2>3, <2>4, <2>5, <2>6 DEF Next
  <1> QED
    BY <1>1, ListingStarts, PTL DEF Spec

\* Limits of any size, none or negative ones asked for, give pages of one row at
\* least, and page numbers and counters stay numbers.
THEOREM ListingTypes == Spec => []TypeOK
  <1>1. ListingIInv => TypeOK
    BY DEF ListingIInv
  <1> QED
    BY <1>1, ListingInvariant, PTL

\* An admin who reads until a page is not full is shown every account that was
\* there throughout, however many are created meanwhile.
THEOREM NoneIsSkipped == Spec => []NoneSkipped
  <1>1. ListingIInv => NoneSkipped
    BY DEF ListingIInv
  <1> QED
    BY <1>1, ListingInvariant, PTL

\* No reader of either list is shown an account twice, or one of another
\* tenant, however many are deleted meanwhile and wherever pages are cut short.
THEOREM NoneIsRepeated == Spec => []NoneTwice
  <1>1. ListingIInv => NoneTwice
    BY DEF ListingIInv
  <1> QED
    BY <1>1, ListingInvariant, PTL

\* total_rows and total_pages are what a reader finds whom nothing disturbs.
THEOREM TotalsHold == Spec => []TotalsAgree
  <1>1. ListingIInv => TotalsAgree
    BY DEF ListingIInv
  <1> QED
    BY <1>1, ListingInvariant, PTL

\* A directory that asks for everything in one page gets it, each account once.
THEOREM OnePageHolds == Spec => []OnePageIsAll
  <1>1. ListingIInv => OnePageIsAll
    BY DEF ListingIInv
  <1> QED
    BY <1>1, ListingInvariant, PTL

\* Without ties so do an administrator, whatever the size of the pages, and a
\* directory that asks for one account at a time.
THEOREM EachOnceHolds == Spec => []EachOnce
  <1>1. ListingIInv => EachOnce
    BY DEF ListingIInv
  <1> QED
    BY <1>1, ListingInvariant, PTL

\* An administrator is shown the head of the list, wherever a page is cut short and
\* however many are created meanwhile: what is missing is missing at the end.
THEOREM NoGapsInAList == Spec => []NoGaps
  <1>1. ListingIInv => NoGaps
    BY DEF ListingIInv
  <1> QED
    BY <1>1, ListingInvariant, PTL
================================================================================
