---------------------------------- MODULE Listing ----------------------------------
(***************************************************************************)
(* Lists of users in pages (internal/usecase/user_usecase.go,              *)
(* scim_usecase.go, user_repo.go List), read page by page while accounts   *)
(* come and go.  A page is two statements, COUNT and SELECT, without a     *)
(* transaction; the next page is another request.                          *)
(***************************************************************************)
EXTENDS Integers, FiniteSets, Sequences, SequencesExt

CONSTANTS
    Users,         \* ids, each used once
    Others,        \* those among them of other tenants
    Times,         \* created_at; replicas have clocks of their own
    Limits,        \* values clients ask for, 0 for none or no number
    DefaultLimit,  \* 10 in the code
    MaxLimit       \* 100 in the code, for the admin list alone

ASSUME NumbersAreLegal ==
    /\ IsFiniteSet(Users) /\ Others \subseteq Users
    /\ Times \subseteq Nat /\ Limits \subseteq Int
    /\ DefaultLimit \in Nat \ {0} /\ MaxLimit \in Nat /\ DefaultLimit <= MaxLimit

VARIABLES
    rows,     \* the accounts of the table
    past,     \* ids that are deleted
    created,  \* the created_at of each id, decided from the start
    reader,   \* a client reading one list from its first page to its last
    seen,     \* how often the reader was shown each account
    witness,  \* history: accounts there ever since the reader began
    meanwhile \* history: what else happened since then

vars == <<rows, past, created, reader, seen, witness, meanwhile>>

Lists == {"admin", "scim"}

NoReader == [list |-> "admin", pc |-> "idle", page |-> 1, limit |-> DefaultLimit,
             total |-> 0, filled |-> 0]

Init ==
    /\ rows \in SUBSET Users /\ past = {}
    /\ created \in [Users -> Times]
    /\ reader = NoReader
    /\ seen = [u \in Users |-> 0]
    /\ witness = {} /\ meanwhile = {}

(***************************************************************************)
(* What a query string becomes.                                            *)
(***************************************************************************)

\* Mutant of AtLeast: the limit is taken as asked.
AsAsked(low, n, default) == n

AtLeast(low, n, default) == IF n < low THEN default ELSE n

AtMost(high, n) == IF n > high THEN high ELSE n

\* user_handler.go and, once more, user_usecase.go.
AdminLimit(limit) == AtMost(MaxLimit, AtLeast(1, limit, DefaultLimit))

\* scim_handler.go: count has no upper bound.
ScimLimit(count) == AtLeast(1, count, DefaultLimit)

\* Mutant of Offset: the first page is page 0.
OffsetFromZero(page, limit) == page * limit

\* List, for page and limit of at least 1, and far from the 64 bits of an int.
Offset(page, limit) == (page - 1) * limit

\* Mutant of TotalPages: integer division for Ceil.
TotalPagesRoundedDown(total, limit) == total \div limit

\* Ceil(total / limit).
TotalPages(total, limit) == (total + limit - 1) \div limit

\* The StartIndex of a SCIM answer.
StartIndex(page, limit) == (page - 1) * limit + 1

(***************************************************************************)
(* user_repo.List                                                          *)
(***************************************************************************)

\* WHERE tenant_id = $1.
Mine == rows \ Others

\* Mutant of Orders: no ORDER BY.
AnyOrders == SetToSeqs(Mine)

\* ORDER BY created_at DESC: rows created at the same time come in any order.
Orders ==
    {s \in SetToSeqs(Mine) :
        \A i, j \in DOMAIN s : i < j => created[s[i]] >= created[s[j]]}

\* Mutant of Window: one row more, to know whether there is a next page.
WindowAndOne(s, offset, limit) == SubSeq(s, offset + 1, AtMost(Len(s), offset + limit + 1))

\* LIMIT and OFFSET.
Window(s, offset, limit) == SubSeq(s, offset + 1, AtMost(Len(s), offset + limit))

\* Mutant of Scanned: a row that cannot be scanned is passed over.
ScannedWithGaps(page) == {page} \cup {RemoveAt(page, i) : i \in DOMAIN page}

\* A connection lost between two rows ends the loop like the last row does:
\* rows.Err is not asked, and the page is answered with the rows so far.
Scanned(page) == {SubSeq(page, 1, n) : n \in 0 .. Len(page)}

(***************************************************************************)
(* A client that reads a list to its end.                                  *)
(***************************************************************************)
Begins ==
    /\ reader.pc = "idle"
    /\ \E list \in Lists, limit \in Limits :
          reader' = [NoReader EXCEPT
                       !.list = list, !.pc = "COUNT",
                       !.limit = IF list = "admin" THEN AdminLimit(limit) ELSE ScimLimit(limit)]
    /\ witness' = Mine
    /\ UNCHANGED <<rows, past, created, seen, meanwhile>>

Count ==
    /\ reader.pc = "COUNT"
    /\ reader' = [reader EXCEPT !.pc = "SELECT", !.total = Cardinality(Mine)]
    /\ UNCHANGED <<rows, past, created, seen, witness, meanwhile>>

\* What the client does with an answer: the admin list is read until a page is
\* not full; a SCIM client asks for the resource after the last it was given,
\* until there is none by the answer's totalResults.
Follows(shown) ==
    IF reader.list = "admin"
    THEN IF Len(shown) < reader.limit
         THEN [reader EXCEPT !.pc = "done"]
         ELSE [reader EXCEPT !.pc = "COUNT", !.page = @ + 1]
    ELSE LET next == StartIndex(reader.page, reader.limit) + Len(shown) IN
         IF next > reader.total \/ Len(shown) = 0
         THEN [reader EXCEPT !.pc = "done"]
         ELSE [reader EXCEPT !.pc = "COUNT", !.page = next]

Select ==
    /\ reader.pc = "SELECT"
    /\ \E s \in Orders :
          LET page == Window(s, Offset(reader.page, reader.limit), reader.limit) IN
          \E shown \in Scanned(page) :
             /\ reader' = [Follows(shown) EXCEPT
                             !.filled = @ + IF Len(shown) > 0 THEN 1 ELSE 0]
             /\ seen' = [u \in Users |->
                           seen[u] + Cardinality({i \in DOMAIN shown : shown[i] = u})]
             /\ meanwhile' = meanwhile \cup IF Len(shown) < Len(page) THEN {"LOST"} ELSE {}
    /\ UNCHANGED <<rows, past, created, witness>>

\* An account created, by whatever handler, its created_at before or after
\* those of others.
Insert(u) ==
    /\ u \notin rows \cup past
    /\ rows' = rows \cup {u}
    /\ meanwhile' = meanwhile \cup IF reader.pc = "idle" THEN {} ELSE {"INSERT"}
    /\ UNCHANGED <<past, created, reader, seen, witness>>

Delete(u) ==
    /\ u \in rows
    /\ rows' = rows \ {u} /\ past' = past \cup {u}
    /\ witness' = witness \ {u}
    /\ meanwhile' = meanwhile \cup IF reader.pc = "idle" THEN {} ELSE {"DELETE"}
    /\ UNCHANGED <<created, reader, seen>>

\* The reader has come to the end; nothing more is observed.
Rests == reader.pc = "done" /\ UNCHANGED vars

Next ==
    \/ Begins \/ Count \/ Select \/ Rests
    \/ reader.pc # "done" /\ \E u \in Users : Insert(u) \/ Delete(u)

Spec == Init /\ [][Next]_vars

TypeOK ==
    /\ rows \subseteq Users /\ past \subseteq Users
    /\ created \in [Users -> Times]
    /\ reader \in [list : Lists, pc : {"idle", "COUNT", "SELECT", "done"}, page : Nat \ {0},
                   limit : Nat \ {0}, total : Nat, filled : Nat]
    /\ seen \in [Users -> Nat]
    /\ witness \subseteq rows
    /\ meanwhile \subseteq {"INSERT", "DELETE", "LOST"}

(***************************************************************************)
(* What a list promises.  Rows created at one time may swap between two    *)
(* pages, so the promises are about lists without such ties.               *)
(***************************************************************************)
Untied == \A u, v \in Users \ Others : u # v => created[u] # created[v]

\* The place of an account in a list without ties.
Rank(u) == Cardinality({v \in Mine : created[v] >= created[u]})

Finished(list) == reader.pc = "done" /\ reader.list = list

\* Inserts only push rows to later pages: unless an account is deleted, or a
\* connection lost, meanwhile, the reader is shown every account that was there
\* throughout.
NoneSkipped ==
    Finished("admin") /\ Untied /\ meanwhile \subseteq {"INSERT"} =>
       \A u \in witness : seen[u] >= 1

\* Deletes only pull rows to earlier pages, and both clients only go on to later
\* ones: unless an account is created meanwhile, the reader is at no time shown
\* one twice, nor one of another tenant, even if pages come out short.
NoneTwice ==
    Untied /\ "INSERT" \notin meanwhile =>
       \A u \in Users : seen[u] <= IF u \in Others THEN 0 ELSE 1

\* total_rows, totalResults and total_pages are what the reader finds if nothing
\* happens meanwhile, ties or not.
TotalsAgree ==
    reader.pc = "done" /\ meanwhile = {} =>
       /\ reader.total = Cardinality(Mine)
       /\ reader.list = "admin" => reader.filled = TotalPages(reader.total, reader.limit)

\* A directory that asks for everything in one page (count no less than there
\* are accounts) gets each of its accounts once.
OnePageIsAll ==
    Finished("scim") /\ meanwhile = {} /\ reader.limit >= Cardinality(Mine) =>
       \A u \in Users : seen[u] = IF u \in Mine THEN 1 ELSE 0

\* An administrator reading any pages, and a directory reading one resource at a
\* time, are shown each account once; only then is the index of a resource the
\* number of its page.
EachOnce ==
    /\ reader.pc = "done" /\ Untied /\ meanwhile = {}
    /\ reader.list = "admin" \/ reader.limit = 1
    => \A u \in Users : seen[u] = IF u \in Mine THEN 1 ELSE 0

\* A connection lost between two rows costs an administrator the end of the list and
\* nothing else: unless an account is deleted meanwhile, whoever was there throughout
\* is shown before anyone created earlier is.
NoGaps ==
    reader.list = "admin" /\ Untied /\ "DELETE" \notin meanwhile =>
       \A u \in witness, v \in Users :
          seen[v] >= 1 /\ created[u] >= created[v] => seen[u] >= 1

\* What a SCIM client relies on: following startIndex, it is shown every
\* resource.  It is not: startIndex is taken for the number of a page.
DirectoryReadsAll ==
    Finished("scim") /\ Untied /\ meanwhile = {} => \A u \in witness : seen[u] >= 1

(***************************************************************************)
(* Where a reader stands between two pages.                                *)
(***************************************************************************)
Reading == reader.pc \in {"COUNT", "SELECT"}

\* How many rows the reader has left behind.
Position == Offset(reader.page, reader.limit)

NothingBeforeTheReader ==
    reader.pc = "idle" => reader = NoReader /\ meanwhile = {} /\ \A u \in Users : seen[u] = 0

OneTenant == witness \subseteq Mine /\ \A u \in Others : seen[u] = 0

\* The reader is shown rows of the table, which stays as it was when it began.
Undisturbed ==
    reader.pc # "idle" /\ meanwhile = {} =>
       witness = Mine /\ \A u \in Users \ Mine : seen[u] = 0

\* The readers that come by every place, and what must not happen to them.
Steady ==
    \/ reader.list = "admin" /\ meanwhile \subseteq {"INSERT"}
    \/ reader.list = "scim" /\ reader.limit = 1 /\ meanwhile = {}

\* An insert moves an account back, a delete moves it forth.
UnseenAreAhead ==
    Reading /\ Untied /\ Steady => \A u \in witness : seen[u] >= 1 \/ Rank(u) > Position

SeenAreBehind ==
    Reading /\ Untied /\ "INSERT" \notin meanwhile =>
       \A u \in Mine : seen[u] >= 1 => Rank(u) <= Position

TotalIsFresh ==
    reader.pc \in {"SELECT", "done"} /\ meanwhile = {} => reader.total = Cardinality(Mine)

PagesWereFull ==
    Reading /\ reader.list = "admin" /\ meanwhile = {} =>
       reader.filled = reader.page - 1 /\ Position <= Cardinality(Mine)

\* A page as large as the list leaves nothing for a second one.
FirstPageIsAhead ==
    Reading /\ reader.list = "scim" /\ meanwhile = {} /\ reader.limit >= Cardinality(Mine) =>
       reader.page = 1 /\ \A u \in Users : seen[u] = 0

\* An administrator takes a page cut short for the last.
CutPageIsLast == Reading /\ reader.list = "admin" => "LOST" \notin meanwhile

\* What every step keeps: where the reader stands, and with it the promises.
ListingIInv ==
    /\ TypeOK /\ NothingBeforeTheReader /\ OneTenant /\ Undisturbed
    /\ UnseenAreAhead /\ SeenAreBehind /\ CutPageIsLast
    /\ TotalIsFresh /\ PagesWereFull /\ FirstPageIsAhead
    /\ NoneSkipped /\ NoneTwice /\ TotalsAgree
    /\ OnePageIsAll /\ EachOnce /\ NoGaps
================================================================================
