------------------------------ MODULE JournalPages -----------------------------
(* Reading a list of OKK page by page while it moves (backend_client.py):   *)
(* the journal of calls (_journal_pages, for calls and transcript_matches), *)
(* the directory (employees) and the scenario catalog (scenarios). OKK      *)
(* numbers the pages afresh for every request.                              *)
EXTENDS Filtering, Naturals, Sequences, SequencesExt, FiniteSets

CONSTANTS
    Entries,   \* calls, employees or scenarios, by id
    Lists,     \* the lists OKK may hold when a reading begins
    Readers,   \* of {"journal", "directory", "catalog"}
    PageSize,  \* 100 in the code
    Cap,       \* analytics_max_calls, analytics_max_employees
    MaxMoves   \* bound: arrivals and departures while the list is read

ASSUME PagesAssumption ==
    /\ \A s \in Lists : s \in Seq(Entries) /\ IsInjective(s)
    /\ Readers \subseteq {"journal", "directory", "catalog"}
    /\ PageSize \in Nat \ {0} /\ Cap \in Nat \ {0} /\ MaxMoves \in Nat

VARIABLES
    reader,    \* which of the three reads
    list,      \* the list at OKK
    page,      \* the page to ask for next
    rows,      \* what was read
    excluded,  \* rows of the directory counted as excluded
    verdict,   \* "reading", "complete" or "cut"
    arrivals, departures,  \* how many so far
    stayed     \* what was in the list all along

pageVars == <<reader, list, page, rows, excluded, verdict,
              arrivals, departures, stayed>>

-------------------------------------------------------------------------------

PagesInit ==
    /\ reader \in Readers
    /\ list \in Lists
    /\ page = 1 /\ rows = <<>> /\ excluded = 0 /\ verdict = "reading"
    /\ arrivals = 0 /\ departures = 0 /\ stayed = ToSet(list)

(* What OKK answers for page p: its rows, and the number of pages.          *)
Items(p) == SubSeq(list, (p - 1) * PageSize + 1,
                   IF p * PageSize < Len(list) THEN p * PageSize ELSE Len(list))
Pages == IF list = <<>> THEN 1 ELSE (Len(list) + PageSize - 1) \div PageSize

\* Slip: a row that was read already is kept again.
AllOf(items) == items

Fresh(items) == Filter(items, ToSet(items) \ ToSet(rows))

UpTo(s, n) == SubSeq(s, 1, IF Len(s) < n THEN Len(s) ELSE n)

(* A row already read is not counted again; past the cap the rest is cut,   *)
(* unless the cap is met exactly on the last page.                          *)
ReadCapped ==
    LET items == Items(page)
        all == rows \o Fresh(items)
        over == Len(all) >= Cap /\ (page < Pages \/ Len(all) > Cap)
    IN /\ reader \in {"journal", "directory"} /\ verdict = "reading"
       /\ rows' = IF over THEN UpTo(all, Cap) ELSE all
       /\ excluded' = IF reader = "directory" THEN excluded + Len(items) - Len(Fresh(items))
                                              ELSE excluded
       /\ verdict' = IF over THEN "cut" ELSE IF page >= Pages THEN "complete" ELSE "reading"
       /\ page' = page + 1
       /\ UNCHANGED <<reader, list, arrivals, departures, stayed>>

(* The catalog is read to its last page and kept as it comes.               *)
ReadCatalog ==
    /\ reader = "catalog" /\ verdict = "reading"
    /\ rows' = rows \o Items(page)
    /\ verdict' = IF page >= Pages THEN "complete" ELSE "reading"
    /\ page' = page + 1
    /\ UNCHANGED <<reader, list, excluded, arrivals, departures, stayed>>

(* Something enters the list at any place (a new call at its head) or       *)
(* leaves it (deleted, or no longer of the filters).                        *)
Arrive ==
    /\ verdict = "reading" /\ arrivals + departures < MaxMoves
    /\ \E e \in Entries \ ToSet(list), i \in 1..Len(list) + 1 : list' = InsertAt(list, i, e)
    /\ arrivals' = arrivals + 1
    /\ UNCHANGED <<reader, page, rows, excluded, verdict, departures, stayed>>

Leave ==
    /\ verdict = "reading" /\ arrivals + departures < MaxMoves
    /\ \E i \in DOMAIN list : list' = RemoveAt(list, i) /\ stayed' = stayed \ {list[i]}
    /\ departures' = departures + 1
    /\ UNCHANGED <<reader, page, rows, excluded, verdict, arrivals>>

NextPage == ReadCapped \/ ReadCatalog
PagesNext == NextPage \/ Arrive \/ Leave

(* A request for a page is answered or fails with the whole call.           *)
PagesSpec == PagesInit /\ [][PagesNext]_pageVars /\ WF_pageVars(NextPage)

-------------------------------------------------------------------------------

(* No call and no employee is counted twice, although a row that arrives    *)
(* between two pages shifts the next page onto rows already read, and never *)
(* more than the cap.                                                       *)
NeverTwice ==
    reader \in {"journal", "directory"} => IsInjective(rows) /\ Len(rows) <= Cap

(* A list that stands still is read exactly: its first rows up to the cap,  *)
(* in order, no row excluded, and "complete" just when there are no more.   *)
StillListExact ==
    verdict # "reading" /\ arrivals + departures = 0 =>
        /\ rows = IF reader = "catalog" THEN list ELSE UpTo(list, Cap)
        /\ verdict = "complete" <=> (reader = "catalog" \/ Len(list) <= Cap)
        /\ excluded = 0

(* A reading that calls itself complete holds every row that was there from *)
(* its beginning, except at most one per row that left: a departure shifts  *)
(* one row over the edge of a page already read, an arrival shifts none.    *)
LossBoundedByDepartures ==
    verdict = "complete" => Cardinality(stayed \ ToSet(rows)) <= departures

(* What may be said of the rows that were read: no row twice, all of a list *)
(* that stood still, and a loss no greater than the departures.             *)
PagesExact == NeverTwice /\ StillListExact /\ LossBoundedByDepartures

(* The reading ends, whatever arrives and leaves meanwhile.                 *)
PagesRead == verdict # "reading"
ReadingEnds == <>PagesRead
===============================================================================
