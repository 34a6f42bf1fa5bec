----------------------------- MODULE KeysetPages -----------------------------
(***************************************************************************)
(* The paged lists of the Dashboard and the API                          *)
(* (application/*_queries.py, dashboard_pagination.py, pagination.py):   *)
(* a reader follows the cursors of one list while the rows behind it     *)
(* change.  Every page is one query of its own; nothing holds the list   *)
(* still between two of them (docs/adr/0008, points 3 and 4).            *)
(*                                                                       *)
(* A row is [id, at, subject, match]: at stands for the first ordering   *)
(* key (a time, a name, a version), id breaks ties, match is the one     *)
(* thing the reader may filter by.  The subject of a row is the row      *)
(* itself, for a rule the rule whose version is active.                  *)
(***************************************************************************)
EXTENDS Integers, FiniteSets, Sequences, Functions

CONSTANTS
  PageIds,          \* bound: row ids; random, so in no relation to the order
  MaxAt,            \* bound: the first ordering key
  PageSizes,        \* the page sizes the routes accept
  MaxActiveRules    \* MAX_ACTIVE_RULES_FOR_DASHBOARD

\* A page has a row, and ids are totally ordered.
ASSUME PagesAssumption ==
  PageIds \subseteq Nat /\ MaxAt \in Nat /\ PageSizes \subseteq Nat \ {0}

VARIABLES
  pageList,         \* the list being read
  pageRows,         \* its committed rows
  pageQuery,        \* filter, sort and size in the reader's URL
  pageCursor,       \* the cursor of the next page
  pageShown,        \* the rows shown so far, in order
  pageStable,       \* subjects that kept their match since the first page
  pageState         \* "new", "reading", "ended", "refused" or "unavailable"

pageVars == <<pageList, pageRows, pageQuery, pageCursor, pageShown, pageStable, pageState>>

Nowhere == [at |-> -1, id |-> -1, query |-> "none"]

-----------------------------------------------------------------------------
(* The lists.  sorts: the orders on offer; bound: what a cursor is bound   *)
(* to; growth: how rows come and change.                                   *)
(*   late      the time is drawn before the commit: a row can appear       *)
(*             behind rows that were already read                          *)
(*   serial    the time is drawn under a lock held until the commit        *)
(*   numbered  the key is the next number                                  *)
(*   named     the key is a name that never changes                        *)
(*   replaced  named, and the row may be exchanged for another of its name *)

List(name, sorts, filters, bound, growth) ==
  [name |-> name, sorts |-> sorts, filters |-> filters, bound |-> bound, growth |-> growth]

Whole == {"filter", "sort", "size"}
FilterOnly == {"filter"}

\* A list may be filtered; a list of one incident belongs to that incident.
Filtered == {"any", "yes"}
OneOfTwo == {"yes", "no"}

IncidentsList == List("incidents", {"asc", "desc"}, Filtered, Whole, "late")
ApiIncidentsList == List("api incidents", {"desc"}, Filtered, FilterOnly, "late")
AuditList == List("audit", {"asc", "desc"}, Filtered, Whole, "late")
ApiAuditList == List("api audit", {"desc"}, Filtered, FilterOnly, "late")
CommentsList == List("comments", {"desc"}, OneOfTwo, Whole, "late")
EvidenceList == List("evidence", {"asc"}, OneOfTwo, Whole, "serial")
HistoryList == List("history", {"asc"}, OneOfTwo, Whole, "numbered")
ServersList == List("servers", {"asc", "desc"}, Filtered, Whole, "named")
RulesList == List("rules", {"asc", "desc"}, Filtered, Whole, "replaced")

Lists == {IncidentsList, ApiIncidentsList, AuditList, ApiAuditList, CommentsList,
          EvidenceList, HistoryList, ServersList, RulesList}

\* Only an incident changes what it is filtered by, its status.
Relabelled == {IncidentsList.name, ApiIncidentsList.name}

-----------------------------------------------------------------------------
(* The rows behind the list. *)

Row(id, at, subject, match) == [id |-> id, at |-> at, subject |-> subject, match |-> match]

UnusedIds == PageIds \ {row.id : row \in pageRows}

Ats == {row.at : row \in pageRows}

\* A version number is unique within its incident, a name within its list.
NewAts ==
  CASE pageList.growth = "late" -> 0 .. MaxAt
    [] pageList.growth \in {"serial", "numbered"} ->
         {at \in 0 .. MaxAt : \A old \in Ats : at > old}
    [] pageList.growth \in {"named", "replaced"} -> (0 .. MaxAt) \ Ats

DistinctAts == {"numbered", "named", "replaced"}

PageRow ==
  /\ pageState = "reading"
  /\ \E id \in UnusedIds, at \in NewAts, match \in BOOLEAN :
       pageRows' = pageRows
                     \cup {Row(id, at, IF pageList = RulesList THEN at ELSE id, match)}
  /\ UNCHANGED <<pageList, pageQuery, pageCursor, pageShown, pageStable, pageState>>

\* An incident changes its status.
PageRelabel ==
  /\ pageState = "reading" /\ pageList.name \in Relabelled
  /\ \E row \in pageRows :
       /\ pageRows' = (pageRows \ {row}) \cup {[row EXCEPT !.match = ~@]}
       /\ pageStable' = pageStable \ {row.subject}
  /\ UNCHANGED <<pageList, pageQuery, pageCursor, pageShown, pageState>>

\* Another version of a rule becomes the active one.
PageReplace ==
  /\ pageState = "reading" /\ pageList.growth = "replaced"
  /\ \E row \in pageRows, id \in UnusedIds, match \in BOOLEAN :
       /\ pageRows' = (pageRows \ {row}) \cup {Row(id, row.at, row.subject, match)}
       /\ pageStable' = IF match = row.match THEN pageStable ELSE pageStable \ {row.subject}
  /\ UNCHANGED <<pageList, pageQuery, pageCursor, pageShown, pageState>>

-----------------------------------------------------------------------------
(* One page. *)

Queries(list) == [filter : list.filters, sort : list.sorts, size : PageSizes]

Passes(row, filter) == filter = "any" \/ row.match = (filter = "yes")

\* Row a comes before row b.
Precedes(a, b, sort) ==
  LET up(x, y) == x.at < y.at \/ (x.at = y.at /\ x.id < y.id)
  IN  IF sort = "asc" THEN up(a, b) ELSE up(b, a)

\* Fault: the cursor condition compares the first key alone.
BeyondFirstKey(row, sort) ==
  IF sort = "asc" THEN row.at > pageCursor.at ELSE row.at < pageCursor.at

Beyond(row, sort) == Precedes(pageCursor, row, sort)

Listed(query, cursor) ==
  {row \in pageRows : /\ Passes(row, query.filter)
                      /\ cursor = Nowhere \/ Beyond(row, query.sort)}

\* What the statement with LIMIT size + 1 may return, which is one sequence:
\* the first of the listed rows, in order, and all of them below the limit.
Fetched(query, cursor) ==
  LET listed == Listed(query, cursor)
  IN  {rows \in UNION {[1 .. n -> listed] : n \in 0 .. query.size + 1} :
         /\ \A i, j \in DOMAIN rows : i < j => Precedes(rows[i], rows[j], query.sort)
         /\ \A row \in listed \ Range(rows) :
              /\ Len(rows) = query.size + 1
              /\ \A i \in DOMAIN rows : Precedes(rows[i], row, query.sort)}

Encode(row, query) == [at |-> row.at, id |-> row.id, query |-> query]

NextCursor(rows, query) ==
  IF Len(rows) > query.size THEN Encode(rows[query.size], query) ELSE Nowhere

\* The context in the cursor must be the context of the request, in the parts
\* the cursor is bound to.
Decodes(cursor, query) == \A field \in pageList.bound : cursor.query[field] = query[field]

ShowPage(query, cursor) ==
  \E rows \in Fetched(query, cursor) :
    /\ pageCursor' = NextCursor(rows, query)
    /\ pageShown' = pageShown \o SubSeq(rows, 1, IF pageCursor' = Nowhere THEN Len(rows)
                                                                          ELSE query.size)
    /\ pageState' = IF pageCursor' = Nowhere THEN "ended" ELSE "reading"

\* The rules list reads every active rule before the page and gives up when
\* there are too many.
Readable == pageList = RulesList => Cardinality(pageRows) <= MaxActiveRules

FirstPage ==
  /\ pageState = "new"
  /\ \E query \in Queries(pageList) :
       /\ pageQuery' = query
       /\ IF Readable THEN ShowPage(query, Nowhere)
                      ELSE pageState' = "unavailable" /\ UNCHANGED <<pageShown, pageCursor>>
  /\ pageStable' = {row.subject : row \in pageRows}
  /\ UNCHANGED <<pageList, pageRows>>

\* The reader follows the link, or edits filter, sort or size in its URL.
NextPage ==
  /\ pageState = "reading"
  /\ \E query \in Queries(pageList) :
       /\ pageQuery' = query
       /\ IF Decodes(pageCursor, query) /\ Readable
          THEN ShowPage(query, pageCursor)
          ELSE /\ pageState' = IF Readable \/ ~Decodes(pageCursor, query)
                               THEN "refused" ELSE "unavailable"
               /\ UNCHANGED <<pageShown, pageCursor>>
  /\ UNCHANGED <<pageList, pageRows, pageStable>>

-----------------------------------------------------------------------------
PagesInit ==
  /\ pageList \in Lists
  /\ \E ids \in SUBSET PageIds : \E at \in [ids -> 0 .. MaxAt], match \in [ids -> BOOLEAN] :
       /\ Cardinality(ids) >= Cardinality(PageIds) - 1
       /\ pageList.growth \in DistinctAts => IsInjective(at)
       /\ pageRows = {Row(id, at[id], IF pageList = RulesList THEN at[id] ELSE id, match[id]) :
                        id \in ids}
  /\ pageQuery = Nowhere.query /\ pageCursor = Nowhere
  /\ pageShown = <<>> /\ pageStable = {} /\ pageState = "new"

PagesNext == PageRow \/ PageRelabel \/ PageReplace \/ FirstPage \/ NextPage

PagesSpec == PagesInit /\ [][PagesNext]_pageVars

-----------------------------------------------------------------------------
\* Through every change between two pages, the rows come in the order asked
\* for, so none is shown twice; when the last page was shown, everything that
\* had been in the list and kept its match since the first page was shown; and
\* a list that only grows at its end, read towards it, misses nothing at all
\* (the keyset conditions and cursors of list_*, docs/adr/0008 points 3 and 4).
PagesExact ==
  /\ \A i, j \in DOMAIN pageShown :
       i < j => Precedes(pageShown[i], pageShown[j], pageQuery.sort) \/ pageState = "refused"
  /\ pageState = "ended" =>
       \A row \in pageRows :
         /\ Passes(row, pageQuery.filter)
         /\ row.subject \in pageStable \/ pageList.growth \in {"serial", "numbered"}
         => \E i \in DOMAIN pageShown : pageShown[i].subject = row.subject

-----------------------------------------------------------------------------
(* Why: a row the reader must not miss was shown or comes after the cursor, *)
(* and no change between two pages moves it to before the cursor unseen.    *)

PageRowType == [id : PageIds, at : 0 .. MaxAt, subject : Nat, match : BOOLEAN]

\* The state of the paged lists has its type.
PagesTypeOK ==
  /\ pageList \in Lists
  /\ pageRows \subseteq PageRowType /\ pageShown \in Seq(PageRowType)
  /\ pageState # "new" => pageQuery \in Queries(pageList)
  /\ \/ pageCursor = Nowhere
     \/ pageCursor \in [at : 0 .. MaxAt, id : PageIds, query : Queries(pageList)]
  /\ pageState \in {"new", "reading", "ended", "refused", "unavailable"}

SubjectOf(row) == IF pageList = RulesList THEN row.at ELSE row.id

SubjectsOfRows == {row.subject : row \in pageRows}
SubjectsShown == {pageShown[i].subject : i \in DOMAIN pageShown}

MustShow(row) ==
  /\ Passes(row, pageQuery.filter)
  /\ row.subject \in pageStable \/ pageList.growth \in {"serial", "numbered"}

SubjectsHeld ==
  /\ \A row \in pageRows : row.subject = SubjectOf(row)
  /\ \A i \in DOMAIN pageShown : pageShown[i].subject = SubjectOf(pageShown[i])
  /\ pageStable \subseteq SubjectsOfRows

\* The cursor is the last row shown, and holds the query it was shown for; where
\* a list grows at its end, a row with the cursor's key is there.
AtCursor ==
  pageState = "reading" =>
    /\ pageShown # <<>> /\ pageCursor = Encode(pageShown[Len(pageShown)], pageQuery)
    /\ pageList.growth \in {"serial", "numbered"} => pageCursor.at \in Ats

NothingPassed ==
  pageState = "reading" =>
    \A row \in pageRows : MustShow(row) => \/ row.subject \in SubjectsShown
                                           \/ Precedes(pageCursor, row, pageQuery.sort)

PagesInvariant ==
  /\ PagesTypeOK /\ SubjectsHeld /\ AtCursor /\ NothingPassed
  /\ pageState = "new" => pageShown = <<>> /\ pageCursor = Nowhere
  /\ PagesExact
=============================================================================
