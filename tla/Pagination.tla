----------------------------- MODULE Pagination -----------------------------
(***************************************************************************)
(* PaginationHelper, and a reader who follows it: pages are asked for one   *)
(* after the other as long as the last one says there is a next one.  The   *)
(* records are numbered from 0.  A query parameter may be a fraction: page  *)
(* and limit are given in halves.                                           *)
(***************************************************************************)
EXTENDS Integers

CONSTANTS
  NoNumber,        \* a parameter that is missing or no number
  Totals,          \* numbers of records
  Halves,          \* what is asked for: page and limit, in halves
  PageConfigs,     \* the configurations: defaults and bounds of the limit
  DefaultPageLimit, DefaultMaxLimit

PageNumber == Int \cup {NoNumber}
PageConfig == [defaultPage : Nat \cup {NoNumber}, defaultLimit : PageNumber,
               minLimit : PageNumber, maxLimit : PageNumber]

ASSUME PagesAssumption ==
  /\ NoNumber \notin Int
  /\ Totals \subseteq Nat /\ Halves \subseteq PageNumber /\ PageConfigs \subseteq PageConfig
  /\ DefaultPageLimit \in Int /\ DefaultMaxLimit \in Int

VARIABLES
  reading,       \* whether a list is being read
  pageReq,       \* the normalized request: page and limit
  total,         \* how many records there are
  firstPage,     \* history: the page the reader began with
  shown,         \* history: the records shown so far ...
  shownAgain     \* ... and those shown more than once

pageVars == <<reading, pageReq, total, firstPage, shown, shownAgain>>

PagesInit ==
  /\ reading = FALSE /\ pageReq = [page |-> 1, limit |-> 1] /\ total = 0
  /\ firstPage = 1 /\ shown = {} /\ shownAgain = {}
-----------------------------------------------------------------------------
Larger(a, b) == IF a > b THEN a ELSE b
Smaller(a, b) == IF a < b THEN a ELSE b
\* value ?? default
Or(value, default) == IF value = NoNumber THEN default ELSE value

\* Number.isFinite(parsed) && parsed > 0 ? Math.floor(parsed) : default.  A half is
\* larger than 0, and its floor is 0.
Parsed(halves, default) ==
  IF halves # NoNumber /\ (halves > 0) THEN halves \div 2 ELSE default

\* Mutant: a limit below the least one is let through.
NormalizedLimitUpTo(limit, config) ==
  Smaller(Parsed(limit, Or(config.defaultLimit, DefaultPageLimit)),
          Larger(Or(config.maxLimit, DefaultMaxLimit), Larger(Or(config.minLimit, 1), 1)))
NormalizedLimit(limit, config) ==
  LET minLimit == Larger(Or(config.minLimit, 1), 1)
      maxLimit == Larger(Or(config.maxLimit, DefaultMaxLimit), minLimit)
      candidate == Parsed(limit, Or(config.defaultLimit, DefaultPageLimit))
  IN  Smaller(Larger(candidate, minLimit), maxLimit)
NormalizeParams(page, limit, config) ==
  [page |-> Parsed(page, Or(config.defaultPage, 1)), limit |-> NormalizedLimit(limit, config)]

\* Mutants: the offset of the next page; pages counted for records.
OffsetOfNext(page, limit) == page * limit
OffsetInPages(page, limit) == Larger(page - 1, 0)
CalculateOffset(page, limit) == Larger(page - 1, 0) * limit

\* Math.ceil(records / limit)
CalculateTotalPages(records, limit) ==
  IF limit <= 0 THEN 0 ELSE (records + limit - 1) \div limit

\* Mutant: "at least as many" for "more".
HasNextPageAtLeast(records, page, limit) == limit > 0 /\ page * limit <= records
HasNextPage(records, page, limit) == limit > 0 /\ page * limit < records

\* Skip the offset, take the limit.
Records(page, limit) ==
  {i \in 0 .. (total - 1) : CalculateOffset(page, limit) <= i
                            /\ i < CalculateOffset(page, limit) + limit}

ReadFirstPage ==
  /\ ~reading /\ reading' = TRUE
  /\ total' \in Totals
  /\ \E page, limit \in Halves, config \in PageConfigs :
       pageReq' = NormalizeParams(page, limit, config)
  /\ firstPage' = pageReq'.page
  /\ shown' = Records(pageReq.page, pageReq.limit)' /\ shownAgain' = {}

\* buildResponse said that there is another one.
ReadNextPage ==
  /\ reading /\ HasNextPage(total, pageReq.page, pageReq.limit)
  /\ pageReq' = [pageReq EXCEPT !.page = @ + 1]
  /\ LET records == Records(pageReq.page + 1, pageReq.limit) IN
     /\ shownAgain' = shownAgain \cup (shown \cap records)
     /\ shown' = shown \cup records
  /\ UNCHANGED <<reading, total, firstPage>>

StopReading == reading /\ reading' = FALSE /\ UNCHANGED <<pageReq, total, firstPage, shown, shownAgain>>

PagesNext == ReadFirstPage \/ ReadNextPage \/ StopReading
PagesSpec == PagesInit /\ [][PagesNext]_pageVars
-----------------------------------------------------------------------------
(* Properties *)

PagesTypeOK ==
  /\ reading \in BOOLEAN /\ total \in Nat /\ firstPage \in Nat
  /\ pageReq \in [page : Nat, limit : Nat \ {0}]

\* pagination.ts:74 and :81: the two ways the answer tells how far the list goes
\* agree: there is a next page as long as the page is not the last of totalPages.
PagesAgree ==
  HasNextPage(total, pageReq.page, pageReq.limit)
    <=> pageReq.page < CalculateTotalPages(total, pageReq.limit)

\* What has been shown to a reader: everything from the first page's offset up to
\* the end of the last page, so that one who began with the first page and was told
\* of no further one has seen everything.
ReadersMissNothing ==
  reading =>
    shown = {i \in 0 .. (total - 1) : CalculateOffset(firstPage, pageReq.limit) <= i
                                      /\ i < CalculateOffset(pageReq.page, pageReq.limit) + pageReq.limit}
LastPageEndsTheList ==
  reading /\ firstPage <= 1 /\ ~HasNextPage(total, pageReq.page, pageReq.limit)
    => shown = 0 .. (total - 1)

\* No record is shown on two pages, unless the first page asked for was a fraction
\* below 1 (pagination.ts:64): it becomes page 0, and shows what page 1 shows.
NothingTwice == shownAgain # {} => firstPage = 0

\* A reader who follows a list is shown all of it, once.
PagesShowAllOnce == PagesAgree /\ LastPageEndsTheList /\ NothingTwice
=============================================================================
