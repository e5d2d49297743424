------------------------------- MODULE IssFetch -------------------------------
(***************************************************************************)
(* fetch_daily_candles of src/stonksbot/data/moex_iss.py: paging through   *)
(* the candles of one window, one loop iteration per action, against a     *)
(* server whose content may change between two pages and whose answers     *)
(* may be wrong.  A bar is its begin; prices are left out, and a payload   *)
(* the parser refuses is one outcome, ReadRaises.                          *)
(***************************************************************************)
EXTENDS Naturals, FiniteSets

CONSTANTS
    Bar,            \* the bars ISS may come to hold for the window
    MaxPage,        \* bound on the page size of an answer
    NULL

\* Assumed by the modules that fix the constants.
FetchAssumption ==
    /\ Bar \subseteq Nat
    /\ IsFiniteSet(Bar)
    /\ MaxPage \in Nat \ {0}
    /\ NULL \notin [index : Nat, total : Nat, page_size : Nat]

VARIABLES
    server,         \* the bars ISS holds now
    start,          \* the offset of the next request
    parsed,         \* the bars collected so far
    state,          \* "asking" (top of the loop), "awaiting", "returned", "raised"
    asked,          \* what ISS held when the fetch began, as long as it is honest
    owed,           \* the last cursor announced more bars than were collected
    honest          \* ISS answered truly so far and withdrew no bar

fetchVars == <<start, parsed, state, owed>>
vars == <<server, fetchVars, asked, honest>>

Init ==
    /\ server \in SUBSET Bar
    /\ start = 0
    /\ parsed = {}
    /\ state = "asking"
    /\ asked = server
    /\ owed = FALSE
    /\ honest = TRUE

-----------------------------------------------------------------------------
Fetching == state \in {"asking", "awaiting"}

Rank(b) == Cardinality({c \in server : c < b})

\* What ISS answers truly when asked from the present offset with page size p.
TruePage(p) == {b \in server : Rank(b) \in start .. start + p - 1}

TrueCursor(p) == [index |-> start, total |-> Cardinality(server), page_size |-> p]

\* _append_unique_candles refuses a bar already collected.
Repeats(page) == page \cap parsed # {}

\* Mutation: the cursor's index need not be the offset asked for.
Malformed_IndexUnchecked(cursor) == cursor.page_size = 0

\* Mutation: the cursor's page size need not be positive.
Malformed_SizeUnchecked(cursor) == cursor.index # start

\* _parse_positive_int refuses a page size of 0; the index must be the offset asked for.
Malformed(cursor) == cursor.page_size = 0 \/ cursor.index # start

\* Mutation: TOTAL is taken for the index of the last bar.
Finished_LastIndex(page, cursor) == Cardinality(parsed \cup page) + 1 >= cursor.total

Finished(page, cursor) == Cardinality(parsed \cup page) >= cursor.total

Refused(page, cursor) ==
    \/ Repeats(page)
    \/ cursor = NULL /\ page # {}
    \/ cursor # NULL /\ Malformed(cursor)
    \/ /\ cursor # NULL
       /\ ~Finished(page, cursor)
       /\ Cardinality(page) # cursor.page_size

Returns(page, cursor) ==
    \/ cursor = NULL /\ page = {}
    \/ cursor # NULL /\ Finished(page, cursor)

\* Mutation: the size asked for is taken for the size of the page.
NextStart_PageLimit(cursor) == cursor.index + MaxPage

NextStart(cursor) == cursor.index + cursor.page_size

\* build_candles_url and the call of the reader.
Request ==
    /\ state = "asking"
    /\ state' = "awaiting"
    /\ UNCHANGED <<server, start, parsed, owed, asked, honest>>

\* The rest of the iteration, on an answer the parser accepts.
Read(page, cursor) ==
    /\ state = "awaiting"
    /\ owed' = IF cursor = NULL THEN owed ELSE ~Finished(page, cursor)
    /\ IF Refused(page, cursor)
       THEN state' = "raised" /\ UNCHANGED <<start, parsed>>
       ELSE /\ parsed' = parsed \cup page
            /\ IF Returns(page, cursor)
               THEN state' = "returned" /\ UNCHANGED start
               ELSE state' = "asking" /\ start' = NextStart(cursor)

ReadTrue ==
    /\ \E p \in 1..MaxPage : Read(TruePage(p), TrueCursor(p))
    /\ UNCHANGED <<server, asked, honest>>

\* Any answer at all: a cursor's index only matters as the offset asked for or another,
\* its total only against the number of bars collected, never above Cardinality(Bar).
Cursor == [index : {start, start + 1}, total : 0 .. Cardinality(Bar) + 1,
           page_size : 0..MaxPage]

ReadWrong ==
    /\ \E page \in SUBSET Bar, cursor \in Cursor \cup {NULL} : Read(page, cursor)
    /\ honest' = FALSE
    /\ asked' = {}
    /\ UNCHANGED server

\* The reader times out, or parse_candles, loads_iss_json or _parse_cursor refuses.
ReadRaises ==
    /\ state = "awaiting"
    /\ state' = "raised"
    /\ UNCHANGED <<server, start, parsed, owed, asked, honest>>

\* ISS publishes a bar, the last session's or an older one it had not.  After a wrong
\* answer or a withdrawal any answer is possible, whatever ISS holds.
Publish(b) ==
    /\ Fetching /\ honest
    /\ b \notin server
    /\ server' = server \cup {b}
    /\ UNCHANGED <<fetchVars, asked, honest>>

Withdraw(b) ==
    /\ Fetching /\ honest
    /\ b \in server
    /\ server' = server \ {b}
    /\ honest' = FALSE
    /\ asked' = {}
    /\ UNCHANGED fetchVars

Answer == ReadTrue \/ ReadWrong \/ ReadRaises

Next == Request \/ Answer \/ \E b \in Bar : Publish(b) \/ Withdraw(b)

\* The reader has a timeout, so each request is answered or raises.
Spec == Init /\ [][Next]_vars /\ WF_vars(Request) /\ WF_vars(Answer)

-----------------------------------------------------------------------------
TypeOK ==
    /\ server \subseteq Bar
    /\ asked \subseteq Bar
    /\ start \in 0..Cardinality(Bar)
    /\ parsed \subseteq Bar
    /\ state \in {"asking", "awaiting", "returned", "raised"}
    /\ owed \in BOOLEAN
    /\ honest \in BOOLEAN

\* A fetch ISS answered truly misses nothing: what it returns holds every bar ISS held
\* when it began, although page sizes vary and ISS publishes bars before, between and
\* after the pages already read.  A backfill that shifts the offsets must surface as a
\* repeated bar, never as a skipped one.
CompleteIfHonest == (state = "returned" /\ honest) => asked \subseteq parsed

\* The offset never drifts from the number of bars collected, whatever ISS answers: it is
\* what makes the next page the one that follows.
OffsetCountsBars == Fetching => start = Cardinality(parsed)

\* The loop ends whatever ISS answers, one wrong answer after another included: each
\* page that does not end it adds bars not seen before.
FetchEnds == <>~Fetching

-----------------------------------------------------------------------------
\* ROADMAP.md:28-29: the fetch "paginates to cursor TOTAL, fails closed on missing
\* cursor": once a cursor announced a total, returning fewer bars than it is truncation.
ReachesTotal == state = "returned" => ~owed

=============================================================================
