------------------------------- MODULE Directory -------------------------------
(***************************************************************************)
(* What members read: the directory of the REST API and of the GraphQL API *)
(* page by page, the search without Elasticsearch, and the statistics.     *)
(*                                                                         *)
(* A request reads the list of guests first and then each guest's reviews, *)
(* one call after the other, while desks open files and file reviews.      *)
(* It filters, scores, sorts and cuts what it has read; as a score depends *)
(* on nothing but the reviews read and the day, it does so here at the end *)
(* of the reads.  One member at a time goes through a listing; its         *)
(* requests only read, so more of them would not meet.                     *)
(*                                                                         *)
(* Left out: the filter by nationality, the averages, and the answers from *)
(* Elasticsearch and from the score cache, which ReadModels is about.      *)
(***************************************************************************)
EXTENDS Scoring, SequencesExt

CONSTANTS
    Guests,
    Id, Name,     \* guest -> number that sorts like its id, like its name
    ByName,       \* text -> guests whose name or email contains it
    ByGlobalID,   \* text -> guests whose global id contains it
    Queries,      \* what members ask: [kind, text, tier, incidents, sort]
    PageSize,     \* rows a member asks for at a time
    Samples,      \* guest -> reviews that may be filed, without their day
    Lags,         \* days between a review's date and its filing
    Calendar,     \* the days on which something happens
    MaxStays,     \* guest -> bound on its reviews
    None

Kinds == {"list", "guests", "search", "searchGuests", "stats"}
Sorts == {"score", "name", "reviews", "recent", "composite", "none"}

Texts == DOMAIN ByName

Stays == {s.stay : s \in UNION {Samples[g] : g \in Guests}}

\* A review with the day its stay ended on.
Records ==
    [stay : Stays, q : 100..500, submittedAt : Int, checkOut : Int, incidents : Seq(Incidents),
     commendations : Seq(DOMAIN BaseBonus), dispute : {"none", "open", "upheld", "rejected"}]

ASSUME DirectoryAssumption ==
    /\ IsFiniteSet(Guests)
    /\ Id \in [Guests -> Nat] /\ \A g, h \in Guests : Id[g] = Id[h] => g = h
    /\ Name \in [Guests -> Nat]
    /\ ByName \in [Texts -> SUBSET Guests] /\ ByGlobalID \in [Texts -> SUBSET Guests]
    /\ Queries \subseteq [kind : Kinds, text : Texts, tier : STRING, incidents : BOOLEAN,
                          sort : Sorts]
    /\ \A q \in Queries : q.kind = "searchGuests" => q.sort = "none"
    /\ None \notin Queries
    /\ PageSize \in Nat \ {0}
    /\ \A g \in Guests : Samples[g] \subseteq Records
    /\ Calendar \subseteq Nat /\ Calendar # {}
    /\ Lags \subseteq Nat /\ \A day \in Calendar, lag \in Lags : day - lag >= 365
    /\ MaxStays \in [Guests -> Nat]

Model == DefaultModel

VARIABLES
    \* the store
    database,  \* "postgres" or "file", which differ in the order of namesakes
    open,      \* guests with a file
    file,      \* guest -> its reviews
    today,
    \* the request
    pc,
    query,
    offset,
    at,        \* `now` of the handler
    all,       \* AllReviews as read, by guest
    listed,    \* guests whose reviews it reads, in the store's order
    read,      \* what it has read: [guest, reviews, day]
    rows,      \* the answer
    total,
    stays,     \* GraphQL: the stays shown with each row
    stat,
    \* the member
    book,      \* guests on the pages it has been through
    began,     \* history: the store as the request began
    still      \* history: nothing has changed since the first page was asked for

store == <<database, open, file, today>>
request == <<pc, query, offset, at, all, listed, read, rows, total, stays, stat>>
member == <<book, began, still>>
vars == <<store, request, member>>

-----------------------------------------------------------------------------
(* Dates.  Days count from a first of January, in years of 365 days.        *)

DaysBefore == <<0, 31, 59, 90, 120, 151, 181, 212, 243, 273, 304, 334>>

\* Months count through from the January of day 0.
MonthOf(day) ==
    12 * (day \div 365) + Max({m \in 1..12 : DaysBefore[m] <= day % 365}) - 1

FirstOf(month) == 365 * (month \div 12) + DaysBefore[(month % 12) + 1]

DayOfMonth(day) == day - FirstOf(MonthOf(day)) + 1

\* AddDate(0, k, 0): a day the month does not have is one of the next month.
AddMonths(day, k) == FirstOf(MonthOf(day) + k) + DayOfMonth(day) - 1

-----------------------------------------------------------------------------
(* Filters and orders.                                                      *)

\* handleListGuests looks at name and email, MatchesInProcess at the global
\* id too; the statistics are of everybody.
Matches(q, g) ==
    \/ q.kind = "stats"
    \/ g \in ByName[q.text]
    \/ q.kind # "list" /\ g \in ByGlobalID[q.text]

IncidentCount(reviews) ==
    LET counted == {r \in reviews : Scoreable(r)}
    IN  SumFunction([r \in counted |-> Len(r.incidents)])

LastStayAt(reviews) ==
    IF reviews = {} THEN None ELSE Max({r.checkOut : r \in reviews})

Row(g, reviews, score) ==
    [guest |-> g, score |-> score, incidents |-> IncidentCount(reviews),
     last |-> LastStayAt(reviews)]

\* The tier compares without regard to case.
Passes(q, row) == q.tier \in {"", row.score.tier} /\ (q.incidents => row.incidents > 0)

\* sortSummaries and the orders of the others, as `less` functions.
Before(sort, a, b) ==
    CASE sort = "name"      -> Name[a.guest] < Name[b.guest]
      [] sort = "reviews"   -> a.score.stays > b.score.stays
      [] sort = "recent"    -> a.last # None /\ (b.last = None \/ a.last > b.last)
      [] sort = "composite" -> a.score.composite > b.score.composite
      [] sort = "none"      -> FALSE
      [] sort = "score"     -> \/ a.score.composite > b.score.composite
                               \/ /\ a.score.composite = b.score.composite
                                  /\ Name[a.guest] < Name[b.guest]

\* Seeded fault: the limit is left to the reader.
WindowUncut(seq, from) == SubSeq(seq, from + 1, Len(seq))

\* Seeded fault: the last page is cut by one too many.
WindowShort(seq, from) == SubSeq(seq, from + 1, Min({from + PageSize, Len(seq) - 1}))

\* Nothing when the offset is past the end.
Window(seq, from) == SubSeq(seq, from + 1, Min({from + PageSize, Len(seq)}))

-----------------------------------------------------------------------------
Init ==
    /\ database \in {"postgres", "file"}
    /\ open \in SUBSET Guests
    /\ file = [g \in Guests |-> {}]
    /\ today = Min(Calendar)
    /\ pc = "idle" /\ query = None /\ offset = 0 /\ at = 0
    /\ all = None /\ listed = <<>> /\ read = <<>>
    /\ rows = <<>> /\ total = 0 /\ stays = <<>> /\ stat = None
    /\ book = <<>> /\ began = None /\ still = TRUE

(* The store meanwhile.                                                     *)

\* Nobody waits for an idle member: what changed before it asks is no news.
Changed == still' = (pc = "idle")

OpenFile(g) ==
    /\ g \notin open
    /\ open' = open \cup {g}
    /\ Changed
    /\ UNCHANGED <<database, file, today, request, book, began>>

File(g, s, lag) ==
    /\ g \in open
    /\ Cardinality(file[g]) < MaxStays[g]
    /\ \A r \in file[g] : r.stay # s.stay
    /\ file' = [file EXCEPT ![g] = @ \cup {[s EXCEPT !.submittedAt = today - lag,
                                                      !.checkOut = @ + today - lag]}]
    /\ Changed
    /\ UNCHANGED <<database, open, today, request, book, began>>

Tick ==
    /\ \E day \in Calendar : day > today
    /\ today' = Min({day \in Calendar : day > today})
    /\ Changed
    /\ UNCHANGED <<database, open, file, request, book, began>>

-----------------------------------------------------------------------------
(* A request.                                                               *)

\* A member asks for the first page.
Ask(q) ==
    /\ pc = "idle"
    /\ pc' = "list" /\ query' = q
    /\ UNCHANGED <<store, offset, at, all, listed, read, rows, total, stays, stat, member>>

\* ListGuests and the filter on text: by name, namesakes by id.  The JSON store takes them from a
\* map and sorts them by name alone, so namesakes come as they happen to.
Listings ==
    LET found == {g \in open : Matches(query, g)}
    IN  {seq \in [1..Cardinality(found) -> found] :
            \A i, j \in DOMAIN seq : i < j =>
                /\ seq[i] # seq[j]
                /\ Name[seq[i]] <= Name[seq[j]]
                /\ database = "postgres" /\ Name[seq[i]] = Name[seq[j]] => Id[seq[i]] < Id[seq[j]]}

ListGuests ==
    /\ pc = "list"
    /\ pc' = IF query.kind = "stats" THEN "all" ELSE "read"
    /\ listed' \in Listings
    /\ at' = today
    /\ began' = [open |-> open, file |-> file, day |-> today]
    /\ UNCHANGED <<store, query, offset, all, read, rows, total, stays, stat, book, still>>

AllReviews ==
    /\ pc = "all"
    /\ pc' = "read"
    /\ all' = file
    /\ at' = today
    /\ UNCHANGED <<store, query, offset, listed, read, rows, total, stays, stat, member>>

Scored(entry) == Compute(entry.reviews, entry.day, Model)

RowOf(entry) == Row(entry.guest, entry.reviews, Scored(entry))

\* The GraphQL search stops when it has as many hits as it was asked for.
Enough ==
    \/ Len(read) = Len(listed)
    \/ /\ query.kind = "searchGuests"
       /\ Cardinality({i \in DOMAIN read : Passes(query, RowOf(read[i]))}) = PageSize

\* The next guest's reviews.  The GraphQL search asks for the day every time.
ReviewsForGuest ==
    /\ pc = "read" /\ ~Enough
    /\ LET g == listed[Len(read) + 1]
           day == IF query.kind = "searchGuests" THEN today ELSE at
       IN  read' = Append(read, [guest |-> g, reviews |-> file[g], day |-> day])
    /\ UNCHANGED <<store, pc, query, offset, at, all, listed, rows, total, stays, stat, member>>

\* Seeded fault: guests without reviews are left out of the batch.
ItemsWithReviews == SelectSeq([i \in DOMAIN read |-> read[i].reviews], LAMBDA rs : rs # {})

Items == [i \in DOMAIN read |-> read[i].reviews]

\* Score{}: what a guest is shown with whom the batch has no score for.
NoScore == [Opening(0, Model) EXCEPT !.composite = 0, !.tier = ""]

\* resolveDirectory scores in one batch, after its reads, and puts scores and
\* guests together by their place.
BatchRows ==
    LET items == Items
        scores == [i \in DOMAIN items |-> Compute(items[i], today, Model)]
    IN  [i \in DOMAIN read |->
            Row(read[i].guest, read[i].reviews,
                IF i \in DOMAIN scores THEN scores[i] ELSE NoScore)]

AllRows ==
    IF query.kind = "guests" THEN BatchRows ELSE [i \in DOMAIN read |-> RowOf(read[i])]

\* What passes the filters, as SliceStable orders it.
Orders(table) ==
    LET passing == {i \in DOMAIN table : Passes(query, table[i])}
        first(i, j) == \/ Before(query.sort, table[i], table[j])
                       \/ ~Before(query.sort, table[j], table[i]) /\ i < j
    IN  {order \in [1..Cardinality(passing) -> passing] :
            \A i, j \in DOMAIN order :
                i < j => order[i] # order[j] /\ first(order[i], order[j])}

\* Filtered, sorted, cut.
Finish ==
    /\ pc = "read" /\ Enough /\ query.kind # "stats"
    /\ LET table == AllRows IN
       \E order \in Orders(table) :
           LET found == [n \in DOMAIN order |-> table[order[n]]]
               page == Window(found, offset)
           IN  /\ rows' = page
               /\ total' = IF query.kind = "list" THEN Len(found) ELSE Len(page)
               /\ book' = book \o [i \in DOMAIN page |-> page[i].guest]
               /\ pc' = IF query.kind \in {"guests", "searchGuests"} /\ page # <<>>
                        THEN "stays" ELSE "answered"
    /\ UNCHANGED <<store, query, offset, at, all, listed, read, stays, stat, began, still>>

\* GraphQL resolves `stays` of a row after the scores: it reads them again.
ResolveStays ==
    /\ pc = "stays"
    /\ stays' = Append(stays, file[rows[Len(stays) + 1].guest])
    /\ pc' = IF Len(stays) + 1 = Len(rows) THEN "answered" ELSE "stays"
    /\ UNCHANGED <<store, query, offset, at, all, listed, read, rows, total, stat, member>>

-----------------------------------------------------------------------------
(* Statistics.                                                              *)

Discount(tier) == CASE tier = "Excellent" -> 20 [] tier = "Good" -> 10 [] OTHER -> 0

TierNames == {Model.tiers[i].name : i \in DOMAIN Model.tiers}

\* Seeded fault: guests without a record are counted in the tier their
\* opening score would be in.
TiersOfAll(seq) ==
    [t \in TierNames |->
        Cardinality({i \in DOMAIN seq : tierFor(seq[i].score.composite, Model).name = t})]

\* Rated guests, tier by tier; a tier nobody is in shows as 0.
Tiers(seq) ==
    [t \in TierNames |->
        Cardinality({i \in DOMAIN seq : seq[i].score.rated /\ seq[i].score.tier = t})]

\* The reviews of twelve months, the one of eleven months ago first.
Timeline(now) ==
    LET cursor[i \in 1..12] ==
            IF i = 1 THEN AddMonths(now, -11) ELSE AddMonths(cursor[i - 1], 1)
        written(month) ==
            SumFunction([g \in Guests |->
                Cardinality({r \in all[g] : MonthOf(r.submittedAt) = month})])
    IN  [i \in 1..12 |-> [month |-> MonthOf(cursor[i]), count |-> written(MonthOf(cursor[i]))]]

Statistics ==
    LET everyone == [i \in DOMAIN read |-> RowOf(read[i])]
        rated == {i \in DOMAIN everyone : everyone[i].score.rated}
    IN  [guests     |-> Len(listed),
         reviews    |-> SumFunction([g \in Guests |-> Cardinality(all[g])]),
         rated      |-> Cardinality(rated),
         unrated    |-> Cardinality({i \in DOMAIN everyone : ~everyone[i].score.rated}),
         tiers      |-> Tiers(everyone),
         discounted |-> Cardinality({i \in rated : Discount(everyone[i].score.tier) > 0}),
         flagged    |-> Cardinality({i \in rated : everyone[i].score.flagged}),
         withIncidents |-> Cardinality({i \in rated : everyone[i].incidents > 0}),
         incidents  |-> SumFunction([i \in rated |-> everyone[i].incidents]),
         timeline   |-> Timeline(at)]

FinishStats ==
    /\ pc = "read" /\ Enough /\ query.kind = "stats"
    /\ pc' = "answered"
    /\ stat' = Statistics
    /\ UNCHANGED <<store, query, offset, at, all, listed, read, rows, total, stays, member>>

-----------------------------------------------------------------------------
(* The member goes on.                                                      *)

\* The REST listing says how many there are; GraphQL does not, so its reader
\* goes on until a page is not full.
More ==
    CASE query.kind = "list"   -> offset + PageSize < total
      [] query.kind = "guests" -> Len(rows) = PageSize
      [] OTHER                 -> FALSE

NextPage ==
    /\ pc = "answered" /\ More
    /\ pc' = "list" /\ offset' = offset + PageSize
    /\ at' = 0 /\ listed' = <<>> /\ read' = <<>>
    /\ rows' = <<>> /\ total' = 0 /\ stays' = <<>>
    /\ UNCHANGED <<store, query, all, stat, member>>

Reset ==
    /\ pc' = "idle" /\ query' = None /\ offset' = 0 /\ at' = 0
    /\ all' = None /\ listed' = <<>> /\ read' = <<>>
    /\ rows' = <<>> /\ total' = 0 /\ stays' = <<>> /\ stat' = None
    /\ book' = <<>> /\ began' = None /\ still' = TRUE
    /\ UNCHANGED store

Leave == pc = "answered" /\ Reset

\* A read fails: the whole request does.
Fail == pc \in {"list", "all", "read", "stays"} /\ Reset

Next ==
    \/ \E g \in Guests : OpenFile(g)
    \/ \E g \in Guests, lag \in Lags : \E s \in Samples[g] : File(g, s, lag)
    \/ Tick
    \/ \E q \in Queries : Ask(q)
    \/ ListGuests \/ AllReviews \/ ReviewsForGuest
    \/ Finish \/ ResolveStays \/ FinishStats
    \/ NextPage \/ Leave \/ Fail

Spec == Init /\ [][Next]_vars

-----------------------------------------------------------------------------
Answered(kinds) == pc = "answered" /\ query.kind \in kinds

TypeOK ==
    /\ database \in {"postgres", "file"}
    /\ open \subseteq Guests
    /\ DOMAIN file = Guests
    /\ \A g \in Guests : /\ Cardinality(file[g]) <= MaxStays[g]
                         /\ g \notin open => file[g] = {}
    /\ today \in Calendar
    /\ pc \in {"idle", "list", "all", "read", "stays", "answered"}
    /\ query \in Queries \cup {None} /\ (query = None <=> pc = "idle")
    /\ at \in Calendar \cup {0} /\ at <= today
    /\ Len(read) <= Len(listed) /\ Len(rows) <= Min({PageSize, Len(read)})
    /\ Len(rows) <= total \/ total = 0
    /\ Len(stays) <= Len(rows)

Between(lower, upper) == {s \in SUBSET upper : lower \subseteq s}

\* Whatever is filed while a request reads: every guest it shows is one it was
\* asked for, shown once, with the score of this guest's own reviews as they
\* stood at one moment of the request; and the stays a GraphQL answer shows,
\* which are read later, leave out none that the score counts
\* (resolveDirectory, resolveSearch, handleListGuests).
RowsAreTrue ==
    \A i \in DOMAIN rows :
        LET row == rows[i]
            g == row.guest
        IN  /\ g \in open /\ Matches(query, g)
            /\ \A j \in DOMAIN rows : rows[j].guest = g => i = j
            /\ query.tier \in {"", row.score.tier}
            /\ \E seen \in Between(began.file[g], file[g]),
                  day \in Calendar \cap (began.day)..today :
                   /\ row.score = Compute(seen, day, Model)
                   /\ query.incidents => \E r \in seen : r.incidents # <<>> /\ Scoreable(r)
                   /\ i \in DOMAIN stays => seen \subseteq stays[i]

\* Whom a listing is to show of the store as it is.
Wanted ==
    LET rowNow(g) == Row(g, file[g], Compute(file[g], today, Model))
    IN  {row \in {rowNow(g) : g \in {h \in open : Matches(query, h)}} : Passes(query, row)}

\* A member who goes through a listing to its end, while nothing changes, has
\* seen every guest it asked for once and in order, and the REST API has told
\* how many they are; a search has shown the first of them.  Namesakes in the
\* JSON store are excepted: their order changes from page to page.
PagesTile ==
    LET rowOf(g) == CHOOSE row \in Wanted : row.guest = g
        wanted == {row.guest : row \in Wanted}
        certain == \/ database = "postgres"
                   \/ \A g, h \in open : Name[g] = Name[h] => g = h
        less(g, h) ==
            IF query.kind = "searchGuests" THEN Name[g] < Name[h]
                                           ELSE Before(query.sort, rowOf(g), rowOf(h))
    IN  Answered(Kinds \ {"stats"}) /\ ~More /\ still /\ certain =>
            /\ Range(book) \subseteq wanted
            /\ Len(book) = Cardinality(Range(book))
            /\ \A i, j \in DOMAIN book : i < j => ~less(book[j], book[i])
            /\ query.kind \in {"list", "guests"} => Range(book) = wanted
            /\ query.kind = "list" => total = Cardinality(wanted)
            /\ \A g \in wanted \ Range(book) :
                   Len(book) = PageSize /\ \A i \in DOMAIN book : ~less(g, book[i])

\* Every guest listed is counted once, in one tier or as unrated; files that
\* change meanwhile shift no more than they changed; and with nothing changing
\* the figures are those of the store (handleStats: "an absent tier reports 0
\* rather than vanishing").  Through day 28 the timeline is that of the last
\* twelve months.
StatsAreRight ==
    LET ratedAt(f, day) == {g \in began.open : Compute(f[g], day, Model).rated}
        tierNow(t) == {g \in open : LET s == Compute(file[g], today, Model)
                                    IN  s.rated /\ s.tier = t}
        month(i) == MonthOf(at) - 12 + i
        written(g, m) == Cardinality({r \in file[g] : MonthOf(r.submittedAt) = m})
    IN  Answered({"stats"}) =>
            /\ stat.rated + stat.unrated = stat.guests
            /\ stat.guests = Cardinality(began.open)
            /\ SumFunction(stat.tiers) = stat.rated
            /\ stat.flagged = stat.tiers["Poor"]
            /\ stat.discounted = stat.tiers["Excellent"] + stat.tiers["Good"]
            /\ stat.withIncidents <= stat.incidents
            /\ Cardinality(ratedAt(began.file, began.day)) <= stat.rated
            /\ stat.rated <= Cardinality(ratedAt(file, today))
            /\ still =>
                   /\ \A t \in TierNames : stat.tiers[t] = Cardinality(tierNow(t))
                   /\ stat.incidents = SumFunction([g \in open |-> IncidentCount(file[g])])
                   /\ stat.reviews = SumFunction([g \in open |-> Cardinality(file[g])])
            /\ DayOfMonth(at) <= 28 =>
                   \A i \in 1..12 :
                       /\ stat.timeline[i].month = month(i)
                       /\ still => stat.timeline[i].count
                                       = SumFunction([g \in open |-> written(g, month(i))])

\* "Review volume over the last 12 months, oldest bucket first."
\* (handleStats; api.go:549)
TimelineIsTheLastTwelveMonths ==
    Answered({"stats"}) =>
        \A i \in 1..12 : stat.timeline[i].month = MonthOf(at) - 12 + i
=============================================================================
