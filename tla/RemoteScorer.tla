----------------------------- MODULE RemoteScorer -----------------------------
(***************************************************************************)
(* Scores as the API gets them (internal/scoringsvc): from the scoring     *)
(* service over gRPC, or computed in the API when the service does not     *)
(* answer, refuses, or answers with too few scores.                        *)
(*                                                                         *)
(* A call carries the reviews its handler read and the day it evaluates    *)
(* them on.  The store stands still while calls run: a call has read its   *)
(* reviews before it starts and could not tell the difference.  The        *)
(* service is deployed again while the API runs, so its model may differ   *)
(* from the API's.  gRPC is external: it tries again when a try came back  *)
(* as unavailable.  The service of this repository answers every request   *)
(* of a batch, in order; one of another build may not.                     *)
(* The counter of fallbacks, which only feeds the log, is left out.        *)
(***************************************************************************)
EXTENDS Scoring

CONSTANTS
    Callers,      \* requests being served by the API
    Guests,
    Listing,      \* the guests in the order the store lists them
    Samples,      \* guest -> reviews that may be filed, without their day
    Lags,         \* days between a review's date and its filing
    Calendar,     \* the days on which something happens
    MaxStays,     \* guest -> bound on its reviews
    LocalModel,   \* the version of the model the API is built with
    Models,       \* the versions the service may be deployed with
    MaxAttempts,  \* of gRPC, per call
    MaxBatch,     \* guests the service takes in one batch
    None

Stays == {s.stay : s \in UNION {Samples[g] : g \in Guests}}

ASSUME ScorerAssumption ==
    /\ Calendar \subseteq Nat /\ 0 \in Calendar /\ IsFiniteSet(Calendar)
    /\ Lags \subseteq Int
    /\ IsFiniteSet(Guests)
    /\ Listing \in [1..Cardinality(Guests) -> Guests]
    /\ \A g \in Guests : \E i \in DOMAIN Listing : Listing[i] = g
    /\ \A g \in Guests : Samples[g] \subseteq Reviews(Stays)
    /\ MaxStays \in [Guests -> Nat]
    /\ LocalModel \in Models
    /\ MaxAttempts \in Nat \ {0} /\ MaxBatch \in Nat

VARIABLES
    file,     \* guest -> reviews in the store
    today,
    service,  \* the version the service runs, None while it is down
    pc,       \* the state of each call
    op,       \* "score" or "batch"
    items,    \* the reviews sent, guest by guest
    at,       \* the day they are evaluated on
    tries,    \* tries that failed
    reply,    \* the scores the service has sent, as on the wire
    answer    \* the scores the caller has got

call == <<pc, op, items, at, tries, reply, answer>>
vars == <<file, today, service, call>>

Dated(s, day) == [s EXCEPT !.submittedAt = day]

Init ==
    /\ file = [g \in Guests |-> {}]
    /\ today = 0
    /\ service \in Models \cup {None}
    /\ pc = [c \in Callers |-> "idle"]
    /\ op = [c \in Callers |-> "score"]
    /\ items = [c \in Callers |-> <<>>]
    /\ at = [c \in Callers |-> 0]
    /\ tries = [c \in Callers |-> 0]
    /\ reply = [c \in Callers |-> <<>>]
    /\ answer = [c \in Callers |-> <<>>]

-----------------------------------------------------------------------------
(* The store, the calendar, the service.                                    *)

Still == \A c \in Callers : pc[c] = "idle"

File(g, s, lag) ==
    /\ Still
    /\ Cardinality(file[g]) < MaxStays[g]
    /\ \A r \in file[g] : r.stay # s.stay
    /\ file' = [file EXCEPT ![g] = @ \cup {Dated(s, today + lag)}]
    /\ UNCHANGED <<today, service, call>>

Tick ==
    /\ \E day \in Calendar : day > today
    /\ today' = Min({day \in Calendar : day > today})
    /\ UNCHANGED <<file, service, call>>

\* Stopped, or started, perhaps with another version of the model.
Deploy ==
    /\ service' \in (Models \cup {None}) \ {service}
    /\ UNCHANGED <<file, today, call>>

-----------------------------------------------------------------------------
(* A call.                                                                  *)

Goto(c, l) == pc' = [pc EXCEPT ![c] = l]

\* A score on its way stands for what it is computed from: Compute is a
\* function of these reviews, this day and this model.
Score(reviews, day, m) == [of |-> reviews, on |-> day, by |-> m]

\* As the API computes them itself.
Scored(c, m) == [i \in DOMAIN items[c] |-> Score(items[c][i], at[c], m)]

\* On the wire a dispute is a message of its own, an empty status is none.
ReviewToProto(r) ==
    [stay |-> r.stay, ratings |-> r.q, submittedAt |-> r.submittedAt,
     incidents |-> r.incidents, commendations |-> r.commendations,
     dispute |-> [status |-> IF r.dispute = "none" THEN "" ELSE r.dispute]]

ReviewFromProto(p) ==
    [stay |-> p.stay, q |-> p.ratings, submittedAt |-> p.submittedAt,
     incidents |-> p.incidents, commendations |-> p.commendations,
     dispute |-> IF p.dispute.status = "" THEN "none" ELSE p.dispute.status]

\* The service adds its version, the API drops it.
ScoreToProto(s, version) == [score |-> s, version |-> version]
ScoreFromProto(p) == p.score

Request(c) == [i \in DOMAIN items[c] |-> {ReviewToProto(r) : r \in items[c][i]}]

computeOne(request, day, m) ==
    ScoreToProto(Score({ReviewFromProto(p) : p \in request}, day, m), m)

\* A directory query scores the guests it finds, in the order of the listing.
Pages ==
    LET Listed(g) == CHOOSE i \in DOMAIN Listing : Listing[i] = g
    IN  {page \in UNION {[1..n -> Guests] : n \in 0..Cardinality(Guests)} :
            \A i, j \in DOMAIN page : i < j => Listed(page[i]) < Listed(page[j])}

Begin(c, o, page) ==
    /\ pc[c] = "idle"
    /\ Goto(c, "call")
    /\ op' = [op EXCEPT ![c] = o]
    /\ items' = [items EXCEPT ![c] = [i \in DOMAIN page |-> file[page[i]]]]
    /\ at' = [at EXCEPT ![c] = today]
    /\ UNCHANGED <<file, today, service, tries, reply, answer>>

\* A batch of none is answered without a call.
BeginScore(c, g)    == Begin(c, "score", <<g>>)
BeginBatch(c, page) == page # <<>> /\ Begin(c, "batch", page)

Answer(c, scores) ==
    /\ Goto(c, "answered")
    /\ answer' = [answer EXCEPT ![c] = scores]
    /\ reply' = [reply EXCEPT ![c] = <<>>]
    /\ UNCHANGED <<file, today, service, op, items, at, tries>>

\* All of a page is computed again.
FallBack(c) == Answer(c, Scored(c, LocalModel))

Serve(c) ==
    /\ pc[c] = "call" /\ service # None
    /\ op[c] = "batch" => Len(items[c]) <= MaxBatch
    /\ reply' = [reply EXCEPT ![c] =
           [i \in DOMAIN Request(c) |-> computeOne(Request(c)[i], at[c], service)]]
    /\ Goto(c, "reply")
    /\ UNCHANGED <<file, today, service, op, items, at, tries, answer>>

\* A batch that is too large is refused, which no retry is made for.
Refuse(c) ==
    /\ pc[c] = "call" /\ service # None
    /\ op[c] = "batch" /\ Len(items[c]) > MaxBatch
    /\ FallBack(c)

\* Another build of the service leaves one out.
Shorten(c) ==
    /\ pc[c] = "reply" /\ op[c] = "batch"
    /\ \E i \in DOMAIN reply[c] :
           reply' = [reply EXCEPT ![c] = SubSeq(@, 1, i - 1) \o SubSeq(@, i + 1, Len(@))]
    /\ UNCHANGED <<file, today, service, pc, op, items, at, tries, answer>>

Again(c) ==
    /\ Goto(c, "call")
    /\ reply' = [reply EXCEPT ![c] = <<>>]
    /\ UNCHANGED <<file, today, service, op, items, at, answer>>

\* Seeded fault: the first try is not counted as one.
UnavailableOnceMore(c) ==
    /\ pc[c] \in {"call", "reply"}
    /\ IF tries[c] < MaxAttempts
       THEN Again(c) /\ tries' = [tries EXCEPT ![c] = @ + 1]
       ELSE FallBack(c)

\* The service cannot be reached, or goes away before it has answered.
Unavailable(c) ==
    /\ pc[c] \in {"call", "reply"}
    /\ IF tries[c] + 1 < MaxAttempts
       THEN Again(c) /\ tries' = [tries EXCEPT ![c] = @ + 1]
       ELSE FallBack(c)

\* Seeded fault: a try that took too long is made again.
DeadlineAgain(c) ==
    /\ pc[c] \in {"call", "reply"}
    /\ Again(c) /\ UNCHANGED tries

\* One deadline for all tries.
Deadline(c) ==
    /\ pc[c] \in {"call", "reply"}
    /\ FallBack(c)

\* Seeded fault: what is missing is filled in locally.
ReceiveFilled(c) ==
    /\ pc[c] = "reply"
    /\ Answer(c, [i \in DOMAIN items[c] |->
                     IF i \in DOMAIN reply[c] THEN ScoreFromProto(reply[c][i])
                     ELSE Scored(c, LocalModel)[i]])

\* A batch of the wrong length cannot be told apart guest by guest.
Receive(c) ==
    /\ pc[c] = "reply"
    /\ IF Len(reply[c]) = Len(items[c])
       THEN Answer(c, [i \in DOMAIN reply[c] |-> ScoreFromProto(reply[c][i])])
       ELSE FallBack(c)

End(c) ==
    /\ pc[c] = "answered"
    /\ Goto(c, "idle")
    /\ op' = [op EXCEPT ![c] = "score"]
    /\ items' = [items EXCEPT ![c] = <<>>]
    /\ at' = [at EXCEPT ![c] = 0]
    /\ tries' = [tries EXCEPT ![c] = 0]
    /\ answer' = [answer EXCEPT ![c] = <<>>]
    /\ UNCHANGED <<file, today, service, reply>>

-----------------------------------------------------------------------------
Proceed(c) == Serve(c) \/ Refuse(c) \/ Unavailable(c) \/ Receive(c)

Next ==
    \/ \E g \in Guests, lag \in Lags : \E s \in Samples[g] : File(g, s, lag)
    \/ Tick \/ Deploy
    \/ \E c \in Callers :
           \/ \E g \in Guests : BeginScore(c, g)
           \/ \E page \in Pages : BeginBatch(c, page)
           \/ Proceed(c) \/ Shorten(c) \/ Deadline(c) \/ End(c)

Spec == Init /\ [][Next]_vars

\* A deadline passes whatever the service does.
FairSpec == Spec /\ \A c \in Callers : WF_vars(Deadline(c))

-----------------------------------------------------------------------------
(* Properties.                                                              *)

TypeOK ==
    /\ \A g \in Guests : \A r \in file[g] : r \in Reviews(Stays)
    /\ today \in Calendar
    /\ service \in Models \cup {None}
    /\ pc \in [Callers -> {"idle", "call", "reply", "answered"}]
    /\ op \in [Callers -> {"score", "batch"}]
    /\ at \in [Callers -> Calendar]
    /\ tries \in [Callers -> 0..MaxAttempts - 1]
    /\ \A c \in Callers :
           /\ Len(items[c]) \in 0..Cardinality(Guests)
           /\ Len(reply[c]) <= Len(items[c])

\* client.go:198-204 and server.go:74-77: the caller gets one score per guest,
\* in order, each of the reviews that guest's row was read with, on one day and
\* by one model, whatever the service did.
AnswersAreRight ==
    \A c \in Callers :
        pc[c] = "answered" => \E m \in Models : answer[c] = Scored(c, m)

\* Every call is answered: the deadline covers all tries.
CallsEnd == \A c \in Callers : pc[c] = "call" ~> pc[c] = "answered"

Shown(g) == Compute(file[g], today, DefaultModel)

\* scoring.go:406-412 and TestFlaggedOnlyBelowFiveHundred: tier, flag, handling
\* and the gap to the next tier are worked out by different functions and agree:
\* the desk escalates exactly the flagged, the gap ends on the floor of the next
\* tier up, and nobody is greeted as a VIP within a year of an incident.
StandingIsConsistent ==
    \A g \in Guests :
        LET score == Shown(g) IN
        /\ score.flagged <=> score.handling = "escalate"
        /\ score.flagged => score.composite < 5000
        /\ score.next # "" =>
               /\ score.gap > 0
               /\ tierFor(score.composite + score.gap, DefaultModel).name = score.next
               /\ tierFor(score.composite + score.gap - 1, DefaultModel).name # score.next
        /\ score.handling = "vip_treatment" =>
               \A r \in file[g] :
                   Scoreable(r) /\ Age(r, today) <= 365 => r.incidents = <<>>

Without(all, r) == (all \ {r}) \cup {[r EXCEPT !.incidents = Tail(@)]}

\* README.md:142-149, "Incidents always move it down": an incident of the last
\* year costs points however many commendations there are.  In the last ten
\* points of the scale a tenth is too coarse to tell.
IncidentsLowerTheScore ==
    \A g \in Guests : \A r \in file[g] :
        /\ Scoreable(r) /\ r.incidents # <<>> /\ Age(r, today) <= 365
        /\ Shown(g).composite >= 100
        => Shown(g).composite < Compute(Without(file[g], r), today, DefaultModel).composite

\* scoring.go:382-384, README.md:142-149: however old an incident is, and at
\* whatever end of the scale the score is, nobody is shown a higher one for it.
IncidentsNeverHelp ==
    \A g \in Guests : \A r \in file[g] :
        Scoreable(r) /\ r.incidents # <<>> =>
            Shown(g).composite <= Compute(Without(file[g], r), today, DefaultModel).composite

\* README.md:157-160: a record under an open or upheld dispute leaves no trace
\* in the score but its count.
DisputedAreLeftOut ==
    \A g \in Guests :
        LET left == {r \in file[g] : r.dispute \in {"open", "upheld"}} IN
        [Shown(g) EXCEPT !.disputed = 0] = Compute(file[g] \ left, today, DefaultModel)

\* scoring.go:766-774, README.md:152-155: between the bounds saturate is the identity and above
\* them "1146 raw -> 991.5": a guest without an incident is shown the lifted
\* total, saturated once.
LiftIsShown ==
    \A g \in Guests :
        LET counted == {r \in file[g] : Scoreable(r)} IN
        counted # {} /\ (\A r \in counted : r.incidents = <<>>) =>
            Shown(g).composite = saturate(Raw(counted, today, DefaultModel), DefaultModel)
=============================================================================
