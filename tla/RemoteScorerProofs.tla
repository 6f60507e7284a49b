-------------------------- MODULE RemoteScorerProofs --------------------------
(***************************************************************************)
(* The safety of RemoteScorer for any callers, guests, calendar and        *)
(* versions of the model, and what the scoring functions agree on for any  *)
(* exponential.                                                            *)
(***************************************************************************)
EXTENDS RemoteScorer, ScoringProofs

\* The reviews of a guest, the scores of them, and those scores on the wire.
Rows   == SUBSET Reviews(Stays)
Scores == {Score(rs, day, m) : rs \in Rows, day \in Calendar, m \in Models}
Wire   == {ScoreToProto(s, m) : s \in Scores, m \in Models}

\* The whole answer of a service with model m.
Whole(c, m) ==
    [i \in DOMAIN items[c] |-> ScoreToProto(Score(items[c][i], at[c], m), m)]

\* A reply that has been cut is too short; any other is whole.
ReplyIsWholeOrShort(c) ==
    /\ pc[c] = "reply" =>
           \/ Len(reply[c]) < Len(items[c])
           \/ \E m \in Models : reply[c] = Whole(c, m)
    /\ pc[c] # "reply" => reply[c] = <<>>

AnswerIsOneModels(c) ==
    pc[c] = "answered" => \E m \in Models : answer[c] = Scored(c, m)

IInv ==
    /\ TypeOK
    /\ file \in [Guests -> Rows]
    /\ items \in [Callers -> Seq(Rows)]
    /\ reply \in [Callers -> Seq(Wire)]
    /\ answer \in [Callers -> Seq(Scores)]
    /\ \A c \in Callers : ReplyIsWholeOrShort(c) /\ AnswerIsOneModels(c)

\* A review comes out of the wire as it went in.
LEMMA RoundTrip ==
    ASSUME NEW r \in Reviews(Stays)
    PROVE  ReviewFromProto(ReviewToProto(r)) = r
BY DEF Reviews, ReviewFromProto, ReviewToProto

LEMMA RowRoundTrip ==
    ASSUME NEW rs \in Rows
    PROVE  {ReviewFromProto(p) : p \in {ReviewToProto(r) : r \in rs}} = rs
BY RoundTrip DEF Rows

LEMMA Typed ==
    ASSUME IInv, NEW c \in Callers
    PROVE  /\ items[c] \in Seq(Rows) /\ reply[c] \in Seq(Wire) /\ answer[c] \in Seq(Scores)
           /\ at[c] \in Calendar /\ tries[c] \in 0..MaxAttempts - 1
           /\ ReplyIsWholeOrShort(c) /\ AnswerIsOneModels(c)
BY DEF IInv, TypeOK

LEMMA Lengths ==
    ASSUME IInv
    PROVE  \A d \in Callers :
               /\ Len(items[d]) \in 0..Cardinality(Guests) /\ Len(items[d]) \in Nat
               /\ Len(reply[d]) \in Nat /\ Len(reply[d]) <= Len(items[d])
<1> TAKE d \in Callers
<1>1. Len(items[d]) \in 0..Cardinality(Guests) /\ Len(reply[d]) <= Len(items[d])
  BY DEF IInv, TypeOK
<1>2. Len(items[d]) \in Nat /\ Len(reply[d]) \in Nat
  BY Typed
<1> QED BY <1>1, <1>2

LEMMA ScoredTyped ==
    ASSUME IInv, NEW c \in Callers, NEW m \in Models
    PROVE  /\ Scored(c, m) \in Seq(Scores) /\ Whole(c, m) \in Seq(Wire)
           /\ Len(Whole(c, m)) = Len(items[c])
<1>1. items[c] \in Seq(Rows) /\ at[c] \in Calendar
  BY Typed
<1>2. \A i \in DOMAIN items[c] : Score(items[c][i], at[c], m) \in Scores
  BY <1>1 DEF Scores
<1>3. \A i \in DOMAIN items[c] : ScoreToProto(Score(items[c][i], at[c], m), m) \in Wire
  BY <1>2 DEF Wire
<1>4. DOMAIN items[c] = 1..Len(items[c]) /\ Len(items[c]) \in Nat
  BY <1>1
<1> QED BY <1>2, <1>3, <1>4 DEF Scored, Whole

\* The service answers each request of the batch with the score of its reviews.
LEMMA ServedWhole ==
    ASSUME IInv, NEW c \in Callers
    PROVE  [i \in DOMAIN Request(c) |-> computeOne(Request(c)[i], at[c], service)]
               = Whole(c, service)
<1>1. items[c] \in Seq(Rows)
  BY Typed
<1>2. DOMAIN Request(c) = DOMAIN items[c]
  BY DEF Request
<1>3. ASSUME NEW i \in DOMAIN items[c]
      PROVE  computeOne(Request(c)[i], at[c], service)
                 = ScoreToProto(Score(items[c][i], at[c], service), service)
  <2>1. items[c][i] \in Rows
    BY <1>1
  <2>2. {ReviewFromProto(p) : p \in Request(c)[i]} = items[c][i]
    BY <2>1, RowRoundTrip DEF Request
  <2> QED BY <2>2 DEF computeOne
<1> QED BY <1>2, <1>3 DEF Whole

LEMMA CallerKept ==
    ASSUME NEW d, ReplyIsWholeOrShort(d) /\ AnswerIsOneModels(d),
           pc'[d] = pc[d], items'[d] = items[d], at'[d] = at[d],
           reply'[d] = reply[d], answer'[d] = answer[d]
    PROVE  ReplyIsWholeOrShort(d)' /\ AnswerIsOneModels(d)'
BY DEF ReplyIsWholeOrShort, AnswerIsOneModels, Whole, Scored

\* Whatever way a call ends, one model has scored all of it.
LEMMA AnswerInv ==
    ASSUME IInv, NEW c \in Callers, NEW m \in Models,
           pc[c] \in {"call", "reply"}, Answer(c, Scored(c, m))
    PROVE  IInv'
<1>1. /\ pc'[c] = "answered" /\ reply'[c] = <<>> /\ answer'[c] = Scored(c, m)
      /\ items' = items /\ at' = at /\ file' = file
      /\ \A d \in Callers \ {c} :
             pc'[d] = pc[d] /\ reply'[d] = reply[d] /\ answer'[d] = answer[d]
  BY DEF IInv, TypeOK, Answer, Goto
<1>2. Scored(c, m) \in Seq(Scores) /\ <<>> \in Seq(Wire)
  BY ScoredTyped
<1>3. reply' \in [Callers -> Seq(Wire)] /\ answer' \in [Callers -> Seq(Scores)]
  BY <1>2 DEF IInv, Answer
<1>4. ReplyIsWholeOrShort(c)' /\ AnswerIsOneModels(c)'
  BY <1>1 DEF ReplyIsWholeOrShort, AnswerIsOneModels, Scored
<1>5. \A d \in Callers : ReplyIsWholeOrShort(d)' /\ AnswerIsOneModels(d)'
  BY <1>1, <1>4, CallerKept DEF IInv
<1>6. \A d \in Callers : Len(reply'[d]) <= Len(items'[d])
  <2>1. Len(reply'[c]) = 0 /\ Len(items[c]) \in Nat
    BY <1>1, Typed
  <2> QED BY <1>1, <2>1, Lengths
<1>7. TypeOK'
  <2>1. pc' \in [Callers -> {"idle", "call", "reply", "answered"}]
    BY DEF IInv, TypeOK, Answer, Goto
  <2> QED BY <1>1, <1>6, <2>1 DEF IInv, TypeOK, Answer
<1> QED BY <1>1, <1>3, <1>5, <1>7 DEF IInv

LEMMA FallBackInv ==
    ASSUME IInv, NEW c \in Callers, pc[c] \in {"call", "reply"}, FallBack(c)
    PROVE  IInv'
BY AnswerInv, ScorerAssumption DEF FallBack

LEMMA ReceiveInv ==
    ASSUME IInv, NEW c \in Callers, Receive(c)
    PROVE  IInv'
<1>1. CASE Len(reply[c]) # Len(items[c])
  BY <1>1, FallBackInv DEF Receive
<1>2. CASE Len(reply[c]) = Len(items[c])
  <2>1. /\ Len(items[c]) \in Nat
        /\ Answer(c, [i \in DOMAIN reply[c] |-> ScoreFromProto(reply[c][i])])
    BY <1>2, Typed DEF Receive
  <2>2. PICK m \in Models : reply[c] = Whole(c, m)
    BY <1>2, <2>1, Typed DEF Receive, ReplyIsWholeOrShort
  <2>3. [i \in DOMAIN reply[c] |-> ScoreFromProto(reply[c][i])] = Scored(c, m)
    BY <2>2 DEF Whole, Scored, ScoreFromProto, ScoreToProto
  <2> QED BY <2>1, <2>3, AnswerInv DEF Receive
<1> QED BY <1>1, <1>2

LEMMA ServeInv ==
    ASSUME IInv, NEW c \in Callers, Serve(c)
    PROVE  IInv'
<1>1. service \in Models
  BY DEF Serve, IInv, TypeOK
<1>2. /\ pc'[c] = "reply" /\ reply'[c] = Whole(c, service)
      /\ items' = items /\ at' = at /\ file' = file /\ answer' = answer
      /\ \A d \in Callers \ {c} : pc'[d] = pc[d] /\ reply'[d] = reply[d]
  BY ServedWhole DEF IInv, TypeOK, Serve, Goto
<1>3. Whole(c, service) \in Seq(Wire) /\ Len(Whole(c, service)) = Len(items[c])
  BY <1>1, ScoredTyped
<1>4. reply' \in [Callers -> Seq(Wire)]
  BY <1>3, ServedWhole DEF IInv, Serve
<1>5. ReplyIsWholeOrShort(c)' /\ AnswerIsOneModels(c)'
  BY <1>1, <1>2 DEF ReplyIsWholeOrShort, AnswerIsOneModels, Whole
<1>6. \A d \in Callers : ReplyIsWholeOrShort(d)' /\ AnswerIsOneModels(d)'
  BY <1>2, <1>5, CallerKept DEF IInv
<1>7. \A d \in Callers : Len(reply'[d]) <= Len(items'[d])
  <2>1. Len(items[c]) \in Nat
    BY Typed
  <2> QED BY <1>2, <1>3, <2>1, Lengths
<1>8. TypeOK'
  <2>1. pc' \in [Callers -> {"idle", "call", "reply", "answered"}]
    BY DEF IInv, TypeOK, Serve, Goto
  <2> QED BY <1>2, <1>7, <2>1 DEF IInv, TypeOK, Serve
<1> QED BY <1>2, <1>4, <1>6, <1>8 DEF IInv

LEMMA ShortenInv ==
    ASSUME IInv, NEW c \in Callers, Shorten(c)
    PROVE  IInv'
<1>1. PICK i \in DOMAIN reply[c] :
          reply' = [reply EXCEPT ![c] = SubSeq(@, 1, i - 1) \o SubSeq(@, i + 1, Len(@))]
  BY DEF Shorten
<1> DEFINE before == SubSeq(reply[c], 1, i - 1)
           behind == SubSeq(reply[c], i + 1, Len(reply[c]))
           cut    == before \o behind
<1>2. reply[c] \in Seq(Wire) /\ i \in 1..Len(reply[c]) /\ Len(reply[c]) \in Nat
  BY Typed
<1>3. cut \in Seq(Wire) /\ Len(cut) = Len(reply[c]) - 1
  <2>1. before \in Seq(Wire) /\ Len(before) = i - 1
    BY <1>2
  <2>2. behind \in Seq(Wire) /\ Len(behind) = Len(reply[c]) - i
    BY <1>2
  <2> HIDE DEF before, behind
  <2>3. cut \in Seq(Wire) /\ Len(cut) = Len(before) + Len(behind)
    BY <2>1, <2>2
  <2> QED BY <1>2, <2>1, <2>2, <2>3
<1>4. reply' = [reply EXCEPT ![c] = cut]
  BY <1>1
<1> HIDE DEF cut
<1>5. /\ reply'[c] = cut /\ pc' = pc /\ items' = items /\ at' = at
      /\ file' = file /\ answer' = answer /\ pc[c] = "reply"
      /\ \A d \in Callers \ {c} : reply'[d] = reply[d]
  BY <1>4 DEF IInv, Shorten
<1>6. Len(cut) < Len(items[c]) /\ Len(items[c]) \in Nat
  <2>1. Len(reply[c]) <= Len(items[c]) /\ Len(items[c]) \in Nat
    BY Typed DEF IInv, TypeOK
  <2> QED BY <1>2, <1>3, <2>1
<1>7. ReplyIsWholeOrShort(c)' /\ AnswerIsOneModels(c)'
  BY <1>5, <1>6 DEF ReplyIsWholeOrShort, AnswerIsOneModels
<1>8. \A d \in Callers : ReplyIsWholeOrShort(d)' /\ AnswerIsOneModels(d)'
  BY <1>5, <1>7, CallerKept DEF IInv
<1>9. reply' \in [Callers -> Seq(Wire)]
  BY <1>3, <1>4 DEF IInv
<1>10. \A d \in Callers : Len(reply'[d]) <= Len(items'[d])
  <2>1. Len(cut) <= Len(items[c])
    BY <1>2, <1>3, <1>6
  <2> QED BY <1>5, <2>1, Lengths
<1>11. TypeOK'
  BY <1>5, <1>10 DEF IInv, TypeOK, Shorten
<1> QED BY <1>5, <1>8, <1>9, <1>11 DEF IInv

LEMMA AgainInv ==
    ASSUME IInv, NEW c \in Callers, pc[c] \in {"call", "reply"}, Again(c),
           tries' \in [Callers -> 0..MaxAttempts - 1]
    PROVE  IInv'
<1>1. /\ pc'[c] = "call" /\ reply'[c] = <<>>
      /\ items' = items /\ at' = at /\ file' = file /\ answer' = answer
      /\ \A d \in Callers \ {c} : pc'[d] = pc[d] /\ reply'[d] = reply[d]
  BY DEF IInv, TypeOK, Again, Goto
<1>2. <<>> \in Seq(Wire)
  OBVIOUS
<1>3. reply' \in [Callers -> Seq(Wire)]
  BY <1>2 DEF IInv, Again
<1>4. ReplyIsWholeOrShort(c)' /\ AnswerIsOneModels(c)'
  BY <1>1 DEF ReplyIsWholeOrShort, AnswerIsOneModels
<1>5. \A d \in Callers : ReplyIsWholeOrShort(d)' /\ AnswerIsOneModels(d)'
  BY <1>1, <1>4, CallerKept DEF IInv
<1>6. \A d \in Callers : Len(reply'[d]) <= Len(items'[d])
  <2>1. Len(reply'[c]) = 0 /\ Len(items[c]) \in Nat
    BY <1>1, Typed
  <2> QED BY <1>1, <2>1, Lengths
<1>7. TypeOK'
  <2>1. pc' \in [Callers -> {"idle", "call", "reply", "answered"}]
    BY DEF IInv, TypeOK, Again, Goto
  <2> QED BY <1>1, <1>6, <2>1 DEF IInv, TypeOK, Again
<1> QED BY <1>1, <1>3, <1>5, <1>7 DEF IInv

LEMMA UnavailableInv ==
    ASSUME IInv, NEW c \in Callers, Unavailable(c)
    PROVE  IInv'
<1>1. CASE tries[c] + 1 < MaxAttempts
  <2>1. Again(c) /\ tries' = [tries EXCEPT ![c] = tries[c] + 1]
    BY <1>1 DEF Unavailable
  <2>2. tries[c] + 1 \in 0..MaxAttempts - 1
    <3>1. tries[c] \in Nat /\ MaxAttempts \in Nat
      BY Typed, ScorerAssumption
    <3> QED BY <1>1, <3>1
  <2>3. tries' \in [Callers -> 0..MaxAttempts - 1]
    BY <2>1, <2>2 DEF IInv, TypeOK
  <2> QED BY <2>1, <2>3, AgainInv DEF Unavailable
<1>2. CASE ~(tries[c] + 1 < MaxAttempts)
  BY <1>2, FallBackInv DEF Unavailable
<1> QED BY <1>1, <1>2

LEMMA BeginInv ==
    ASSUME IInv, NEW c \in Callers, NEW o \in {"score", "batch"}, NEW page \in Seq(Guests),
           Len(page) <= Cardinality(Guests), Begin(c, o, page)
    PROVE  IInv'
<1> DEFINE sent == [i \in DOMAIN page |-> file[page[i]]]
<1>1. sent \in Seq(Rows) /\ Len(sent) = Len(page) /\ Len(page) \in Nat
  <2>1. DOMAIN page = 1..Len(page) /\ Len(page) \in Nat
    OBVIOUS
  <2>2. \A i \in DOMAIN page : file[page[i]] \in Rows
    BY DEF IInv
  <2> QED BY <2>1, <2>2
<1>2. items' = [items EXCEPT ![c] = sent]
  BY DEF Begin
<1> HIDE DEF sent
<1>3. /\ pc'[c] = "call" /\ pc[c] = "idle" /\ items'[c] = sent
      /\ reply' = reply /\ file' = file /\ answer' = answer
      /\ \A d \in Callers \ {c} : pc'[d] = pc[d] /\ items'[d] = items[d] /\ at'[d] = at[d]
  BY <1>2 DEF IInv, TypeOK, Begin, Goto
<1>4. items' \in [Callers -> Seq(Rows)]
  BY <1>1, <1>2 DEF IInv
<1>5. ReplyIsWholeOrShort(c)' /\ AnswerIsOneModels(c)'
  BY <1>3, Typed DEF ReplyIsWholeOrShort, AnswerIsOneModels
<1>6. \A d \in Callers : ReplyIsWholeOrShort(d)' /\ AnswerIsOneModels(d)'
  BY <1>3, <1>5, CallerKept DEF IInv
<1>7. Cardinality(Guests) \in Nat
  BY FS_CardinalityType, ScorerAssumption
<1>8. \A d \in Callers :
          Len(items'[d]) \in 0..Cardinality(Guests) /\ Len(reply'[d]) <= Len(items'[d])
  <2>1. reply[c] = <<>>
    BY <1>3, Typed DEF ReplyIsWholeOrShort
  <2>2. Len(reply[c]) = 0 /\ Len(sent) \in 0..Cardinality(Guests)
    BY <1>1, <1>7, <2>1
  <2> QED BY <1>1, <1>3, <2>2, Lengths
<1>9. TypeOK'
  <2>1. /\ pc' \in [Callers -> {"idle", "call", "reply", "answered"}]
        /\ op' \in [Callers -> {"score", "batch"}]
        /\ at' \in [Callers -> Calendar]
    BY DEF IInv, TypeOK, Begin, Goto
  <2>2. tries' = tries /\ service' = service /\ today' = today
    BY DEF Begin
  <2> QED BY <1>3, <1>8, <2>1, <2>2 DEF IInv, TypeOK
<1> QED BY <1>3, <1>4, <1>6, <1>9 DEF IInv

LEMMA EndInv ==
    ASSUME IInv, NEW c \in Callers, End(c)
    PROVE  IInv'
<1>1. /\ pc'[c] = "idle" /\ items'[c] = <<>> /\ reply' = reply /\ reply[c] = <<>>
      /\ file' = file
      /\ \A d \in Callers \ {c} :
             /\ pc'[d] = pc[d] /\ items'[d] = items[d] /\ at'[d] = at[d]
             /\ answer'[d] = answer[d]
  BY Typed DEF IInv, TypeOK, End, Goto, ReplyIsWholeOrShort
<1>2. <<>> \in Seq(Rows) /\ <<>> \in Seq(Scores)
  OBVIOUS
<1>3. items' \in [Callers -> Seq(Rows)] /\ answer' \in [Callers -> Seq(Scores)]
  BY <1>2 DEF IInv, End
<1>4. ReplyIsWholeOrShort(c)' /\ AnswerIsOneModels(c)'
  BY <1>1 DEF ReplyIsWholeOrShort, AnswerIsOneModels
<1>5. \A d \in Callers : ReplyIsWholeOrShort(d)' /\ AnswerIsOneModels(d)'
  BY <1>1, <1>4, CallerKept DEF IInv
<1>6. Cardinality(Guests) \in Nat
  BY FS_CardinalityType, ScorerAssumption
<1>7. \A d \in Callers :
          Len(items'[d]) \in 0..Cardinality(Guests) /\ Len(reply'[d]) <= Len(items'[d])
  <2>1. Len(items'[c]) = 0 /\ Len(reply'[c]) = 0 /\ 0 \in 0..Cardinality(Guests)
    BY <1>1, <1>6
  <2> QED BY <1>1, <2>1, Lengths
<1>8. 0 \in 0..MaxAttempts - 1 /\ 0 \in Calendar
  BY ScorerAssumption
<1>9. TypeOK'
  <2>1. /\ pc' \in [Callers -> {"idle", "call", "reply", "answered"}]
        /\ op' \in [Callers -> {"score", "batch"}]
        /\ at' \in [Callers -> Calendar]
        /\ tries' \in [Callers -> 0..MaxAttempts - 1]
    BY <1>8 DEF IInv, TypeOK, End, Goto
  <2>2. service' = service /\ today' = today
    BY DEF End
  <2> QED BY <1>1, <1>7, <2>1, <2>2 DEF IInv, TypeOK
<1> QED BY <1>1, <1>3, <1>5, <1>9 DEF IInv

\* The store, the calendar and the service move: no call notices.
LEMMA CallsKept ==
    ASSUME IInv, UNCHANGED call, file' \in [Guests -> Rows],
           today' \in Calendar, service' \in Models \cup {None}
    PROVE  IInv'
<1>1. /\ pc' = pc /\ op' = op /\ items' = items /\ at' = at /\ tries' = tries
      /\ reply' = reply /\ answer' = answer
  BY DEF call
<1>2. \A d \in Callers : ReplyIsWholeOrShort(d)' /\ AnswerIsOneModels(d)'
  BY <1>1, CallerKept DEF IInv
<1>3. TypeOK'
  <2>1. \A g \in Guests : \A r \in file'[g] : r \in Reviews(Stays)
    BY DEF Rows
  <2> QED BY <1>1, <2>1 DEF IInv, TypeOK
<1> QED BY <1>1, <1>2, <1>3 DEF IInv

LEMMA FileInv ==
    ASSUME IInv, NEW g \in Guests, NEW lag \in Lags, NEW s \in Samples[g], File(g, s, lag)
    PROVE  IInv'
<1>1. s \in Reviews(Stays) /\ today + lag \in Int
  BY ScorerAssumption DEF IInv, TypeOK
<1>2. Dated(s, today + lag) \in Reviews(Stays)
  BY <1>1 DEF Dated, Reviews
<1>3. file' = [file EXCEPT ![g] = file[g] \cup {Dated(s, today + lag)}]
  BY DEF File
<1>4. file' \in [Guests -> Rows]
  BY <1>2, <1>3 DEF IInv, Rows
<1> QED BY <1>4, CallsKept DEF File, IInv, TypeOK

LEMMA TickInv ==
    ASSUME IInv, Tick
    PROVE  IInv'
<1> DEFINE later == {day \in Calendar : day > today}
<1>1. later \in SUBSET Nat /\ later # {} /\ later \subseteq Calendar
  BY ScorerAssumption DEF Tick
<1>2. Min(later) \in later
  <2> HIDE DEF later
  <2> QED BY <1>1, HasLeast
<1> QED BY <1>1, <1>2, CallsKept DEF Tick, IInv, TypeOK

LEMMA DeployInv ==
    ASSUME IInv, Deploy
    PROVE  IInv'
BY CallsKept DEF Deploy, IInv, TypeOK

LEMMA InitInv == Init => IInv
<1> SUFFICES ASSUME Init PROVE IInv
  OBVIOUS
<1>1. <<>> \in Seq(Rows) /\ <<>> \in Seq(Wire) /\ <<>> \in Seq(Scores) /\ Len(<<>>) = 0
  OBVIOUS
<1>2. 0 \in Calendar /\ 0 \in 0..MaxAttempts - 1 /\ 0 \in 0..Cardinality(Guests)
  BY ScorerAssumption, FS_CardinalityType
<1>3. TypeOK
  BY <1>1, <1>2 DEF Init, TypeOK
<1>4. file \in [Guests -> Rows]
  BY DEF Init, Rows
<1> QED BY <1>1, <1>3, <1>4 DEF Init, IInv, ReplyIsWholeOrShort, AnswerIsOneModels

LEMMA NextInv == IInv /\ [Next]_vars => IInv'
<1> SUFFICES ASSUME IInv, [Next]_vars PROVE IInv'
  OBVIOUS
<1>1. ASSUME NEW c \in Callers, NEW g \in Guests, BeginScore(c, g) PROVE IInv'
  <2>1. <<g>> \in Seq(Guests) /\ Len(<<g>>) = 1
    OBVIOUS
  <2>2. 1 <= Cardinality(Guests)
    BY FS_CardinalityType, FS_EmptySet, ScorerAssumption
  <2> QED BY <1>1, <2>1, <2>2, BeginInv DEF BeginScore
<1>2. ASSUME NEW c \in Callers, NEW page \in Pages, BeginBatch(c, page) PROVE IInv'
  <2>1. PICK n \in 0..Cardinality(Guests) : page \in [1..n -> Guests]
    BY DEF Pages
  <2>2. Cardinality(Guests) \in Nat
    BY FS_CardinalityType, ScorerAssumption
  <2>3. page \in Seq(Guests) /\ Len(page) = n /\ n <= Cardinality(Guests)
    BY <2>1, <2>2
  <2> QED BY <1>2, <2>3, BeginInv DEF BeginBatch
<1>3. ASSUME NEW c \in Callers, Refuse(c) \/ Deadline(c) PROVE IInv'
  BY <1>3, FallBackInv DEF Refuse, Deadline
<1>4. ASSUME NEW c \in Callers,
             \/ Serve(c) \/ Unavailable(c) \/ Receive(c) \/ Shorten(c) \/ End(c)
      PROVE  IInv'
  BY <1>4, ServeInv, UnavailableInv, ReceiveInv, ShortenInv, EndInv
<1>5. CASE Tick \/ Deploy
  BY <1>5, TickInv, DeployInv
<1>6. CASE UNCHANGED vars
  BY <1>6, CallsKept DEF vars, IInv, TypeOK
<1> QED BY <1>1, <1>2, <1>3, <1>4, <1>5, <1>6, FileInv DEF Next, Proceed

-----------------------------------------------------------------------------
\* The invariant, of every behaviour.
THEOREM Invariance == Spec => []IInv
BY InitInv, NextInv, PTL DEF Spec

\* Calls, requests and replies keep their types and lengths.
THEOREM TypeCorrect == Spec => []TypeOK
<1>1. IInv => TypeOK
  BY DEF IInv
<1> QED BY <1>1, Invariance, PTL

\* client.go:198-204: however many callers, guests, versions and retries there
\* are, an answer is the scores of the rows that were sent, in their order, by
\* one model, also when the service was redeployed, cut the batch or went away.
THEOREM AnswersOfOneModel == Spec => []AnswersAreRight
<1>1. IInv => AnswersAreRight
  BY DEF IInv, AnswersAreRight, AnswerIsOneModels
<1> QED BY <1>1, Invariance, PTL

-----------------------------------------------------------------------------
(* What a score says of the record it is computed from.                     *)

\* README.md:157-160: whatever is on file, on whatever day, a record under an
\* open or upheld dispute leaves no trace in the score but its count.
THEOREM DisputesLeaveNoTrace == Spec => []DisputedAreLeftOut
<1>1. ASSUME NEW g \in Guests
      PROVE  LET left == {r \in file[g] : r.dispute \in {"open", "upheld"}} IN
             [Shown(g) EXCEPT !.disputed = 0]
                 = Compute(file[g] \ left, today, DefaultModel)
  <2> DEFINE left == {r \in file[g] : r.dispute \in {"open", "upheld"}}
  <2>1. file[g] \ left = {r \in file[g] : Scoreable(r)}
    BY DEF Scoreable
  <2> HIDE DEF left
  <2>2. [Shown(g) EXCEPT !.disputed = 0] = Compute(file[g] \ left, today, DefaultModel)
    BY <2>1, OnlyScoreable DEF Shown
  <2> QED BY <2>2 DEF left
<1>2. DisputedAreLeftOut
  BY <1>1 DEF DisputedAreLeftOut
<1> QED BY <1>2, PTL

\* A guest's reviews are a finite set: they are filed one at a time.
FilesAreFinite == \A g \in Guests : IsFiniteSet(file[g])

LEMMA FileOrNot ==
    ASSUME [Next]_vars
    PROVE  \/ file' = file
           \/ \E g \in Guests, lag \in Lags : \E s \in Samples[g] : File(g, s, lag)
BY DEF Next, vars, Tick, Deploy, BeginScore, BeginBatch, Begin, Proceed, Serve, Refuse,
       Unavailable, Again, Receive, Answer, FallBack, Shorten, Deadline, End

LEMMA FinitelyFiled == Spec => []FilesAreFinite
<1>1. Init => FilesAreFinite
  BY FS_EmptySet DEF Init, FilesAreFinite
<1>2. ASSUME IInv, FilesAreFinite, [Next]_vars
      PROVE  FilesAreFinite'
  <2>1. CASE file' = file
    BY <1>2, <2>1 DEF FilesAreFinite
  <2>2. ASSUME NEW g \in Guests, NEW lag \in Lags, NEW s \in Samples[g], File(g, s, lag)
        PROVE  FilesAreFinite'
    <3>1. file' = [file EXCEPT ![g] = @ \cup {Dated(s, today + lag)}]
      BY <2>2 DEF File
    <3>2. file \in [Guests -> Rows]
      BY <1>2 DEF IInv
    <3>3. IsFiniteSet(file[g] \cup {Dated(s, today + lag)})
      BY <1>2, FS_AddElement DEF FilesAreFinite
    <3> QED BY <1>2, <3>1, <3>2, <3>3 DEF FilesAreFinite
  <2> QED BY <1>2, <2>1, <2>2, FileOrNot
<1> QED BY <1>1, <1>2, Invariance, PTL DEF Spec

LEMMA ShownIsComputed ==
    ASSUME IInv, FilesAreFinite, NEW g \in Guests
    PROVE  LET R == {r \in file[g] : Scoreable(r)} IN
           /\ R # {} => Countable(R, today)
           /\ \E n : Shown(g) = IF R = {} THEN Opening(n, DefaultModel)
                                ELSE Earned(R, n, today, DefaultModel)
<1> DEFINE R == {r \in file[g] : Scoreable(r)}
<1>1. IsFiniteSet(R)
  BY FS_Subset DEF FilesAreFinite
<1>2. today \in Int
  BY ScorerAssumption DEF IInv, TypeOK
<1>3. \A r \in R : /\ r.submittedAt \in Int /\ r.q \in Nat
                   /\ r.incidents \in Seq(Incidents)
                   /\ r.commendations \in Seq(DOMAIN BaseBonus)
  <2>1. \A r \in R : r \in Reviews(Stays)
    BY DEF IInv, TypeOK
  <2>2. ASSUME NEW r \in Reviews(Stays)
        PROVE  /\ r.submittedAt \in Int /\ r.q \in Nat
               /\ r.incidents \in Seq(Incidents)
               /\ r.commendations \in Seq(DOMAIN BaseBonus)
    <3>1. r.q \in 100..500
      BY DEF Reviews
    <3>2. /\ r.submittedAt \in Int /\ r.incidents \in Seq(Incidents)
          /\ r.commendations \in Seq(DOMAIN BaseBonus)
      BY DEF Reviews
    <3>3. r.q \in Nat
      BY <3>1
    <3> QED BY <3>2, <3>3
  <2> HIDE DEF R
  <2> QED BY <2>1, <2>2
<1>4. \E n : Shown(g) = IF R = {} THEN Opening(n, DefaultModel)
                        ELSE Earned(R, n, today, DefaultModel)
  BY DEF Shown, Compute
<1> QED BY <1>1, <1>2, <1>3, <1>4 DEF Countable

\* scoring.go:375-384, 112-158: whatever is on file, whenever it is read, the
\* score of a guest is a number of the scale.
THEOREM ScoresAreOnTheScale ==
    ASSUME HalvingIsFraction
    PROVE  Spec => [](\A g \in Guests : Shown(g).composite \in Points)
<1>1. ASSUME IInv, FilesAreFinite, NEW g \in Guests
      PROVE  Shown(g).composite \in Points
  <2> DEFINE R == {r \in file[g] : Scoreable(r)}
  <2>1. PICK n : Shown(g) = IF R = {} THEN Opening(n, DefaultModel)
                            ELSE Earned(R, n, today, DefaultModel)
    BY <1>1, ShownIsComputed
  <2>2. CASE R = {}
    <3>1. Shown(g).composite = DefaultModel.newGuestScore
      BY <2>1, <2>2, OpeningFields
    <3>2. DefaultModel.newGuestScore = 5000
      BY DEF DefaultModel
    <3> QED BY <3>1, <3>2 DEF Points
  <2>3. CASE R # {}
    <3>1. Countable(R, today)
      BY <1>1, <2>3, ShownIsComputed
    <3>2. Shown(g).composite = Composite(R, today, DefaultModel)
      <4> HIDE DEF R
      <4>1. Shown(g) = Earned(R, n, today, DefaultModel)
        BY <2>1, <2>3
      <4> QED BY <4>1, EarnedFields
    <3> HIDE DEF R
    <3> QED BY <3>1, <3>2, CompositeTyped
  <2> QED BY <2>2, <2>3
<1>2. IInv /\ FilesAreFinite => \A g \in Guests : Shown(g).composite \in Points
  BY <1>1
<1> QED BY <1>2, Invariance, FinitelyFiled, PTL

\* What StandingIsConsistent says of the next tier.
NextIsReached(score) ==
    score.next # "" =>
        /\ score.gap > 0
        /\ tierFor(score.composite + score.gap, DefaultModel).name = score.next
        /\ tierFor(score.composite + score.gap - 1, DefaultModel).name # score.next

LEMMA NextReached ==
    ASSUME NEW score, score.composite \in Nat,
           score.next = nextTierAbove(score.composite, DefaultModel),
           score.next # "" =>
               score.gap = tierFloor(score.next, DefaultModel) - score.composite
    PROVE  NextIsReached(score)
<1>1. CASE TierOf(score.composite) = 1
  <2>1. score.next = ""
    BY <1>1, NextTier, Zenon
  <2> QED BY <2>1, Zenon DEF NextIsReached
<1>2. CASE TierOf(score.composite) # 1
  BY <1>2, GapReachesNext, Zenon DEF NextIsReached
<1> QED BY <1>1, <1>2, Zenon

\* scoring.go:406-412: for every calendar, every record and every exponential
\* between zero and one, the desk escalates exactly the flagged guests, the gap
\* ends on the floor of the next tier up, and nobody is greeted as a VIP within
\* a year of an incident.
THEOREM StandingsAgree ==
    ASSUME HalvingIsFraction
    PROVE  Spec => []StandingIsConsistent
<1>1. ASSUME IInv, FilesAreFinite, NEW g \in Guests,
             Shown(g).composite \in Points
      PROVE  /\ Shown(g).flagged <=> Shown(g).handling = "escalate"
             /\ Shown(g).flagged => Shown(g).composite < 5000
             /\ NextIsReached(Shown(g))
             /\ Shown(g).handling = "vip_treatment" =>
                    \A r \in file[g] :
                        Scoreable(r) /\ Age(r, today) <= 365 => r.incidents = <<>>
  <2> DEFINE R == {r \in file[g] : Scoreable(r)}
             s == Shown(g).composite
             next == Shown(g).next
             gap == Shown(g).gap
             conf == confidenceFor(Weight(R, today, DefaultModel))
  <2>1. PICK n : Shown(g) = IF R = {} THEN Opening(n, DefaultModel)
                            ELSE Earned(R, n, today, DefaultModel)
    BY <1>1, ShownIsComputed
  <2>2. s \in Nat
    <3>1. \A x \in Points : x \in Nat
      BY DEF Points
    <3> QED BY <1>1, <3>1
  <2>3. CASE R = {}
    <3>1. Shown(g) = Opening(n, DefaultModel)
      BY <2>1, <2>3
    <3>2. /\ ~Shown(g).flagged /\ Shown(g).handling = "insufficient_data"
          /\ next = nextTierAbove(s, DefaultModel)
          /\ gap = tierFloor(next, DefaultModel) - s
      BY <3>1, OpeningFields
    <3>3. NextIsReached(Shown(g))
      BY <2>2, <3>2, NextReached
    <3> QED BY <3>2, <3>3
  <2>4. CASE R # {}
    <3>1. Shown(g) = Earned(R, n, today, DefaultModel)
      BY <2>1, <2>4
    <3>2. /\ Shown(g).flagged = tierFor(s, DefaultModel).flagged
          /\ Shown(g).handling = handlingFor(s, conf, R, today, DefaultModel)
          /\ next = nextTierAbove(s, DefaultModel)
      <4> HIDE DEF R
      <4> QED BY <3>1, EarnedFields
    <3>3. /\ Shown(g).flagged <=> s < 5000
          /\ Shown(g).handling = "escalate" <=> s < 5000
      <4> HIDE DEF R, s, conf
      <4> QED BY <2>2, <3>2, EscalatedIsFlagged
    <3>4. NextIsReached(Shown(g))
      <4>1. Shown(g).next # "" =>
                Shown(g).gap = tierFloor(Shown(g).next, DefaultModel) - Shown(g).composite
        <5> HIDE DEF R
        <5> QED BY <3>1, EarnedGap, Zenon
      <4> QED BY <2>2, <3>2, <4>1, NextReached, Zenon
    <3>5. Shown(g).handling = "vip_treatment" =>
              \A r \in R : Age(r, today) <= 365 => r.incidents = <<>>
      <4> HIDE DEF R, s, conf
      <4> QED BY <3>2, VIPHasNoRecentIncident
    <3> HIDE DEF s
    <3> QED BY <3>3, <3>4, <3>5 DEF s
  <2> QED BY <2>3, <2>4
<1>2. ASSUME IInv, FilesAreFinite, \A g \in Guests : Shown(g).composite \in Points
      PROVE  StandingIsConsistent
  <2>1. ASSUME NEW g \in Guests
        PROVE  /\ Shown(g).flagged <=> Shown(g).handling = "escalate"
               /\ Shown(g).flagged => Shown(g).composite < 5000
               /\ NextIsReached(Shown(g))
               /\ Shown(g).handling = "vip_treatment" =>
                      \A r \in file[g] :
                          Scoreable(r) /\ Age(r, today) <= 365 => r.incidents = <<>>
    <3>1. Shown(g).composite \in Points
      BY <1>2
    <3> QED BY <1>1, <1>2, <3>1
  <2> QED BY <2>1, ZenonT(30) DEF StandingIsConsistent, NextIsReached
<1> QED BY <1>2, Invariance, FinitelyFiled, ScoresAreOnTheScale, PTL

-----------------------------------------------------------------------------
(* What an incident does to a score.                                        *)

\* A guest reviews a stay once.
StaysDiffer == \A g \in Guests : \A a, b \in file[g] : a.stay = b.stay => a = b

LEMMA ReviewedOnce == Spec => []StaysDiffer
<1>1. Init => StaysDiffer
  BY DEF Init, StaysDiffer
<1>2. ASSUME IInv, StaysDiffer, [Next]_vars
      PROVE  StaysDiffer'
  <2>1. CASE file' = file
    BY <1>2, <2>1 DEF StaysDiffer
  <2>2. ASSUME NEW g \in Guests, NEW lag \in Lags, NEW s \in Samples[g], File(g, s, lag)
        PROVE  StaysDiffer'
    <3> DEFINE dated == Dated(s, today + lag)
    <3>1. file' = [file EXCEPT ![g] = @ \cup {dated}] /\ \A r \in file[g] : r.stay # s.stay
      BY <2>2 DEF File
    <3>2. file \in [Guests -> Rows]
      BY <1>2 DEF IInv
    <3>3. dated.stay = s.stay
      <4>1. s \in Reviews(Stays)
        BY ScorerAssumption
      <4> QED BY <4>1 DEF Dated, Reviews
    <3> HIDE DEF dated
    <3> QED BY <1>2, <3>1, <3>2, <3>3 DEF StaysDiffer
  <2> QED BY <1>2, <2>1, <2>2, FileOrNot
<1> QED BY <1>1, <1>2, Invariance, PTL DEF Spec

LEMMA WithoutIncident ==
    ASSUME NEW r \in Reviews(Stays), r.incidents # <<>>
    PROVE  LET s == [r EXCEPT !.incidents = Tail(@)] IN
           /\ Relieved(r, s)
           /\ s.stay = r.stay /\ s.dispute = r.dispute
           /\ s.submittedAt \in Int /\ s.q \in Nat /\ s.incidents \in Seq(Incidents)
           /\ s.commendations \in Seq(DOMAIN BaseBonus)
<1> DEFINE s == [r EXCEPT !.incidents = Tail(@)]
<1>1. /\ r.submittedAt \in Int /\ r.incidents \in Seq(Incidents)
      /\ r.commendations \in Seq(DOMAIN BaseBonus) /\ r.q \in 100..500
  BY DEF Reviews
<1>2. /\ s.stay = r.stay /\ s.dispute = r.dispute /\ s.submittedAt = r.submittedAt
      /\ s.q = r.q /\ s.commendations = r.commendations
      /\ s.incidents = Tail(r.incidents)
  BY DEF Reviews
<1> HIDE DEF s
<1>3. Tail(r.incidents) \in Seq(Incidents) /\ r.q \in Nat
  <2>1. \A i \in Seq(Incidents) : i # <<>> => Tail(i) \in Seq(Incidents)
    OBVIOUS
  <2>2. \A n \in 100..500 : n \in Nat
    OBVIOUS
  <2> QED BY <1>1, <2>1, <2>2
<1>4. Relieved(r, s)
  BY <1>2 DEF Relieved
<1> QED BY <1>1, <1>2, <1>3, <1>4 DEF s

\* One review of a guest's file that counts, with and without its first
\* incident: the rest of the record is the same, and both scores are its.
Lighter(g, r, s, T) ==
    /\ Relieved(r, s) /\ r \notin T /\ s \notin T
    /\ Countable(T \cup {r}, today) /\ Countable(T \cup {s}, today)
    /\ Shown(g).composite = Composite(T \cup {r}, today, DefaultModel)
    /\ Compute(Without(file[g], r), today, DefaultModel).composite
           = Composite(T \cup {s}, today, DefaultModel)

LEMMA FileGetsLighter ==
    ASSUME IInv, FilesAreFinite, StaysDiffer, NEW g \in Guests, NEW r \in file[g],
           Scoreable(r), r.incidents # <<>>
    PROVE  \E s, T : Lighter(g, r, s, T)
<1> DEFINE s == [r EXCEPT !.incidents = Tail(@)]
           T == {x \in file[g] \ {r} : Scoreable(x)}
<1>1. /\ Relieved(r, s) /\ s.stay = r.stay /\ s.dispute = r.dispute
      /\ s.submittedAt \in Int /\ s.q \in Nat /\ s.incidents \in Seq(Incidents)
      /\ s.commendations \in Seq(DOMAIN BaseBonus)
  <2>1. r \in Reviews(Stays)
    BY DEF IInv, TypeOK
  <2> HIDE DEF s
  <2> QED BY <2>1, WithoutIncident DEF s
<1>2. Without(file[g], r) = (file[g] \ {r}) \cup {s}
  BY DEF Without
<1> HIDE DEF s
<1>3. r \notin T /\ s \notin T
  BY <1>1 DEF StaysDiffer
<1>4. {x \in file[g] : Scoreable(x)} = T \cup {r}
  OBVIOUS
<1>5. {x \in Without(file[g], r) : Scoreable(x)} = T \cup {s}
  <2>1. Scoreable(s)
    BY <1>1 DEF Scoreable
  <2> QED BY <1>2, <2>1
<1> HIDE DEF T
<1>6. Countable(T \cup {r}, today)
  BY <1>4, ShownIsComputed
<1>7. Countable(T \cup {s}, today)
  <2>1. IsFiniteSet(T)
    BY <1>6, FS_Subset DEF Countable
  <2>2. IsFiniteSet(T \cup {s})
    BY <2>1, FS_AddElement
  <2> QED BY <1>1, <1>6, <2>2 DEF Countable
<1>8. Shown(g).composite = Composite(T \cup {r}, today, DefaultModel)
  BY <1>4, ComputedFrom DEF Shown
<1>9. Compute(Without(file[g], r), today, DefaultModel).composite
          = Composite(T \cup {s}, today, DefaultModel)
  BY <1>5, ComputedFrom
<1> QED BY <1>1, <1>3, <1>6, <1>7, <1>8, <1>9 DEF Lighter

\* scoring.go:382-384, README.md:142-149: for every calendar, every record and
\* every falling exponential between zero and one, no guest is shown a higher
\* score for an incident.
THEOREM NoIncidentHelps ==
    ASSUME HalvingIsFraction, HalvingFalls
    PROVE  Spec => []IncidentsNeverHelp
<1>1. ASSUME IInv, FilesAreFinite, StaysDiffer, NEW g \in Guests, NEW r \in file[g],
             Scoreable(r), r.incidents # <<>>
      PROVE  Shown(g).composite
                 <= Compute(Without(file[g], r), today, DefaultModel).composite
  <2>1. PICK s, T : Lighter(g, r, s, T)
    BY <1>1, FileGetsLighter
  <2>2. Composite(T \cup {r}, today, DefaultModel)
            <= Composite(T \cup {s}, today, DefaultModel)
    BY <2>1, RelievedScoresNoLess DEF Lighter
  <2> QED BY <2>1, <2>2 DEF Lighter
<1>2. IInv /\ FilesAreFinite /\ StaysDiffer => IncidentsNeverHelp
  BY <1>1 DEF IncidentsNeverHelp
<1> QED BY <1>2, Invariance, FinitelyFiled, ReviewedOnce, PTL

\* README.md:142-149, "Incidents always move it down": whatever else is in the
\* record, an incident of the last year lowers the score a guest is shown, until
\* the score is within ten points of the bottom.
THEOREM IncidentsCost ==
    ASSUME HalvingIsFraction, HalvingFalls, HalvingIsSteep
    PROVE  Spec => []IncidentsLowerTheScore
<1>1. ASSUME IInv, FilesAreFinite, StaysDiffer, NEW g \in Guests, NEW r \in file[g],
             Scoreable(r), r.incidents # <<>>, Age(r, today) <= 365,
             Shown(g).composite >= 100
      PROVE  Shown(g).composite
                 < Compute(Without(file[g], r), today, DefaultModel).composite
  <2>1. PICK s, T : Lighter(g, r, s, T)
    BY <1>1, FileGetsLighter
  <2>2. Composite(T \cup {r}, today, DefaultModel) >= 100
    BY <1>1, <2>1 DEF Lighter
  <2>3. Composite(T \cup {r}, today, DefaultModel)
            < Composite(T \cup {s}, today, DefaultModel)
    BY <1>1, <2>1, <2>2, RelievedScoresMore DEF Lighter
  <2> QED BY <2>1, <2>3 DEF Lighter
<1>2. IInv /\ FilesAreFinite /\ StaysDiffer => IncidentsLowerTheScore
  BY <1>1 DEF IncidentsLowerTheScore
<1> QED BY <1>2, Invariance, FinitelyFiled, ReviewedOnce, PTL
=============================================================================
