-------------------------- MODULE EventIngestProofs --------------------------
(***************************************************************************)
(* The safety of EventIngest for any events, guests, stays and numbers of  *)
(* deliveries and faults, proved from one inductive invariant.             *)
(***************************************************************************)
EXTENDS EventIngest, SequenceTheorems, TLAPS

\* A running handler has a message, its result is known when it is published,
\* and the message a living connection brought is still first in the queue.
HandlerKnows ==
    /\ pc # "idle" => cur \in Events
    /\ pc = "answer" => outcome \in Outcomes
    /\ pc = "return" => outcome \in Outcomes \cup {"failed"}
    /\ live => pc # "idle" /\ queue # <<>> /\ Head(queue) = cur

\* On PostgreSQL nothing is lost with the process, and an event is marked
\* before it is applied.
MarkedBeforeApplied ==
    Durable =>
        /\ saved = InMemory
        /\ \A e \in Events : inquiries[e] > 0 => e \in seen
        /\ pc \in {"resolve", "record"} => cur \in seen /\ inquiries[cur] = 0

\* The result about to be published is as true as those that have been.
OutcomeIsTrue ==
    (Durable \/ faults = 0) /\ pc = "answer" =>
        /\ kindOf[cur] = "record" /\ outcome = "recorded" => reviews[StayOf[cur]] = cur
        /\ outcome = "stayTaken" => reviews[StayOf[cur]] # None

\* The process only goes away through a fault.
FaultsTakeItDown == faults = 0 => phase = "up"

IInv ==
    /\ TypeOK
    /\ HandlerKnows
    /\ QueuedUntilHandled
    /\ MarkedBeforeApplied /\ AppliedAtMostOnce
    /\ FaultsTakeItDown /\ OutcomeIsTrue /\ AcksAreTrue
-----------------------------------------------------------------------------
(* Queues.                                                                  *)

LEMMA RangeAppend ==
    ASSUME NEW S, NEW q \in Seq(S), NEW e \in S
    PROVE  Range(Append(q, e)) = Range(q) \cup {e}
<1>1. /\ Len(q) \in Nat /\ DOMAIN q = 1..Len(q)
      /\ DOMAIN Append(q, e) = 1..(Len(q) + 1)
      /\ \A i \in 1..Len(q) : Append(q, e)[i] = q[i]
      /\ Append(q, e)[Len(q) + 1] = e
  OBVIOUS
<1>2. \A i \in 1..(Len(q) + 1) : i \in 1..Len(q) \/ i = Len(q) + 1
  BY <1>1
<1>3. 1..Len(q) \subseteq 1..(Len(q) + 1) /\ Len(q) + 1 \in 1..(Len(q) + 1)
  BY <1>1
<1> QED BY <1>1, <1>2, <1>3 DEF Range

LEMMA RangeTail ==
    ASSUME NEW S, NEW q \in Seq(S), q # <<>>
    PROVE  Range(q) \subseteq Range(Tail(q)) \cup {Head(q)}
<1> SUFFICES ASSUME NEW i \in 1..Len(q), i # 1
             PROVE  q[i] \in Range(Tail(q))
  BY DEF Range
<1>1. /\ DOMAIN Tail(q) = 1..(Len(q) - 1)
      /\ i - 1 \in 1..(Len(q) - 1) /\ Tail(q)[i - 1] = q[i]
  OBVIOUS
<1> QED BY <1>1 DEF Range

LEMMA RangeOfConcat ==
    ASSUME NEW S, NEW q \in Seq(S), NEW r \in Seq(S)
    PROVE  Range(q \o r) = Range(q) \cup Range(r)
<1>1. /\ Len(q) \in Nat /\ Len(r) \in Nat
      /\ DOMAIN q = 1..Len(q) /\ DOMAIN r = 1..Len(r)
      /\ DOMAIN (q \o r) = 1..(Len(q) + Len(r))
      /\ \A i \in 1..(Len(q) + Len(r)) :
             (q \o r)[i] = IF i <= Len(q) THEN q[i] ELSE r[i - Len(q)]
  BY ConcatProperties
<1>2. ASSUME NEW i \in 1..(Len(q) + Len(r)) PROVE (q \o r)[i] \in Range(q) \cup Range(r)
  <2>1. i <= Len(q) => i \in 1..Len(q)
    BY <1>1
  <2>2. ~(i <= Len(q)) => i - Len(q) \in 1..Len(r)
    BY <1>1
  <2> QED BY <1>1, <2>1, <2>2 DEF Range
<1>3. ASSUME NEW i \in 1..Len(q) PROVE q[i] \in Range(q \o r)
  <2>1. i \in 1..(Len(q) + Len(r)) /\ (q \o r)[i] = q[i]
    BY <1>1
  <2> QED BY <1>1, <2>1 DEF Range
<1>4. ASSUME NEW i \in 1..Len(r) PROVE r[i] \in Range(q \o r)
  <2>1. Len(q) + i \in 1..(Len(q) + Len(r)) /\ ~(Len(q) + i <= Len(q))
        /\ (Len(q) + i) - Len(q) = i
    BY <1>1
  <2>2. (q \o r)[Len(q) + i] = r[i]
    BY <1>1, <2>1
  <2> QED BY <1>1, <2>1, <2>2 DEF Range
<1> QED BY <1>1, <1>2, <1>3, <1>4 DEF Range

\* The end of a connection puts what met no handler back in front.
LEMMA BackInFront ==
    ASSUME TypeOK, Disconnected
    PROVE  /\ queue' \in Seq(Events) /\ unheard' \in Seq(Events)
           /\ AtBroker' = AtBroker
<1>1. queue \in Seq(Events) /\ unheard \in Seq(Events)
  BY DEF TypeOK
<1>2. queue' = unheard \o queue /\ unheard' = <<>>
  BY DEF Disconnected
<1>3. Range(queue') = Range(unheard) \cup Range(queue)
  BY <1>1, <1>2, RangeOfConcat
<1>4. Range(unheard') = {}
  BY <1>2 DEF Range
<1> QED BY <1>1, <1>2, <1>3, <1>4 DEF AtBroker

-----------------------------------------------------------------------------
(* The invariant is established and kept.                                   *)

LEMMA InitInv == Init => IInv
<1> SUFFICES ASSUME Init PROVE IInv
  OBVIOUS
<1>1. InMemory \in Records
  BY DEF Init, InMemory, Records
<1>2. sent \in [Events -> Nat] /\ \A e \in Events : sent[e] <= MaxSends[e]
  BY BoundAssumption DEF Init
<1>3. TypeOK
  <2>1. <<>> \in Seq(Events)
    OBVIOUS
  <2>2. faults \in 0..MaxFaults
    BY BoundAssumption DEF Init
  <2> QED BY <1>1, <1>2, <2>1, <2>2 DEF Init, TypeOK
<1> QED
  BY <1>3 DEF Init, IInv, HandlerKnows, QueuedUntilHandled, AtBroker, MarkedBeforeApplied, Durable,
              AppliedAtMostOnce, FaultsTakeItDown, OutcomeIsTrue, AcksAreTrue, InMemory

LEMMA PublishInv ==
    ASSUME IInv, NEW e \in Events, Publish(e) PROVE IInv'
<1> USE DEF IInv
<1>1. /\ queue \in Seq(Events) /\ sent \in [Events -> Nat] /\ missed \subseteq Events
      /\ handled \in [Events -> Outcomes \cup {"failed", None}]
  BY DEF TypeOK
<1>2. /\ UNCHANGED <<backend, kindOf, phase, files, reviews, inquiries, saved, seen,
                     unheard, subscribed, connected, onConnect, routed, pc, cur, outcome, live, acks, faults>>
      /\ InMemory' = InMemory
  BY DEF Publish, store, client, handler, InMemory
<1>3. /\ queue' \in Seq(Events) /\ missed' \subseteq Events
      /\ queue # <<>> => queue' # <<>> /\ Head(queue') = Head(queue)
  <2>1. /\ Append(queue, e) \in Seq(Events)
        /\ queue # <<>> => Append(queue, e) # <<>> /\ Head(Append(queue, e)) = Head(queue)
    BY <1>1, HeadTailAppend
  <2> QED BY <1>1, <2>1 DEF Publish
<1>4. sent' \in [Events -> Nat] /\ \A d \in Events : sent'[d] <= MaxSends[d]
  BY <1>1, BoundAssumption DEF Publish, TypeOK
<1>5. /\ handled' \in [Events -> Outcomes \cup {"failed", None}]
      /\ \A d \in Events \ {e} : handled'[d] = handled[d] /\ sent'[d] = sent[d]
  BY <1>1, EventAssumption DEF Publish
<1>6. TypeOK'
  BY <1>2, <1>3, <1>4, <1>5, SMTT(30) DEF TypeOK
<1>7. HandlerKnows'
  BY <1>2, <1>3 DEF HandlerKnows
<1>8. QueuedUntilHandled'
  <2>1. Range(Append(queue, e)) = Range(queue) \cup {e}
    BY <1>1, RangeAppend
  <2>2. missed' \cup AtBroker' = missed \cup AtBroker \cup {e}
    BY <1>2, <2>1 DEF Publish, AtBroker
  <2> QED BY <1>5, <2>2 DEF QueuedUntilHandled
<1>9. MarkedBeforeApplied' /\ AppliedAtMostOnce'
  BY <1>2 DEF MarkedBeforeApplied, Durable, AppliedAtMostOnce
<1>10. FaultsTakeItDown' /\ OutcomeIsTrue' /\ AcksAreTrue'
  BY <1>2 DEF FaultsTakeItDown, OutcomeIsTrue, AcksAreTrue, Durable
<1> QED BY <1>6, <1>7, <1>8, <1>9, <1>10

LEMMA OpenFileInv ==
    ASSUME IInv, NEW g \in Guests, OpenFile(g) PROVE IInv'
<1> USE DEF IInv, OpenFile, broker, client, handler, history
<1>1. InMemory' = InMemory
  BY DEF InMemory
<1>2. TypeOK'
  BY <1>1 DEF TypeOK
<1> QED
  BY <1>1, <1>2 DEF HandlerKnows, QueuedUntilHandled, AtBroker, MarkedBeforeApplied, Durable,
      AppliedAtMostOnce, FaultsTakeItDown, OutcomeIsTrue, AcksAreTrue

LEMMA FileElsewhereInv ==
    ASSUME IInv, NEW s \in Stays, FileElsewhere(s) PROVE IInv'
<1> USE DEF IInv, FileElsewhere, Persist, broker, client, handler, history
<1>1. reviews \in [Stays -> Events \cup {Other, None}] /\ inquiries \in [Events -> Nat]
  BY DEF TypeOK, InMemory, Records
<1>2. TypeOK'
  <2>1. InMemory' \in Records
    BY <1>1 DEF InMemory, Records
  <2> QED BY <2>1 DEF TypeOK
<1>3. \A t \in Stays : reviews[t] # None => reviews'[t] = reviews[t]
  BY <1>1
<1>4. MarkedBeforeApplied'
  BY DEF MarkedBeforeApplied, Durable
<1>5. OutcomeIsTrue' /\ AcksAreTrue'
  BY <1>3, EventAssumption DEF OutcomeIsTrue, AcksAreTrue, HandlerKnows, Durable
<1> QED
  BY <1>2, <1>4, <1>5
  DEF HandlerKnows, QueuedUntilHandled, AtBroker, Durable, AppliedAtMostOnce, FaultsTakeItDown

LEMMA FlushInv ==
    ASSUME IInv, Flush PROVE IInv'
<1> USE DEF IInv, Flush, store, broker, client, handler, history
<1>1. InMemory' = InMemory
  BY DEF InMemory
<1>2. TypeOK'
  BY <1>1 DEF TypeOK
<1> QED
  BY <1>1, <1>2 DEF HandlerKnows, QueuedUntilHandled, AtBroker, MarkedBeforeApplied, Durable,
      AppliedAtMostOnce, FaultsTakeItDown, OutcomeIsTrue, AcksAreTrue

LEMMA DeliverInv ==
    ASSUME IInv, Deliver PROVE IInv'
<1> USE DEF IInv
<1>1. /\ UNCHANGED <<backend, kindOf, phase, files, reviews, inquiries, saved, seen, queue,
                     unheard, subscribed, connected, onConnect, routed, acks, sent, missed, handled, faults>>
      /\ InMemory' = InMemory
  BY DEF Deliver, handlerFrame, broker, client, InMemory
<1>2. cur' = Head(queue) /\ cur' \in Events /\ queue # <<>> /\ live'
  BY DEF Deliver, Incoming, Receive, TypeOK
<1>3. \/ pc' = "answer" /\ outcome' = "rejected"
      \/ pc' = "mark" /\ outcome' = outcome
  BY DEF Deliver, Receive
<1>4. TypeOK'
  <2>1. live' \in BOOLEAN
    BY DEF Deliver
  <2> QED BY <1>1, <1>2, <1>3, <2>1 DEF TypeOK, Outcomes
<1>5. HandlerKnows'
  BY <1>1, <1>2, <1>3 DEF HandlerKnows, Outcomes
<1>6. QueuedUntilHandled' /\ MarkedBeforeApplied' /\ AppliedAtMostOnce'
  BY <1>1, <1>3 DEF QueuedUntilHandled, AtBroker, MarkedBeforeApplied, Durable, AppliedAtMostOnce
<1>7. FaultsTakeItDown' /\ OutcomeIsTrue' /\ AcksAreTrue'
  BY <1>1, <1>3 DEF FaultsTakeItDown, OutcomeIsTrue, AcksAreTrue, Durable
<1> QED BY <1>4, <1>5, <1>6, <1>7

\* A message that meets no handler is still the broker's.
LEMMA IgnoreInv ==
    ASSUME IInv, Ignore PROVE IInv'
<1> USE DEF IInv
<1>1. /\ UNCHANGED <<backend, kindOf, phase, files, reviews, inquiries, saved, seen,
                     subscribed, connected, onConnect, routed, pc, cur, outcome, live, acks,
                     sent, missed, handled, faults>>
      /\ InMemory' = InMemory
  BY DEF Ignore, store, client, handler, history, InMemory
<1>2. /\ queue \in Seq(Events) /\ unheard \in Seq(Events) /\ queue # <<>>
      /\ unheard' = Append(unheard, Head(queue)) /\ queue' = Tail(queue) /\ pc = "idle"
  BY DEF Ignore, Incoming, TypeOK
<1>3. Head(queue) \in Events /\ queue' \in Seq(Events) /\ unheard' \in Seq(Events)
  BY <1>2
<1>4. AtBroker \subseteq AtBroker'
  <2>1. Range(unheard') = Range(unheard) \cup {Head(queue)}
    BY <1>2, <1>3, RangeAppend
  <2>2. Range(queue) \subseteq Range(queue') \cup {Head(queue)}
    BY <1>2, RangeTail
  <2> QED BY <2>1, <2>2 DEF AtBroker
<1>5. TypeOK'
  BY <1>1, <1>3 DEF TypeOK
<1>6. HandlerKnows'
  BY <1>1, <1>2 DEF HandlerKnows
<1>7. QueuedUntilHandled'
  BY <1>1, <1>4 DEF QueuedUntilHandled
<1>8. MarkedBeforeApplied' /\ AppliedAtMostOnce'
  BY <1>1 DEF MarkedBeforeApplied, Durable, AppliedAtMostOnce
<1>9. FaultsTakeItDown' /\ OutcomeIsTrue' /\ AcksAreTrue'
  BY <1>1 DEF FaultsTakeItDown, OutcomeIsTrue, AcksAreTrue, Durable
<1> QED BY <1>5, <1>6, <1>7, <1>8, <1>9

LEMMA MarkInv ==
    ASSUME IInv, Mark \/ MarkFails PROVE IInv'
<1> USE DEF IInv
<1>1. /\ UNCHANGED <<backend, kindOf, phase, files, reviews, inquiries, saved, queue,
                     unheard, subscribed, connected, onConnect, routed, cur, live, acks, sent, missed, handled, faults>>
      /\ InMemory' = InMemory
  BY DEF Mark, MarkFails, Answer, Fail, End, Goto, handlerFrame, broker, client, InMemory
<1>2. pc = "mark" /\ cur \in Events
  BY DEF Mark, MarkFails, HandlerKnows
<1>3. seen' \subseteq seen \cup {cur} /\ (Durable => seen \subseteq seen')
  BY DEF Mark, MarkFails, Durable
<1>4. \/ pc' = "answer" /\ outcome' = "alreadyApplied"
      \/ pc' = "resolve" /\ outcome' = outcome /\ cur \notin seen /\ cur \in seen'
      \/ pc' = "return" /\ outcome' = "failed"
  BY DEF Mark, MarkFails, Answer, Fail, End, Goto
<1>5. TypeOK'
  BY <1>1, <1>2, <1>3, <1>4 DEF TypeOK, Outcomes
<1>6. HandlerKnows'
  BY <1>1, <1>2, <1>4 DEF HandlerKnows, Outcomes
<1>7. QueuedUntilHandled' /\ AppliedAtMostOnce'
  BY <1>1 DEF QueuedUntilHandled, AtBroker, Durable, AppliedAtMostOnce
<1>8. MarkedBeforeApplied'
  <2>1. inquiries \in [Events -> Nat]
    BY DEF TypeOK, InMemory, Records
  <2> QED BY <1>1, <1>2, <1>3, <1>4, <2>1 DEF MarkedBeforeApplied, Durable
<1>9. FaultsTakeItDown' /\ OutcomeIsTrue' /\ AcksAreTrue'
  BY <1>1, <1>4 DEF FaultsTakeItDown, OutcomeIsTrue, AcksAreTrue, Durable
<1> QED BY <1>5, <1>6, <1>7, <1>8, <1>9

LEMMA ResolveInv ==
    ASSUME IInv, Resolve \/ ResolveFails \/ RefuseReview PROVE IInv'
<1> USE DEF IInv
<1>1. /\ UNCHANGED <<backend, kindOf, phase, files, reviews, inquiries, saved, seen, queue,
                     unheard, subscribed, connected, onConnect, routed, cur, live, acks, sent, missed, handled, faults>>
      /\ InMemory' = InMemory
  BY DEF Resolve, ResolveFails, RefuseReview, Answer, Fail, End, Goto, handlerFrame, broker, client, InMemory
<1>2. pc \in {"resolve", "record"} /\ cur \in Events
  BY DEF Resolve, ResolveFails, RefuseReview, HandlerKnows
<1>3. \/ pc' = "answer" /\ outcome' = "rejected"
      \/ pc' = "record" /\ outcome' = outcome
      \/ pc' = "return" /\ outcome' = "failed"
  BY DEF Resolve, ResolveFails, RefuseReview, Answer, Fail, End, Goto
<1>4. TypeOK'
  BY <1>1, <1>3 DEF TypeOK, Outcomes
<1>5. HandlerKnows'
  BY <1>1, <1>2, <1>3 DEF HandlerKnows, Outcomes
<1>6. QueuedUntilHandled' /\ MarkedBeforeApplied' /\ AppliedAtMostOnce'
  BY <1>1, <1>2, <1>3 DEF QueuedUntilHandled, AtBroker, MarkedBeforeApplied, Durable, AppliedAtMostOnce
<1>7. FaultsTakeItDown' /\ OutcomeIsTrue' /\ AcksAreTrue'
  BY <1>1, <1>3 DEF FaultsTakeItDown, OutcomeIsTrue, AcksAreTrue, Durable
<1> QED BY <1>4, <1>5, <1>6, <1>7

\* What a call to the store does: the event at hand is logged, or filed for a
\* stay that has no record, or nothing happens, and the handler goes on with
\* a result that is true.
LEMMA RecordInv ==
    ASSUME IInv, RecordCheckIn \/ CreateReview \/ CreateReviewFails PROVE IInv'
<1> USE DEF IInv
<1>1. /\ UNCHANGED <<backend, kindOf, phase, files, seen, queue, unheard, subscribed, connected, onConnect, routed,
                     cur, live, acks, sent, missed, handled, faults>>
      /\ saved' = IF backend = "postgres" THEN InMemory' ELSE saved
  BY DEF RecordCheckIn, CreateReview, CreateReviewFails, Answer, Fail, End, handlerFrame, broker, client,
         Persist
<1>2. pc = "record" /\ cur \in Events
  BY DEF RecordCheckIn, CreateReview, CreateReviewFails, HandlerKnows
<1>3. reviews \in [Stays -> Events \cup {Other, None}] /\ inquiries \in [Events -> Nat]
  BY DEF TypeOK, InMemory, Records
<1>4. /\ inquiries' \in [Events -> Nat]
      /\ \A e \in Events \ {cur} : inquiries'[e] = inquiries[e]
      /\ inquiries'[cur] <= inquiries[cur] + 1
  BY <1>2, <1>3 DEF RecordCheckIn, CreateReview, CreateReviewFails
<1>5. /\ reviews' \in [Stays -> Events \cup {Other, None}]
      /\ \A s \in Stays : reviews[s] # None => reviews'[s] = reviews[s]
  BY <1>2, <1>3, EventAssumption DEF RecordCheckIn, CreateReview, CreateReviewFails, File
<1>6. \/ /\ pc' = "answer" /\ outcome' = "recorded"
         /\ kindOf[cur] = "record" => reviews'[StayOf[cur]] = cur
      \/ pc' = "answer" /\ outcome' = "stayTaken" /\ reviews'[StayOf[cur]] # None
      \/ pc' = "return" /\ outcome' = "failed"
  BY <1>2, <1>3, EventAssumption
  DEF RecordCheckIn, CreateReview, CreateReviewFails, File, Answer, Fail, End
<1>7. TypeOK'
  <2>1. InMemory' \in Records
    BY <1>4, <1>5 DEF InMemory, Records
  <2> QED BY <1>1, <1>6, <2>1 DEF TypeOK, Outcomes
<1>8. HandlerKnows'
  BY <1>1, <1>2, <1>6 DEF HandlerKnows, Outcomes
<1>9. QueuedUntilHandled'
  BY <1>1 DEF QueuedUntilHandled, AtBroker
<1>10. MarkedBeforeApplied' /\ AppliedAtMostOnce'
  BY <1>1, <1>2, <1>3, <1>4, <1>6 DEF MarkedBeforeApplied, Durable, AppliedAtMostOnce
<1>11. FaultsTakeItDown' /\ OutcomeIsTrue' /\ AcksAreTrue'
  BY <1>1, <1>5, <1>6, EventAssumption
  DEF FaultsTakeItDown, OutcomeIsTrue, AcksAreTrue, Durable
<1> QED BY <1>7, <1>8, <1>9, <1>10, <1>11

LEMMA PublishAckInv ==
    ASSUME IInv, PublishAck PROVE IInv'
<1> USE DEF IInv
<1>1. /\ UNCHANGED <<backend, kindOf, phase, files, reviews, inquiries, saved, seen, queue,
                     unheard, subscribed, connected, onConnect, routed, cur, outcome, live, sent, missed, handled, faults>>
      /\ InMemory' = InMemory
  BY DEF PublishAck, Goto, handlerFrame, broker, client, InMemory
<1>2. pc = "answer" /\ pc' = "return" /\ cur \in Events /\ outcome \in Outcomes
  BY DEF PublishAck, Goto, HandlerKnows
<1>3. acks \in [Events -> SUBSET Outcomes]
  BY DEF TypeOK
<1>4. /\ acks' \in [Events -> SUBSET Outcomes]
      /\ \A e \in Events \ {cur} : acks'[e] = acks[e]
      /\ acks'[cur] \subseteq acks[cur] \cup {outcome}
  BY <1>2, <1>3 DEF PublishAck
<1>5. TypeOK'
  BY <1>1, <1>2, <1>4 DEF TypeOK
<1>6. HandlerKnows'
  BY <1>1, <1>2 DEF HandlerKnows
<1>7. QueuedUntilHandled' /\ MarkedBeforeApplied' /\ AppliedAtMostOnce'
  BY <1>1, <1>2 DEF QueuedUntilHandled, AtBroker, MarkedBeforeApplied, Durable, AppliedAtMostOnce
<1>8. FaultsTakeItDown' /\ OutcomeIsTrue'
  BY <1>1, <1>2 DEF FaultsTakeItDown, OutcomeIsTrue
<1>9. AcksAreTrue'
  BY <1>1, <1>2, <1>4 DEF AcksAreTrue, OutcomeIsTrue, Durable
<1> QED BY <1>5, <1>6, <1>7, <1>8, <1>9

LEMMA ReturnInv ==
    ASSUME IInv, Return PROVE IInv'
<1> USE DEF IInv
<1>1. /\ UNCHANGED <<backend, kindOf, phase, files, reviews, inquiries, saved, seen,
                     unheard, subscribed, connected, onConnect, routed, acks, sent, missed, faults>>
      /\ InMemory' = InMemory
  BY DEF Return, store, client, InMemory
<1>2. /\ cur \in Events /\ outcome \in Outcomes \cup {"failed"} /\ outcome # None
      /\ queue \in Seq(Events)
      /\ live => queue # <<>> /\ Head(queue) = cur
  BY EventAssumption DEF Return, HandlerKnows, TypeOK
<1>3. pc' = "idle" /\ cur' = None /\ outcome' = None /\ live' = FALSE
  BY DEF Return
<1>4. /\ queue' \in Seq(Events)
      /\ Range(queue) \subseteq Range(queue') \cup {cur}
  <2>1. CASE live
    <3>1. queue' = Tail(queue)
      BY <2>1 DEF Return
    <3> QED BY <1>2, <2>1, <3>1, RangeTail
  <2>2. CASE ~live
    BY <1>2, <2>2 DEF Return
  <2> QED BY <2>1, <2>2
<1>5. handled' = [handled EXCEPT ![cur] = outcome]
  BY DEF Return
<1>6. handled \in [Events -> Outcomes \cup {"failed", None}]
  BY DEF TypeOK
<1>7. TypeOK'
  <2>1. handled' \in [Events -> Outcomes \cup {"failed", None}]
    BY <1>2, <1>5, <1>6
  <2> QED BY <1>1, <1>3, <1>4, <2>1 DEF TypeOK
<1>8. HandlerKnows'
  BY <1>3 DEF HandlerKnows
<1>9. QueuedUntilHandled'
  BY <1>1, <1>2, <1>4, <1>5, <1>6 DEF QueuedUntilHandled, AtBroker
<1>10. MarkedBeforeApplied' /\ AppliedAtMostOnce'
  BY <1>1, <1>3 DEF MarkedBeforeApplied, Durable, AppliedAtMostOnce
<1>11. FaultsTakeItDown' /\ OutcomeIsTrue' /\ AcksAreTrue'
  BY <1>1, <1>3 DEF FaultsTakeItDown, OutcomeIsTrue, AcksAreTrue, Durable
<1> QED BY <1>7, <1>8, <1>9, <1>10, <1>11

\* The connection comes and goes, OnConnect subscribes or fails to, the process
\* starts, Close begins.
LEMMA ConnectionInv ==
    ASSUME IInv, LoseConnection \/ Reconnect \/ Subscribe \/ Close \/ Start PROVE IInv'
<1> USE DEF IInv
<1>1. /\ UNCHANGED <<backend, kindOf, files, reviews, inquiries, saved, seen, pc, cur,
                     outcome, acks, sent, missed, handled>>
      /\ InMemory' = InMemory
  BY DEF LoseConnection, Reconnect, Subscribe, Close, Start, store, handler, history, InMemory
<1>2. /\ queue' \in Seq(Events) /\ unheard' \in Seq(Events) /\ AtBroker' = AtBroker
      /\ live' \in BOOLEAN /\ (live' => live /\ queue' = queue)
  <2>1. CASE LoseConnection
    <3>1. Disconnected
      BY <2>1 DEF LoseConnection
    <3> QED BY <3>1, BackInFront DEF Disconnected
  <2>2. CASE Reconnect \/ Subscribe \/ Close \/ Start
    <3>1. UNCHANGED <<queue, unheard, live>>
      BY <2>2 DEF Reconnect, Subscribe, Close, Start, broker, handler
    <3>2. queue \in Seq(Events) /\ unheard \in Seq(Events) /\ live \in BOOLEAN
      BY DEF TypeOK
    <3>3. AtBroker' = AtBroker
      BY <3>1 DEF AtBroker
    <3> QED BY <3>1, <3>2, <3>3
  <2> QED BY <2>1, <2>2
<1>3. /\ subscribed' \in BOOLEAN /\ connected' \in BOOLEAN /\ routed' \in BOOLEAN
      /\ onConnect' \in {"idle", "due", "failed"}
  <2>1. /\ subscribed \in BOOLEAN /\ connected \in BOOLEAN /\ routed \in BOOLEAN
        /\ onConnect \in {"idle", "due", "failed"}
    BY DEF TypeOK
  <2>2. CASE LoseConnection \/ Reconnect \/ Start
    BY <2>1, <2>2 DEF LoseConnection, Disconnected, Reconnect, Start, broker
  <2>3. CASE Subscribe
    BY <2>1, <2>3 DEF Subscribe
  <2>4. CASE Close
    <3>1. /\ connected' = connected /\ onConnect' = onConnect
          /\ subscribed' \in {FALSE, subscribed} /\ routed' \in {FALSE, routed}
      BY <2>4 DEF Close
    <3> QED BY <2>1, <3>1
  <2> QED BY <2>2, <2>3, <2>4
<1>4. /\ phase' \in {"up", "closing"} \cup {phase} /\ faults' \in 0..MaxFaults
      /\ faults <= faults' /\ (faults' = 0 => phase' = "up")
  <2>1. faults \in 0..MaxFaults /\ MaxFaults \in Nat /\ (faults = 0 => phase = "up")
    BY BoundAssumption DEF TypeOK, FaultsTakeItDown
  <2>2. CASE LoseConnection \/ Close
    <3>1. faults' = faults + 1 /\ faults < MaxFaults
      BY <2>2 DEF LoseConnection, Close, Fault
    <3>2. phase' \in {"up", "closing"} \cup {phase}
      BY <2>2 DEF LoseConnection, Close
    <3> QED BY <2>1, <3>1, <3>2
  <2>3. CASE Reconnect \/ Subscribe \/ Start
    <3>1. faults' = faults
      BY <2>3 DEF Reconnect, Subscribe, Start
    <3>2. phase' \in {"up", phase} /\ (phase = "up" => phase' = "up")
      BY <2>3 DEF Reconnect, Subscribe, Start
    <3> QED BY <2>1, <3>1, <3>2
  <2> QED BY <2>2, <2>3
<1>5. TypeOK'
  BY <1>1, <1>2, <1>3, <1>4 DEF TypeOK
<1>6. HandlerKnows'
  BY <1>1, <1>2 DEF HandlerKnows
<1>7. QueuedUntilHandled' /\ MarkedBeforeApplied' /\ AppliedAtMostOnce'
  BY <1>1, <1>2 DEF QueuedUntilHandled, MarkedBeforeApplied, Durable, AppliedAtMostOnce
<1>8. faults' = 0 => faults = 0
  BY <1>4, BoundAssumption DEF TypeOK
<1>9. FaultsTakeItDown' /\ OutcomeIsTrue' /\ AcksAreTrue'
  BY <1>1, <1>4, <1>8 DEF FaultsTakeItDown, OutcomeIsTrue, AcksAreTrue, Durable
<1> QED BY <1>5, <1>6, <1>7, <1>9

\* The process ends by a fault.  On PostgreSQL what it held was saved.
LEMMA HaltInv ==
    ASSUME IInv, Exit \/ Crash PROVE IInv'
<1> USE DEF IInv
<1>1. /\ UNCHANGED <<backend, kindOf, files, subscribed, acks, sent, missed, handled>>
      /\ pc' = "idle" /\ cur' = None /\ outcome' = None /\ live' = FALSE
      /\ connected' = FALSE /\ onConnect' = "idle" /\ routed' = FALSE
      /\ phase' = "down" /\ Disconnected
  BY DEF Exit, Crash, Halt, Disconnected, history
<1>2. faults' \in 0..MaxFaults /\ faults' # 0
  BY BoundAssumption DEF Exit, Crash, Fault, TypeOK, FaultsTakeItDown
<1>3. /\ saved' \in {saved, InMemory} /\ saved' \in Records
      /\ reviews' = saved'.reviews /\ inquiries' = saved'.inquiries
  BY DEF Exit, Crash, Halt, TypeOK
<1>4. InMemory' = saved'
  BY <1>3 DEF InMemory, Records
<1>5. seen' \subseteq seen /\ (Durable => seen' = seen)
  BY DEF Exit, Crash, Halt, Durable
<1>6. Durable => InMemory' = InMemory /\ reviews' = reviews /\ inquiries' = inquiries
  BY <1>3, <1>4 DEF MarkedBeforeApplied, InMemory
<1>7. /\ queue' \in Seq(Events) /\ unheard' \in Seq(Events) /\ AtBroker' = AtBroker
  BY <1>1, BackInFront
<1>8. TypeOK'
  BY <1>1, <1>2, <1>3, <1>4, <1>5, <1>7 DEF TypeOK
<1>9. HandlerKnows' /\ QueuedUntilHandled'
  BY <1>1, <1>7 DEF HandlerKnows, QueuedUntilHandled
<1>10. MarkedBeforeApplied' /\ AppliedAtMostOnce'
  BY <1>1, <1>4, <1>5, <1>6 DEF MarkedBeforeApplied, Durable, AppliedAtMostOnce
<1>11. FaultsTakeItDown' /\ OutcomeIsTrue' /\ AcksAreTrue'
  BY <1>1, <1>2, <1>6 DEF FaultsTakeItDown, OutcomeIsTrue, AcksAreTrue, Durable
<1> QED BY <1>8, <1>9, <1>10, <1>11

LEMMA NextInv == IInv /\ [Next]_vars => IInv'
<1>1. ASSUME IInv, UNCHANGED vars PROVE IInv'
  BY <1>1
  DEF vars, store, broker, client, handler, history, IInv, TypeOK, InMemory, HandlerKnows,
      QueuedUntilHandled, AtBroker, MarkedBeforeApplied, Durable, AppliedAtMostOnce, FaultsTakeItDown,
      OutcomeIsTrue, AcksAreTrue
<1>2. ASSUME IInv, Next PROVE IInv'
  BY <1>2, PublishInv, OpenFileInv, FileElsewhereInv, FlushInv, DeliverInv, IgnoreInv,
     MarkInv, ResolveInv, RecordInv, PublishAckInv, ReturnInv, ConnectionInv, HaltInv
  DEF Next, Handle
<1> QED BY <1>1, <1>2

-----------------------------------------------------------------------------
(* The theorems.                                                            *)

\* Every reachable state satisfies the inductive invariant.
THEOREM Invariance == Spec => []IInv
BY InitInv, NextInv, PTL DEF Spec

\* The variables keep their types, the counters their bounds.
THEOREM TypeCorrect == Spec => []TypeOK
<1>1. IInv => TypeOK
  BY DEF IInv
<1> QED BY <1>1, Invariance, PTL

\* A message that met a subscription stays with the broker until a handler has
\* returned for it, through any number of crashes, shutdowns, lost connections
\* and failed attempts to subscribe.
THEOREM NothingIsDropped == Spec => []QueuedUntilHandled
<1>1. IInv => QueuedUntilHandled
  BY DEF IInv
<1> QED BY <1>1, Invariance, PTL

\* On PostgreSQL an event is logged at most once however often it is sent,
\* redelivered or failed.
THEOREM AppliedOnce == Spec => []AppliedAtMostOnce
<1>1. IInv => AppliedAtMostOnce
  BY DEF IInv
<1> QED BY <1>1, Invariance, PTL

\* What the ack topic has said of a record stays true, on PostgreSQL through
\* every fault.
THEOREM TrueAcks == Spec => []AcksAreTrue
<1>1. IInv => AcksAreTrue
  BY DEF IInv
<1> QED BY <1>1, Invariance, PTL
=============================================================================
