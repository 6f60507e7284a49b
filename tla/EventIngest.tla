----------------------------- MODULE EventIngest -----------------------------
(***************************************************************************)
(* The MQTT ingest of internal/events: one client with a persistent        *)
(* session on the broker, a handler per message (handle, Apply), a         *)
(* deduplicator that is durable on PostgreSQL and a map otherwise, and the *)
(* store the events are filed in, through crashes, restarts, lost          *)
(* connections, failing statements and a graceful Close.                   *)
(*                                                                         *)
(* One action is one call the handler makes.  Messages are handled one at  *)
(* a time (SetOrderMatters).  The broker is external: it queues QoS 1      *)
(* messages for a session that has subscribed, and sends what has not been *)
(* acked again whenever the client is back.  So is paho: the connection    *)
(* comes up first, OnConnect then registers the handler and subscribes,    *)
(* which may fail, and a message that meets no handler is not acked.       *)
(*                                                                         *)
(* On the JSON store a call cannot fail but what is not yet flushed dies   *)
(* with the process; here a flush is one step, FileStore has its detail.   *)
(* The files of guests are taken as flushed: which of them a crash loses   *)
(* only decides between an event that is filed and one that is rejected.   *)
(* On PostgreSQL a call is durable at once but may fail, and a statement   *)
(* whose answer is lost may have been carried out.                         *)
(***************************************************************************)
EXTENDS Naturals, Sequences, SequencesExt

CONSTANTS
    Events,      \* event ids
    Guests,      \* guests the events are about
    Stays,       \* (property, stay) keys
    KindsOf,     \* event -> what it may be: "checkIn", "record", "malformed", or
                 \* "unfilable", a record that only Review.Validate refuses
    GuestOf,     \* event -> guest
    StayOf,      \* event -> stay
    ByGlobalId,  \* events that name their guest by global id, not by id
    Other,       \* a record filed through another channel
    None,
    MaxSends,    \* event -> bound on how often it is published
    MaxFaults    \* bound on crashes, shutdowns and lost connections

Kinds == {"checkIn", "record", "unfilable", "malformed"}

Outcomes == {"recorded", "alreadyApplied", "stayTaken", "rejected"}

ASSUME EventAssumption ==
    /\ KindsOf \in [Events -> SUBSET Kinds]
    /\ GuestOf \in [Events -> Guests]
    /\ StayOf \in [Events -> Stays]
    /\ ByGlobalId \subseteq Events
    /\ Other \notin Events /\ None \notin Events \cup {Other}
    /\ None \notin Outcomes \cup {"failed"}
ASSUME BoundAssumption == MaxSends \in [Events -> Nat] /\ MaxFaults \in Nat

VARIABLES
    backend,     \* "file" or "postgres", chosen by the configuration
    kindOf,      \* event -> its kind
    phase,       \* of the process
    files,       \* the guests that have a file
    reviews,     \* stay -> the event its record came from
    inquiries,   \* event -> how often it has been logged as an inquiry
    saved,       \* what a restart finds of reviews and inquiries
    seen,        \* the events the deduplicator has marked
    queue,       \* the broker's queue for this session
    unheard,     \* messages sent on this connection that met no handler
    subscribed,  \* the session has a subscription
    connected,   \* the client is connected
    onConnect,   \* "due" when it has yet to subscribe, "failed" when it could not
    routed,      \* the client routes messages to the handler
    live,        \* ... and has been since the current message was delivered
    pc, cur, outcome,  \* the handler: next call, message, result
    acks,        \* event -> the outcomes published on the ack topic
    sent,        \* event -> how often it has been published
    missed,      \* history: events the broker had no subscription for when
                 \* they were last published
    handled,     \* history: event -> what its handler has last returned with
                 \* since then
    faults       \* crashes, shutdowns and lost connections so far

store   == <<files, reviews, inquiries>>
broker  == <<queue, unheard, subscribed>>
client  == <<connected, onConnect, routed>>
handler == <<pc, cur, outcome, live>>
history == <<sent, missed, handled>>
vars == <<backend, kindOf, phase, store, saved, seen, broker, client, handler, acks,
          history, faults>>

Records  == [reviews   : [Stays -> Events \cup {Other, None}],
             inquiries : [Events -> Nat]]
InMemory == [reviews |-> reviews, inquiries |-> inquiries]

TypeOK ==
    /\ backend \in {"file", "postgres"}
    /\ kindOf \in [Events -> Kinds]
    /\ phase \in {"up", "closing", "down"}
    /\ files \subseteq Guests
    /\ InMemory \in Records /\ saved \in Records
    /\ seen \subseteq Events
    /\ queue \in Seq(Events) /\ unheard \in Seq(Events)
    /\ subscribed \in BOOLEAN /\ connected \in BOOLEAN /\ live \in BOOLEAN
    /\ onConnect \in {"idle", "due", "failed"} /\ routed \in BOOLEAN
    /\ pc \in {"idle", "mark", "resolve", "record", "answer", "return"}
    /\ cur \in Events \cup {None}
    /\ outcome \in Outcomes \cup {"failed", None}
    /\ acks \in [Events -> SUBSET Outcomes]
    /\ sent \in [Events -> Nat] /\ \A e \in Events : sent[e] <= MaxSends[e]
    /\ faults \in 0..MaxFaults
    /\ missed \subseteq Events
    /\ handled \in [Events -> Outcomes \cup {"failed", None}]

\* The service has just connected, for the first time or to the session that
\* an earlier process has left on the broker.
Init ==
    /\ backend \in {"file", "postgres"}
    /\ kindOf \in [Events -> Kinds] /\ \A e \in Events : kindOf[e] \in KindsOf[e]
    /\ phase = "up"
    /\ files = {}
    /\ reviews = [s \in Stays |-> None]
    /\ inquiries = [e \in Events |-> 0]
    /\ saved = InMemory
    /\ seen = {}
    /\ queue = <<>> /\ unheard = <<>>
    /\ subscribed \in BOOLEAN /\ routed = FALSE
    /\ connected = TRUE /\ onConnect = "due" /\ live = FALSE
    /\ pc = "idle" /\ cur = None /\ outcome = None
    /\ acks = [e \in Events |-> {}]
    /\ sent = [e \in Events |-> 0]
    /\ handled = [e \in Events |-> None]
    /\ missed = {} /\ faults = 0

-----------------------------------------------------------------------------
(* Outside the handler: properties, the broker, the API.                    *)

\* A property sends an event, for the first time or again under its id.
Publish(e) ==
    /\ sent[e] < MaxSends[e]
    /\ sent' = [sent EXCEPT ![e] = @ + 1]
    /\ handled' = [handled EXCEPT ![e] = None]
    /\ IF subscribed
       THEN queue' = Append(queue, e) /\ missed' = missed \ {e}
       ELSE missed' = missed \cup {e} /\ UNCHANGED queue
    /\ UNCHANGED <<backend, kindOf, phase, store, saved, seen, unheard, subscribed,
                   client, handler, acks, faults>>

\* The API opens a file, or files a record of a stay.
OpenFile(g) ==
    /\ phase # "down"
    /\ g \notin files
    /\ files' = files \cup {g}
    /\ UNCHANGED <<backend, kindOf, phase, reviews, inquiries, saved, seen, broker,
                   client, handler, acks, history, faults>>

\* On PostgreSQL what a statement wrote is durable; on the JSON store a flush
\* has still to write it.
Persist == saved' = IF backend = "postgres" THEN InMemory' ELSE saved

FileElsewhere(s) ==
    /\ phase # "down"
    /\ files # {}
    /\ reviews[s] = None
    /\ reviews' = [reviews EXCEPT ![s] = Other]
    /\ UNCHANGED <<backend, kindOf, phase, files, inquiries, seen, broker, client,
                   handler, acks, history, faults>>
    /\ Persist

Flush ==
    /\ phase # "down"
    /\ saved # InMemory
    /\ saved' = InMemory
    /\ UNCHANGED <<backend, kindOf, phase, store, seen, broker, client, handler, acks,
                   history, faults>>

-----------------------------------------------------------------------------
(* The handler.                                                             *)

handlerFrame == <<backend, kindOf, phase, files, broker, client, sent, missed, faults>>

\* The client's goroutine takes the next message the broker sends.
Incoming == phase # "down" /\ connected /\ pc = "idle" /\ queue # <<>>

\* Without a handler a message is not acked: the broker sends it again on the
\* next connection only.
Ignore ==
    /\ Incoming /\ ~routed
    /\ unheard' = Append(unheard, Head(queue)) /\ queue' = Tail(queue)
    /\ UNCHANGED <<backend, kindOf, phase, store, saved, seen, subscribed, client, handler,
                   acks, history, faults>>

\* Apply validates before it calls anything.
Receive(e) ==
    /\ cur' = e
    /\ IF kindOf[e] = "malformed"
       THEN pc' = "answer" /\ outcome' = "rejected"
       ELSE pc' = "mark" /\ UNCHANGED outcome

\* Seeded fault: the message is acked as it arrives, not when it is handled.
DeliverAcked ==
    /\ Incoming /\ routed
    /\ Receive(Head(queue)) /\ live' = FALSE
    /\ queue' = Tail(queue)
    /\ UNCHANGED <<backend, kindOf, phase, store, saved, seen, unheard, subscribed, client,
                   acks, history, faults>>

Deliver ==
    /\ Incoming /\ routed
    /\ Receive(Head(queue)) /\ live' = TRUE
    /\ UNCHANGED <<reviews, inquiries, saved, seen, acks, handled, handlerFrame>>

Goto(l) == pc' = l /\ UNCHANGED <<cur, outcome, live>>
End(o, l) == pc' = l /\ outcome' = o /\ UNCHANGED <<cur, live>>
Answer(o) == End(o, "answer")

\* Seeded fault: the outcome of a transient failure is published.
FailAnswered == End("failed", "answer")

\* A transient failure publishes no ack.
Fail == End("failed", "return")

\* Seeded fault: a redelivery is worked on like a first delivery.
MarkUnchecked ==
    /\ pc = "mark"
    /\ seen' = seen \cup {cur}
    /\ Goto("resolve")
    /\ UNCHANGED <<reviews, inquiries, saved, acks, handled, handlerFrame>>

\* The map forgets entries older than an hour when it takes a new one: which
\* ones those are is left open.
Mark ==
    /\ pc = "mark"
    /\ IF cur \in seen
       THEN Answer("alreadyApplied") /\ UNCHANGED seen
       ELSE /\ \E kept \in IF backend = "file" THEN SUBSET seen ELSE {seen} :
                   seen' = kept \cup {cur}
            /\ Goto("resolve")
    /\ UNCHANGED <<reviews, inquiries, saved, acks, handled, handlerFrame>>

MarkFails ==
    /\ pc = "mark" /\ backend = "postgres"
    /\ seen' \in {seen, seen \cup {cur}}
    /\ Fail
    /\ UNCHANGED <<reviews, inquiries, saved, acks, handled, handlerFrame>>

Resolve ==
    /\ pc = "resolve"
    /\ IF GuestOf[cur] \in files THEN Goto("record") ELSE Answer("rejected")
    /\ UNCHANGED <<reviews, inquiries, saved, seen, acks, handled, handlerFrame>>

\* Any error of GetGuest is a rejection; one of ListGuests is transient.
ResolveFails ==
    /\ pc = "resolve" /\ backend = "postgres"
    /\ IF cur \in ByGlobalId THEN Fail ELSE Answer("rejected")
    /\ UNCHANGED <<reviews, inquiries, saved, seen, acks, handled, handlerFrame>>

\* A check-in is an inquiry.  On PostgreSQL the insert may fail in silence.
RecordCheckIn ==
    /\ pc = "record" /\ kindOf[cur] = "checkIn"
    /\ \/ inquiries' = [inquiries EXCEPT ![cur] = @ + 1]
       \/ backend = "postgres" /\ UNCHANGED inquiries
    /\ Answer("recorded")
    /\ UNCHANGED <<reviews, seen, acks, handled, handlerFrame>>
    /\ Persist

\* The record is validated once more when it has been made, the event marked.
RefuseReview ==
    /\ pc = "record" /\ kindOf[cur] = "unfilable"
    /\ Answer("rejected")
    /\ UNCHANGED <<reviews, inquiries, saved, seen, acks, handled, handlerFrame>>

File == reviews' = [reviews EXCEPT ![StayOf[cur]] = cur]

\* Seeded fault: a record of the stay is replaced, and the new one reported.
CreateReviewReplacing ==
    /\ pc = "record" /\ kindOf[cur] = "record"
    /\ File /\ Answer("recorded")
    /\ UNCHANGED <<inquiries, seen, acks, handled, handlerFrame>>
    /\ Persist

CreateReview ==
    /\ pc = "record" /\ kindOf[cur] = "record"
    /\ IF reviews[StayOf[cur]] = None
       THEN File /\ Answer("recorded")
       ELSE UNCHANGED reviews /\ Answer("stayTaken")
    /\ UNCHANGED <<inquiries, seen, acks, handled, handlerFrame>>
    /\ Persist

CreateReviewFails ==
    /\ pc = "record" /\ kindOf[cur] = "record" /\ backend = "postgres"
    /\ \/ UNCHANGED reviews
       \/ reviews[StayOf[cur]] = None /\ File
    /\ Fail
    /\ UNCHANGED <<inquiries, seen, acks, handled, handlerFrame>>
    /\ Persist

\* publishAck does not wait: without a connection the ack may be lost.
PublishAck ==
    /\ pc = "answer"
    /\ \/ acks' = [acks EXCEPT ![cur] = @ \cup {outcome}]
       \/ ~connected /\ UNCHANGED acks
    /\ Goto("return")
    /\ UNCHANGED <<reviews, inquiries, saved, seen, handled, handlerFrame>>

\* Seeded fault: a failed message is never acked, and blocks those behind it.
ReturnUnlessFailed ==
    /\ pc = "return"
    /\ handled' = [handled EXCEPT ![cur] = outcome]
    /\ queue' = IF live /\ outcome # "failed" THEN Tail(queue) ELSE queue
    /\ pc' = "idle" /\ cur' = None /\ outcome' = None /\ live' = FALSE
    /\ UNCHANGED <<backend, kindOf, phase, store, saved, seen, unheard, subscribed, client,
                   acks, sent, missed, faults>>

\* handle returns, whatever the outcome, and paho acks the message if the
\* connection that brought it is still there.
Return ==
    /\ pc = "return"
    /\ handled' = [handled EXCEPT ![cur] = outcome]
    /\ queue' = IF live THEN Tail(queue) ELSE queue
    /\ pc' = "idle" /\ cur' = None /\ outcome' = None /\ live' = FALSE
    /\ UNCHANGED <<backend, kindOf, phase, store, saved, seen, unheard, subscribed, client,
                   acks, sent, missed, faults>>

-----------------------------------------------------------------------------
(* Connections, shutdowns, crashes.                                         *)

Fault == faults < MaxFaults /\ faults' = faults + 1

\* What has not been acked on a connection is sent again on the next one, in
\* the order it was published.
Disconnected ==
    /\ connected' = FALSE /\ onConnect' = "idle" /\ live' = FALSE
    /\ queue' = unheard \o queue /\ unheard' = <<>>

LoseConnection ==
    /\ phase # "down" /\ connected
    /\ Fault
    /\ Disconnected
    /\ UNCHANGED <<backend, kindOf, phase, store, saved, seen, subscribed, routed, pc, cur,
                   outcome, acks, history>>

\* OnConnect is called whenever the connection is up.
Reconnect ==
    /\ phase = "up" /\ ~connected
    /\ connected' = TRUE /\ onConnect' = "due"
    /\ UNCHANGED <<backend, kindOf, phase, store, saved, seen, broker, routed, handler,
                   acks, history, faults>>

\* The handler is registered, then the broker is asked for the subscription.  A
\* failure before, between or after is logged and not retried.
Subscribe ==
    /\ phase # "down" /\ onConnect = "due"
    /\ \/ onConnect' = "idle" /\ routed' = TRUE /\ subscribed' = TRUE
       \/ /\ onConnect' = "failed"
          /\ \/ routed' = TRUE /\ subscribed' \in {subscribed, TRUE}
             \/ UNCHANGED <<routed, subscribed>>
    /\ UNCHANGED <<backend, kindOf, phase, store, saved, seen, queue, unheard, connected,
                   handler, acks, history, faults>>

\* Close unsubscribes; without a connection, or when it times out, only the
\* client forgets, if anyone.
Close ==
    /\ phase = "up"
    /\ Fault
    /\ phase' = "closing"
    /\ subscribed' \in IF connected THEN {FALSE, subscribed} ELSE {subscribed}
    /\ routed' \in {FALSE, routed}
    /\ UNCHANGED <<backend, kindOf, store, saved, seen, queue, unheard, connected,
                   onConnect, handler, acks, history>>

\* What the process held is gone; the handler has not returned.
Halt ==
    /\ phase' = "down"
    /\ Disconnected /\ routed' = FALSE
    /\ pc' = "idle" /\ cur' = None /\ outcome' = None
    /\ reviews' = saved'.reviews /\ inquiries' = saved'.inquiries
    /\ seen' = IF backend = "postgres" THEN seen ELSE {}
    /\ UNCHANGED <<backend, kindOf, files, subscribed, acks, history>>

\* Disconnect waits for two seconds, then the store is closed and flushed,
\* which the disk may refuse.
Exit ==
    /\ phase = "closing"
    /\ saved' \in {saved, InMemory}
    /\ Halt
    /\ UNCHANGED faults

Crash ==
    /\ phase # "down"
    /\ Fault
    /\ saved' = saved
    /\ Halt

\* New returns once the connection is up, with OnConnect still to run; if it is
\* not within 15 seconds the process ends and has changed nothing.
Start ==
    /\ phase = "down"
    /\ phase' = "up"
    /\ connected' = TRUE /\ onConnect' = "due"
    /\ UNCHANGED <<backend, kindOf, store, saved, seen, broker, routed, handler, acks,
                   history, faults>>

-----------------------------------------------------------------------------
Handle ==
    \/ Deliver \/ Ignore \/ Mark \/ Resolve
    \/ RecordCheckIn \/ RefuseReview \/ CreateReview \/ PublishAck \/ Return

Next ==
    \/ \E e \in Events : Publish(e)
    \/ \E g \in Guests : OpenFile(g)
    \/ \E s \in Stays : FileElsewhere(s)
    \/ Flush
    \/ Handle \/ MarkFails \/ ResolveFails \/ CreateReviewFails
    \/ LoseConnection \/ Reconnect \/ Subscribe
    \/ Close \/ Exit \/ Crash \/ Start

Spec == Init /\ [][Next]_vars

\* The client's routing goroutine keeps running while the process does,
\* SetAutoReconnect brings the connection back, and Subscribe returns, if with
\* an error.  Nobody has to restart the process.
FairSpec ==
    /\ Spec
    /\ WF_vars(Handle \/ MarkFails \/ ResolveFails \/ CreateReviewFails)
    /\ WF_vars(Reconnect)
    /\ WF_vars(Subscribe)

-----------------------------------------------------------------------------
(* Properties.                                                              *)

Durable == backend = "postgres"

\* What the broker holds for the session.
AtBroker == Range(unheard) \cup Range(queue)

\* QoS 1 as handle keeps it: a message that reached the broker while there was
\* a subscription stays with it until some handler has returned for it, across
\* every crash, shutdown, lost connection and failed Subscribe, and if it comes
\* before the handler is registered (mqtt.go:65-68, 80-88).
QueuedUntilHandled ==
    \A e \in Events :
        sent[e] > 0 => e \in missed \cup AtBroker \/ handled[e] # None

\* PLATFORM.md:135-137: an event that arrives again, because it was published
\* again or because its ack did not reach the broker, is not applied again.
\* Promised on PostgreSQL only: the map forgets.
AppliedAtMostOnce == Durable => \A e \in Events : inquiries[e] <= 1

\* What the ack topic says about a record stays true: a filed event is the
\* record of its stay, and a stay is said to be taken only if it is.  On the
\* JSON store a crash may take the record away again.
AcksAreTrue ==
    Durable \/ faults = 0 =>
        \A e \in Events :
            /\ kindOf[e] = "record" /\ "recorded" \in acks[e] =>
                   reviews[StayOf[e]] = e
            /\ "stayTaken" \in acks[e] => reviews[StayOf[e]] # None

\* A message the broker holds is handled while the service stays up, whatever
\* fails before it: no message blocks the ones behind it.  The one exception is
\* a message that met no handler on a connection that lasts, because the handler
\* was registered after it came (mqtt.go:80-88) or Subscribe has failed and is
\* not tried again (mqtt.go:84-87): it waits for the next connection.
EventsAreHandled ==
    \A e \in Events :
        e \in AtBroker ~>
            \/ handled[e] # None
            \/ phase # "up"
            \/ connected /\ e \in Range(unheard) /\ (routed \/ onConnect = "failed")

\* PLATFORM.md:142: "Transient failures are deliberately not acked, so the
\* broker redelivers".
FailureIsRedelivered ==
    \A e \in Events : handled[e] = "failed" => e \in missed \cup AtBroker
=============================================================================
