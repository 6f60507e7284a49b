-------------------------- MODULE PostgresDeskProofs --------------------------
(***************************************************************************)
(* The safety of PostgresDesk for any number of concurrent requests, files *)
(* and documents, and its refinement of DocumentRegistry.                  *)
(***************************************************************************)
EXTENDS PostgresDesk, TLAPS

\* An answer agrees with the tables.
Told(r) ==
    r # None =>
        /\ r.answer = "taken" \/ <<r.doc, r.guest>> \in documents
        /\ r.answer = "opened" => guests[r.guest].gid = r.doc
        /\ r.answer = "taken" =>
               \E g \in GuestIds \ {r.guest} : <<r.doc, g>> \in documents

Single(p) == \E d \in Docs : req[p].docs = {d}

\* What each request asks for at each statement, and the file it works on.
Shape(p) ==
    /\ pc[p] # "idle" => req[p] \in Req
    /\ pc[p] \in {"lookup", "load", "logOpened", "logMatched", "get", "exists",
                  "insert", "owner"} \cup Answers => Single(p)
    /\ pc[p] \in {"lookup", "load", "logMatched", "open", "docs", "logOpened",
                  "matched", "opened"} =>
           /\ req[p].kind = "resolve" => Single(p) /\ req[p].docs = {req[p].gid}
           /\ req[p].email \in Addresses
    /\ pc[p] \in {"lookup", "load", "logOpened", "opened"} => req[p].kind = "resolve"
    /\ pc[p] \in {"docs", "load", "logOpened", "logMatched", "get", "exists",
                  "insert", "owner"} \cup Answers => guest[p] \in GuestIds
    /\ pc[p] \in {"lookup", "load", "open"} => left[p] = req[p].docs

\* What each request has learned from the tables, and what its open
\* transaction relies on: no committed row stands in its way.
Learned(p) ==
    /\ pc[p] \in {"load", "logMatched", "logOpened", "matched", "opened", "attached"} =>
           \A d \in req[p].docs : <<d, guest[p]>> \in documents
    /\ pc[p] \in {"logOpened", "opened"} => guests[guest[p]].gid = req[p].gid
    /\ pc[p] \in {"insert", "owner"} => Exists(guest[p])
    /\ pc[p] = "owner" => \A d \in req[p].docs : Owned(d)
    /\ InTx(p) => ~Taken(p, guest[p]) /\ \A d \in Held(p) : ~Owned(d)

\* Two open transactions hold no key in common.
Apart(p, q) ==
    InTx(p) /\ InTx(q) =>
        /\ ~Clash(guest[p], NewRow(p), guest[q], NewRow(q))
        /\ Held(p) \cap Held(q) = {}

\* The one inquiry of a request, on file g.
HasInquiry(p, g) == Len(inquiry[p]) = 1 /\ inquiry[p][1].guest = g

\* An answer that shows a file needs the inquiry, an attachment's excepted.
Vouched(p, r) ==
    r # None => r.shown = None \/ r.answer = "attached" \/ HasInquiry(p, r.shown)

\* A request makes its inquiry just before it shows the file.
Recorded(p) ==
    /\ pc[p] \in {"matched", "opened"} => HasInquiry(p, guest[p])
    /\ pc[p] \notin {"idle", "matched", "opened"} => inquiry[p] = <<>>
    /\ pc[p] # "idle" => reply[p] = None
    /\ Vouched(p, reply[p])

Fine(p) == Shape(p) /\ Learned(p) /\ Told(reply[p]) /\ Recorded(p)

IInv ==
    /\ TypeOK
    /\ OneFilePerDocument
    /\ FilesAreWhole
    /\ \A p \in Desks : Fine(p)
    /\ \A p, q \in Desks : p # q => Apart(p, q)

-----------------------------------------------------------------------------
(* How a step of one desk leaves the others.                                *)

\* Only desk p moves.
Frame(p) ==
    \A q \in Desks \ {p} :
        /\ pc'[q] = pc[q] /\ req'[q] = req[q] /\ left'[q] = left[q]
        /\ guest'[q] = guest[q] /\ reply'[q] = reply[q]
        /\ inquiry'[q] = inquiry[q]

\* No row is lost or altered.
Grow ==
    /\ \A g \in GuestIds : Exists(g) => guests'[g] = guests[g]
    /\ documents \subseteq documents'

LEMMA ApartIsSymmetric ==
    ASSUME NEW p, NEW q, Apart(p, q) PROVE Apart(q, p)
BY DEF Apart, Clash

\* A single document is the one CHOOSE finds.
LEMMA DocOfSingle ==
    ASSUME NEW p, Single(p)
    PROVE  Doc(p) \in Docs /\ req[p].docs = {Doc(p)}
BY DEF Single, Doc

\* Answers stay true while the tables grow.
LEMMA ToldGrows ==
    ASSUME TypeOK, OneFilePerDocument, Grow, NEW r \in Reply, Told(r)
    PROVE  Told(r)'
<1> SUFFICES ASSUME r # None PROVE Told(r)'
  BY DEF Told
<1>1. r.guest \in GuestIds /\ r.doc \in Docs
  BY DEF Reply
<1>2. r.answer = "opened" => guests'[r.guest] = guests[r.guest]
  <2> SUFFICES ASSUME r.answer = "opened" PROVE guests'[r.guest] = guests[r.guest]
    OBVIOUS
  <2>1. <<r.doc, r.guest>> \in documents
    BY DEF Told
  <2>2. Exists(r.guest)
    BY <2>1 DEF OneFilePerDocument
  <2> QED BY <1>1, <2>2 DEF Grow
<1> QED BY <1>2 DEF Told, Grow

\* The step of p keeps the invariant if it is fine for p, and if it commits
\* nothing that another open transaction relies on not being there.
LEMMA DeskStep ==
    ASSUME IInv, NEW p \in Desks, Frame(p), Grow,
           TypeOK', OneFilePerDocument', FilesAreWhole', Fine(p)',
           \A q \in Desks \ {p} : Apart(p, q)',
           \A q \in Desks \ {p} : InTx(q) =>
               (~Taken(q, guest[q]) /\ \A d \in Held(q) : ~Owned(d))'
    PROVE  IInv'
<1>1. ASSUME NEW q \in Desks, q # p PROVE Fine(q)'
  <2>1. /\ pc'[q] = pc[q] /\ req'[q] = req[q] /\ left'[q] = left[q]
        /\ guest'[q] = guest[q] /\ reply'[q] = reply[q] /\ inquiry'[q] = inquiry[q]
    BY <1>1 DEF Frame
  <2>2. Fine(q)
    BY DEF IInv
  <2>3. Shape(q)'
    BY <2>1, <2>2 DEF Fine, Shape, Single
  <2>4. Told(reply[q])'
    BY <2>1, <2>2, ToldGrows DEF IInv, Fine, TypeOK
  <2>5. InTx(q)' = InTx(q)
    BY <2>1 DEF InTx
  <2>6. Exists(guest[q]) /\ guest[q] \in GuestIds =>
            Exists(guest[q])' /\ guests'[guest[q]] = guests[guest[q]]
    BY <2>1 DEF Grow, Exists
  <2>7. pc[q] \in {"logOpened", "opened"} => Exists(guest[q])
    <3> SUFFICES ASSUME pc[q] \in {"logOpened", "opened"} PROVE Exists(guest[q])
      OBVIOUS
    <3>1. Single(q)
      BY <2>2 DEF Fine, Shape, Answers
    <3>2. <<Doc(q), guest[q]>> \in documents
      BY <2>2, <3>1, DocOfSingle DEF Fine, Learned
    <3> QED BY <3>2 DEF IInv, OneFilePerDocument
  <2>8. Learned(q)'
    <3>1. pc[q] \in {"load", "logMatched", "logOpened", "matched", "opened",
                     "attached"} =>
              \A d \in req[q].docs : <<d, guest[q]>> \in documents'
      BY <2>2 DEF Fine, Learned, Grow
    <3>2. pc[q] \in {"logOpened", "opened"} => guests'[guest[q]].gid = req[q].gid
      BY <2>2, <2>6, <2>7 DEF Fine, Learned, Shape, Answers
    <3>3. pc[q] \in {"insert", "owner"} => Exists(guest[q])'
      BY <2>2, <2>6 DEF Fine, Learned, Shape
    <3>4. pc[q] = "owner" => \A d \in req[q].docs : Owned(d)'
      BY <2>2 DEF Fine, Learned, Grow, Owned
    <3> QED BY <1>1, <2>1, <2>5, <3>1, <3>2, <3>3, <3>4 DEF Learned, Exists, Owned
  <2>9. Recorded(q)'
    BY <2>1, <2>2 DEF Fine, Recorded, Vouched, HasInquiry
  <2> QED BY <2>1, <2>3, <2>4, <2>8, <2>9 DEF Fine
<1>2. ASSUME NEW q \in Desks, NEW r \in Desks, q # r PROVE Apart(q, r)'
  <2>1. CASE q = p
    BY <1>2, <2>1
  <2>2. CASE r = p
    <3>1. Apart(r, q)'
      BY <1>2, <2>2
    <3> QED BY <3>1 DEF Apart, Clash
  <2>3. CASE q # p /\ r # p
    <3>1. Apart(q, r)
      BY <1>2 DEF IInv
    <3> QED BY <2>3, <3>1 DEF Frame, Apart, InTx, Held, NewRow, Clash
  <2> QED BY <2>1, <2>2, <2>3
<1> QED BY <1>1, <1>2 DEF IInv

\* A step that commits neither a guest nor a document.
LEMMA QuietStep ==
    ASSUME IInv, NEW p \in Desks, Frame(p), UNCHANGED <<guests, documents>>,
           TypeOK', Fine(p)', \A q \in Desks \ {p} : Apart(p, q)'
    PROVE  IInv'
<1>1. Grow
  BY DEF Grow
<1>2. OneFilePerDocument' /\ FilesAreWhole'
  BY DEF IInv, OneFilePerDocument, FilesAreWhole, Exists
<1>3. ASSUME NEW q \in Desks \ {p}, InTx(q)
      PROVE  (~Taken(q, guest[q]) /\ \A d \in Held(q) : ~Owned(d))'
  <2>1. ~Taken(q, guest[q]) /\ \A d \in Held(q) : ~Owned(d)
    BY <1>3 DEF IInv, Fine, Learned
  <2> QED BY <1>3, <2>1 DEF Frame, Taken, Held, Owned, InTx, NewRow, Exists
<1> QED BY <1>1, <1>2, <1>3, DeskStep

-----------------------------------------------------------------------------
(* Ending, refusing, beginning and moving on.                               *)

\* A request that is answered is off the tables; the answer has to be true.
LEMMA DoneFacts ==
    ASSUME IInv, NEW p \in Desks, NEW r \in Reply, Done(p, r)
    PROVE  /\ Frame(p)
           /\ pc' \in [Desks -> Pcs] /\ req' \in [Desks -> Req \cup {None}]
           /\ left' \in [Desks -> SUBSET Docs]
           /\ guest' \in [Desks -> GuestIds \cup {None}]
           /\ reply' \in [Desks -> Reply]
           /\ inquiry' \in [Desks -> Seq(Inquiry)]
           /\ \A q \in Desks : Apart(p, q)'
           /\ Told(r)' /\ Vouched(p, r) => Fine(p)'
<1>1. /\ pc'[p] = "idle" /\ reply'[p] = r /\ inquiry' = inquiry
      /\ Frame(p)
  BY DEF Done, IInv, TypeOK, Frame
<1>2. Shape(p)' /\ Learned(p)' /\ ~InTx(p)'
  BY <1>1 DEF Shape, Learned, InTx, Answers
<1>3. /\ pc' \in [Desks -> Pcs] /\ req' \in [Desks -> Req \cup {None}]
      /\ left' \in [Desks -> SUBSET Docs]
      /\ guest' \in [Desks -> GuestIds \cup {None}]
      /\ reply' \in [Desks -> Reply]
      /\ inquiry' \in [Desks -> Seq(Inquiry)]
  BY DEF Done, IInv, TypeOK, Pcs
<1>4. /\ Told(r)' => Told(reply[p])'
      /\ Vouched(p, r) => Recorded(p)'
  BY <1>1 DEF Told, Vouched, HasInquiry, Recorded
<1> QED BY <1>1, <1>2, <1>3, <1>4 DEF Apart, Fine

LEMMA QuietDone ==
    ASSUME IInv, NEW p \in Desks, NEW r \in Reply, Done(p, r),
           UNCHANGED <<guests, documents>>, Told(r)', Vouched(p, r)
    PROVE  IInv'
<1>1. TypeOK'
  BY DoneFacts DEF IInv, TypeOK
<1> QED BY <1>1, DoneFacts, QuietStep

LEMMA RefuseStep ==
    ASSUME IInv, NEW p \in Desks, Refuse(p), UNCHANGED tables PROVE IInv'
<1>1. None \in Reply /\ Told(None)' /\ Vouched(p, None)
  BY DEF Reply, Told, Vouched
<1> QED BY <1>1, QuietDone DEF Refuse, tables

\* Request r starts at statement l on file g.
Starts(p, r, g, l) ==
    /\ Begin(p, r, g, l)
    /\ l \in {"lookup", "get"} => \E d \in Docs : r.docs = {d}
    /\ l = "get" => g \in GuestIds
    /\ l = "lookup" => r.kind = "resolve" /\ r.docs = {r.gid}
    /\ l = "open" => r.kind = "register"
    /\ l \in {"lookup", "open"} => r.email \in Addresses

Started(p) ==
    \E r \in Req, g \in GuestIds \cup {None}, l \in {"lookup", "get", "open"} :
        Starts(p, r, g, l)

\* A request starts with the shape its first statement expects.
LEMMA BeginStep ==
    ASSUME IInv, NEW p \in Desks, Request(p) PROVE IInv'
<1> USE DEF Begin, WorkOn
<1>1. Started(p)
  <2>1. ASSUME NEW d \in Docs, NEW email \in Addresses, NEW named \in BOOLEAN,
               BeginResolve(p, d, email, named)
        PROVE  Started(p)
    <3> DEFINE r == [kind |-> "resolve", docs |-> {d}, gid |-> d, email |-> email,
                     named |-> named]
    <3>1. r \in Req
      BY DEF Req
    <3>2. /\ Begin(p, r, None, "lookup")
          /\ r.docs = {d} /\ r.kind = "resolve" /\ r.gid = d /\ r.email = email
      BY <2>1 DEF BeginResolve
    <3> HIDE DEF r
    <3>3. Starts(p, r, None, "lookup")
      BY <3>2 DEF Starts
    <3> QED BY <3>1, <3>3 DEF Started
  <2>2. ASSUME NEW d \in Docs, NEW g \in GuestIds, BeginAttach(p, d, g)
        PROVE  Started(p)
    <3> DEFINE r == [kind |-> "attach", docs |-> {d}, gid |-> None, email |-> None,
                     named |-> FALSE]
    <3>1. r \in Req
      BY DEF Req
    <3>2. Begin(p, r, g, "get") /\ r.docs = {d}
      BY <2>2 DEF BeginAttach
    <3> HIDE DEF r
    <3>3. Starts(p, r, g, "get")
      BY <3>2 DEF Starts
    <3> QED BY <3>1, <3>3 DEF Started
  <2>3. ASSUME NEW docs \in SUBSET Docs, NEW gid \in Docs \cup {None},
               NEW email \in Emails, BeginRegister(p, docs, gid, email)
        PROVE  Started(p)
    <3> DEFINE r == [kind |-> "register", docs |-> docs, gid |-> gid,
                     email |-> email, named |-> TRUE]
    <3>1. r \in Req
      BY DEF Req, Addresses
    <3>2. /\ Begin(p, r, None, "open")
          /\ r.kind = "register" /\ r.email \in Addresses
      BY <2>3 DEF BeginRegister, Addresses
    <3> HIDE DEF r
    <3>3. Starts(p, r, None, "open")
      BY <3>2 DEF Starts
    <3> QED BY <3>1, <3>3 DEF Started
  <2> QED BY <2>1, <2>2, <2>3 DEF Request, Addresses
<1>2. PICK r \in Req, g \in GuestIds \cup {None}, l \in {"lookup", "get", "open"} :
          Starts(p, r, g, l)
  BY <1>1 DEF Started
<1>3. /\ pc'[p] = l /\ req'[p] = r /\ left'[p] = r.docs /\ guest'[p] = g
      /\ reply'[p] = None /\ inquiry'[p] = <<>> /\ Frame(p)
  BY <1>2 DEF Starts, IInv, TypeOK, Frame
<1>4. r.docs \subseteq Docs
  BY DEF Req
<1>5. TypeOK'
  BY <1>2, <1>4 DEF Starts, IInv, TypeOK, tables, Pcs, Reply
<1>6. Shape(p)'
  BY <1>2, <1>3 DEF Starts, Shape, Single, Answers
<1>7. Learned(p)' /\ ~InTx(p)' /\ Told(reply[p])' /\ Recorded(p)'
  BY <1>3 DEF Learned, InTx, Told, Recorded, Vouched
<1>8. \A q \in Desks \ {p} : Apart(p, q)'
  BY <1>7 DEF Apart
<1> QED BY <1>2, <1>3, <1>5, <1>6, <1>7, <1>8, QuietStep DEF Starts, Fine, tables

\* Going on to statement l, outside a transaction, on file g.
LEMMA MoveStep ==
    ASSUME IInv, NEW p \in Desks, NEW l \in Pcs \ {"docs"},
           NEW g \in GuestIds \cup {None},
           pc[p] \notin {"idle", "matched", "opened"}, l \notin {"idle", "matched", "opened"},
           Goto(p, l), guest' = [guest EXCEPT ![p] = g], UNCHANGED <<tables, left>>,
           Shape(p)', Learned(p)'
    PROVE  IInv'
<1>1. pc'[p] = l /\ reply'[p] = reply[p] /\ inquiry' = inquiry /\ Frame(p)
  BY DEF Goto, IInv, TypeOK, Frame
<1>2. TypeOK'
  BY DEF Goto, IInv, TypeOK, tables
<1>3. ~InTx(p)'
  BY <1>1 DEF InTx
<1>4. Told(reply[p])' /\ Recorded(p)'
  BY <1>1 DEF IInv, Fine, Told, tables, Recorded, Vouched, HasInquiry
<1>5. \A q \in Desks \ {p} : Apart(p, q)'
  BY <1>3 DEF Apart
<1> QED BY <1>1, <1>2, <1>4, <1>5, QuietStep DEF Fine, tables

-----------------------------------------------------------------------------
(* ResolveByDocument.                                                       *)

LEMMA MissStep ==
    ASSUME IInv, NEW p \in Desks, pc[p] \in {"lookup", "load"}, Miss(p),
           UNCHANGED tables
    PROVE  IInv'
<1>1. CASE ~req[p].named /\ Refuse(p)
  BY <1>1, RefuseStep
<1>2. CASE req[p].named /\ Goto(p, "open") /\ UNCHANGED left /\ WorkOn(p, None)
  <2>1. /\ pc'[p] = "open" /\ req'[p] = req[p] /\ left'[p] = left[p]
        /\ Shape(p)
    BY <1>2 DEF IInv, Fine, TypeOK, Goto
  <2>2. Shape(p)' /\ Learned(p)'
    BY <2>1 DEF Shape, Learned, Single, InTx, Answers
  <2>3. "open" \in Pcs \ {"docs"}
    BY DEF Pcs
  <2> QED BY <1>2, <2>2, <2>3, MoveStep DEF WorkOn
<1> QED BY <1>1, <1>2 DEF Miss

LEMMA LookupHashStep ==
    ASSUME IInv, NEW p \in Desks, LookupHash(p) PROVE IInv'
<1>1. pc[p] = "lookup" /\ Shape(p) /\ UNCHANGED tables
  BY DEF LookupHash, IInv, Fine
<1>2. ASSUME NEW g \in GuestIds, <<Doc(p), g>> \in documents,
             WorkOn(p, g), Goto(p, "load"), UNCHANGED left
      PROVE  IInv'
  <2>1. /\ pc'[p] = "load" /\ req'[p] = req[p] /\ left'[p] = left[p]
        /\ guest'[p] = g
    BY <1>2 DEF IInv, TypeOK, Goto, WorkOn
  <2>2. Shape(p)'
    BY <1>1, <2>1 DEF Shape, Single, Answers
  <2>3. req[p].docs = {Doc(p)}
    BY <1>1, DocOfSingle DEF Shape
  <2>4. Learned(p)'
    BY <1>1, <1>2, <2>1, <2>3 DEF Learned, InTx, tables
  <2>5. "load" \in Pcs \ {"docs"}
    BY DEF Pcs
  <2> QED BY <1>1, <1>2, <2>2, <2>4, <2>5, MoveStep DEF WorkOn
<1>3. CASE Miss(p)
  BY <1>1, <1>3, MissStep
<1> QED BY <1>2, <1>3 DEF LookupHash

LEMMA LoadGuestStep ==
    ASSUME IInv, NEW p \in Desks, LoadGuest(p) PROVE IInv'
<1>1. pc[p] = "load" /\ Shape(p) /\ Learned(p) /\ UNCHANGED tables
  BY DEF LoadGuest, IInv, Fine
<1>2. CASE Goto(p, "logMatched") /\ UNCHANGED <<left, guest>>
  <2>1. /\ pc'[p] = "logMatched" /\ req'[p] = req[p] /\ left'[p] = left[p]
        /\ guest'[p] = guest[p]
        /\ guest[p] \in GuestIds /\ guest' = [guest EXCEPT ![p] = guest[p]]
    BY <1>1, <1>2 DEF IInv, TypeOK, Goto, Shape
  <2>2. Shape(p)' /\ Learned(p)'
    BY <1>1, <2>1 DEF Shape, Single, Learned, InTx, tables, Answers
  <2>3. "logMatched" \in Pcs \ {"docs"}
    BY DEF Pcs
  <2> QED BY <1>1, <1>2, <2>1, <2>2, <2>3, MoveStep
<1>3. CASE Miss(p)
  BY <1>1, <1>3, MissStep
<1> QED BY <1>2, <1>3 DEF LoadGuest

-----------------------------------------------------------------------------
(* CreateGuest.                                                             *)

\* The transaction opens on a row that clashes with nothing committed and with
\* no other open transaction.
LEMMA InsertGuestStep ==
    ASSUME IInv, NEW p \in Desks, NEW g \in GuestIds, InsertGuest(p, g) PROVE IInv'
<1> USE DEF InsertGuest
<1>1. /\ pc[p] = "open" /\ Shape(p)
      /\ pc'[p] = "docs" /\ req'[p] = req[p] /\ left'[p] = left[p]
      /\ guest'[p] = g /\ reply'[p] = reply[p] /\ Told(reply[p]) /\ Frame(p)
      /\ inquiry' = inquiry /\ Recorded(p)
  BY DEF IInv, Fine, TypeOK, Goto, WorkOn, Frame
<1>2. TypeOK'
  BY DEF IInv, TypeOK, Goto, WorkOn, tables, Pcs
<1>3. Shape(p)'
  BY <1>1 DEF Shape, Single, Answers
<1>4. NewRow(p)' = NewRow(p) /\ Held(p)' = {} /\ left[p] = req[p].docs
  BY <1>1 DEF NewRow, Held, InTx, Shape
<1>5. Learned(p)'
  BY <1>1, <1>4 DEF Learned, Taken, tables, Exists, InTx
<1>6. Told(reply[p])' /\ Recorded(p)'
  BY <1>1 DEF Told, tables, Recorded, Vouched, HasInquiry
<1>7. ASSUME NEW q \in Desks \ {p} PROVE Apart(p, q)'
  <2>1. /\ pc'[q] = pc[q] /\ req'[q] = req[q] /\ guest'[q] = guest[q]
    BY <1>1 DEF Frame
  <2>2. NewRow(q)' = NewRow(q) /\ InTx(q)' = InTx(q)
    BY <2>1 DEF NewRow, InTx
  <2>3. InTx(q) => ~Clash(g, NewRow(p), guest[q], NewRow(q))
    BY DEF RowRacing
  <2>4. InTx(q)' => ~Clash(guest'[p], NewRow(p)', guest'[q], NewRow(q)')
    BY <1>1, <1>4, <2>1, <2>2, <2>3
  <2> QED BY <1>4, <2>4 DEF Apart, Clash
<1> QED BY <1>1, <1>2, <1>3, <1>5, <1>6, <1>7, QuietStep DEF Fine, tables

\* One more document held: nobody owns it and no other transaction holds it.
LEMMA InsertDocumentStep ==
    ASSUME IInv, NEW p \in Desks, NEW d \in Docs, InsertDocument(p, d) PROVE IInv'
<1> USE DEF InsertDocument
<1>1. /\ InTx(p) /\ Fine(p)
      /\ pc'[p] = pc[p] /\ req'[p] = req[p] /\ left'[p] = left[p] \ {d}
      /\ guest'[p] = guest[p] /\ reply'[p] = reply[p] /\ inquiry' = inquiry
      /\ Frame(p)
  BY DEF IInv, TypeOK, Frame
<1>2. TypeOK'
  BY DEF IInv, TypeOK, tables
<1>3. Shape(p)'
  BY <1>1 DEF Fine, Shape, Single, InTx, Answers
<1>4. NewRow(p)' = NewRow(p) /\ InTx(p)' /\ Held(p)' \subseteq Held(p) \cup {d}
  BY <1>1 DEF NewRow, InTx, Held
<1>5. Learned(p)'
  <2>1. ~Taken(p, guest[p])' /\ \A e \in Held(p)' : ~Owned(e)'
    BY <1>1, <1>4 DEF Fine, Learned, Taken, tables, Exists, Owned
  <2> QED BY <1>1, <2>1 DEF Learned, InTx
<1>6. Told(reply[p])' /\ Recorded(p)'
  BY <1>1 DEF Fine, Told, tables, InTx, Recorded, Vouched, HasInquiry
<1>7. ASSUME NEW q \in Desks \ {p} PROVE Apart(p, q)'
  <2>1. /\ pc'[q] = pc[q] /\ req'[q] = req[q] /\ guest'[q] = guest[q]
        /\ left'[q] = left[q]
    BY <1>1 DEF Frame
  <2>2. /\ NewRow(q)' = NewRow(q) /\ InTx(q)' = InTx(q) /\ Held(q)' = Held(q)
    BY <2>1 DEF NewRow, InTx, Held
  <2>3. Apart(p, q) /\ d \notin Held(q)
    BY DEF IInv, DocRacing
  <2> QED BY <1>1, <1>4, <2>1, <2>2, <2>3 DEF Apart, Clash
<1> QED BY <1>1, <1>2, <1>3, <1>5, <1>6, <1>7, QuietStep DEF Fine, tables

\* What a commit adds: a row that clashes with none, and documents nobody owns.
LEMMA CommitFacts ==
    ASSUME IInv, NEW p \in Desks, CommitRows(p)
    PROVE  /\ guest[p] \in GuestIds /\ NewRow(p) \in Row
           /\ ~Exists(guest[p]) /\ \A d \in req[p].docs : ~Owned(d)
           /\ req[p].docs \subseteq Docs
           /\ guests' \in [GuestIds -> Row \cup {None}]
           /\ documents' \subseteq Docs \X GuestIds
           /\ Grow /\ OneFilePerDocument' /\ FilesAreWhole'
           /\ Frame(p) => \A q \in Desks \ {p} : InTx(q) =>
                  (~Taken(q, guest[q]) /\ \A d \in Held(q) : ~Owned(d))'
<1> USE DEF CommitRows
<1> DEFINE row == NewRow(p)
           g == guest[p]
<1>1. Shape(p) /\ Learned(p) /\ pc[p] = "docs" /\ req[p] \in Req
  BY DEF IInv, Fine, InTx, Shape
<1>2. g \in GuestIds /\ req[p].docs \subseteq Docs /\ row \in Row
  BY <1>1 DEF Shape, Req, Row, NewRow
<1>3. row # None /\ row.docs = req[p].docs
  BY <1>2, RecordAssumption DEF NewRow
<1>4. ~Taken(p, g) /\ \A d \in req[p].docs : ~Owned(d)
  BY <1>1 DEF Learned, Held, InTx
<1>5. ~Exists(g)
  BY <1>2, <1>4 DEF Taken, Clash
<1> HIDE DEF row
<1>6. \A h \in GuestIds : guests'[h] = IF h = g THEN row ELSE guests[h]
  BY DEF IInv, TypeOK, row
<1>7. documents' = documents \cup (req[p].docs \X {g})
  OBVIOUS
<1>8. guests' \in [GuestIds -> Row \cup {None}] /\ documents' \subseteq Docs \X GuestIds
  BY <1>2, <1>7 DEF IInv, TypeOK, row
<1>9. Grow
  BY <1>5, <1>6, <1>7 DEF Grow, Exists
<1>10. OneFilePerDocument'
  <2>1. ASSUME NEW d \in Docs, NEW h \in GuestIds, NEW k \in GuestIds,
               <<d, h>> \in documents', <<d, k>> \in documents'
        PROVE  h = k
    <3>1. CASE d \in req[p].docs
      BY <1>4, <1>7, <2>1, <3>1 DEF Owned
    <3>2. CASE d \notin req[p].docs
      BY <1>7, <2>1, <3>2 DEF IInv, OneFilePerDocument
    <3> QED BY <3>1, <3>2
  <2>2. ASSUME NEW r \in documents' PROVE guests'[r[2]] # None
    <3>1. CASE r \in documents
      BY <1>3, <1>6, <3>1 DEF IInv, OneFilePerDocument, TypeOK, Exists
    <3>2. CASE r \in req[p].docs \X {g}
      BY <1>2, <1>3, <1>6, <3>2
    <3> QED BY <1>7, <2>2, <3>1, <3>2
  <2> QED BY <2>1, <2>2 DEF OneFilePerDocument, Exists
<1>11. FilesAreWhole'
  <2>1. ASSUME NEW h \in GuestIds, guests'[h] # None
        PROVE  guests'[h].docs \X {h} \subseteq documents'
    <3>1. CASE h = g
      BY <1>3, <1>6, <1>7, <3>1
    <3>2. CASE h # g
      BY <1>6, <1>7, <2>1, <3>2 DEF IInv, FilesAreWhole, Exists
    <3> QED BY <3>1, <3>2
  <2>2. ASSUME NEW h \in GuestIds, NEW k \in GuestIds, guests'[h] # None,
               guests'[k] # None, Clash(h, guests'[h], k, guests'[k])
        PROVE  h = k
    <3>1. \A j \in GuestIds : Exists(j) =>
              ~Clash(g, row, j, guests[j]) /\ ~Clash(j, guests[j], g, row)
      BY <1>4 DEF Taken, Clash, row
    <3> QED BY <1>6, <2>2, <3>1 DEF IInv, FilesAreWhole, Exists
  <2> QED BY <2>1, <2>2 DEF FilesAreWhole, Exists
<1>12. ASSUME NEW q \in Desks \ {p}, InTx(q), Frame(p)
       PROVE  (~Taken(q, guest[q]) /\ \A d \in Held(q) : ~Owned(d))'
  <2>1. /\ Learned(q) /\ Apart(q, p)
        /\ pc'[q] = pc[q] /\ req'[q] = req[q] /\ left'[q] = left[q]
        /\ guest'[q] = guest[q]
    BY <1>12 DEF IInv, Fine, Frame
  <2>2. NewRow(q)' = NewRow(q) /\ Held(q)' = Held(q)
    BY <2>1 DEF NewRow, Held, InTx
  <2>3. ~Clash(guest[q], NewRow(q), g, row)
    BY <1>12, <2>1 DEF Apart, row
  <2>4. ~Taken(q, guest[q])
    BY <1>12, <2>1 DEF Learned
  <2>5. ~Taken(q, guest[q])'
    BY <1>6, <2>1, <2>2, <2>3, <2>4 DEF Taken, Exists
  <2>6. Held(q) \cap req[p].docs = {} /\ \A d \in Held(q) : ~Owned(d)
    BY <1>12, <2>1 DEF Apart, Held, InTx, Learned
  <2>7. \A d \in Held(q) : ~Owned(d)'
    BY <1>7, <2>6 DEF Owned
  <2> QED BY <2>2, <2>5, <2>7
<1> QED
  BY <1>2, <1>4, <1>5, <1>8, <1>9, <1>10, <1>11, <1>12 DEF row
\* The client is told nothing: the handler does not answer with what it has
\* created, or no longer can.
LEMMA CommitRefuse ==
    ASSUME IInv, NEW p \in Desks, CommitRows(p), Refuse(p) PROVE IInv'
<1>1. None \in Reply /\ Told(None)' /\ Vouched(p, None)
  BY DEF Reply, Told, Vouched
<1>2. TypeOK'
  BY <1>1, CommitFacts, DoneFacts DEF CommitRows, Refuse, IInv, TypeOK
<1> QED BY <1>1, <1>2, CommitFacts, DoneFacts, DeskStep DEF Refuse

LEMMA CommitStep ==
    ASSUME IInv, NEW p \in Desks, Commit(p) \/ CommitUnheard(p) PROVE IInv'
<1>1. CASE CommitRows(p) /\ Refuse(p)
  BY <1>1, CommitRefuse
<1>2. CASE /\ CommitRows(p) /\ req[p].kind = "resolve"
           /\ Goto(p, "logOpened") /\ UNCHANGED <<left, guest>>
  <2>1. /\ pc[p] = "docs" /\ Shape(p) /\ Told(reply[p]) /\ Recorded(p)
        /\ pc'[p] = "logOpened" /\ req'[p] = req[p] /\ left'[p] = left[p]
        /\ guest'[p] = guest[p] /\ reply'[p] = reply[p] /\ inquiry' = inquiry
        /\ Frame(p)
    BY <1>2 DEF IInv, Fine, TypeOK, Goto, Frame, CommitRows, InTx
  <2>2. TypeOK'
    BY <1>2, CommitFacts DEF CommitRows, Goto, IInv, TypeOK, Pcs
  <2>3. Shape(p)'
    BY <1>2, <2>1 DEF Shape, Single, Answers
  <2>4. Learned(p)'
    <3>1. \A d \in req[p].docs : <<d, guest[p]>> \in documents'
      BY <1>2 DEF CommitRows
    <3>2. guests'[guest[p]].gid = req[p].gid
      BY <1>2, CommitFacts DEF CommitRows, NewRow, IInv, TypeOK
    <3> QED BY <2>1, <3>1, <3>2 DEF Learned, InTx
  <2>5. Told(reply[p])' /\ Recorded(p)'
    <3>1. Told(reply[p])'
      BY <1>2, <2>1, CommitFacts, ToldGrows DEF IInv, TypeOK
    <3>2. Recorded(p)'
      BY <2>1 DEF Recorded, Vouched, HasInquiry
    <3> QED BY <3>1, <3>2
  <2>6. \A q \in Desks \ {p} : Apart(p, q)'
    BY <2>1 DEF Apart, InTx
  <2> QED
    BY <1>2, <2>1, <2>2, <2>3, <2>4, <2>5, <2>6, CommitFacts, DeskStep DEF Fine
<1> QED BY <1>1, <1>2 DEF Commit, CommitUnheard

\* The inquiry is the request's first, and on the file it goes on to show.
LEMMA RecordInquiryStep ==
    ASSUME IInv, NEW p \in Desks, RecordInquiry(p) PROVE IInv'
<1>1. /\ pc[p] \in {"logOpened", "logMatched"} /\ Fine(p)
      /\ UNCHANGED <<guests, documents, req, left, guest, reply>>
  BY DEF RecordInquiry, IInv, tables
<1>2. PICK kept \in BOOLEAN :
          inquiry' = [inquiry EXCEPT ![p] = Append(@, [guest |-> guest[p], kept |-> kept])]
  BY DEF RecordInquiry
<1>3. guest[p] \in GuestIds /\ inquiry[p] = <<>> /\ reply[p] = None
  BY <1>1 DEF Fine, Shape, Recorded
<1>4. PICK row \in Inquiry :
          row.guest = guest[p] /\ inquiry' = [inquiry EXCEPT ![p] = <<row>>]
  <2>1. [guest |-> guest[p], kept |-> kept] \in Inquiry
    BY <1>3 DEF Inquiry
  <2>2. Append(<<>>, [guest |-> guest[p], kept |-> kept])
            = <<[guest |-> guest[p], kept |-> kept]>>
    OBVIOUS
  <2>3. inquiry' = [inquiry EXCEPT ![p] = <<[guest |-> guest[p], kept |-> kept]>>]
    BY <1>2, <1>3, <2>2
  <2> QED BY <2>1, <2>3
<1>5. pc'[p] \in {"opened", "matched"} /\ (pc'[p] = "opened" => pc[p] = "logOpened")
  BY <1>1 DEF RecordInquiry, IInv, TypeOK
<1>6. TypeOK'
  <2>1. inquiry' \in [Desks -> Seq(Inquiry)]
    BY <1>4 DEF IInv, TypeOK
  <2>2. pc' \in [Desks -> Pcs]
    BY DEF RecordInquiry, IInv, TypeOK, Pcs
  <2> QED BY <1>1, <2>1, <2>2 DEF IInv, TypeOK
<1>7. Frame(p)
  BY <1>1, <1>4 DEF RecordInquiry, IInv, TypeOK, Frame
<1>8. Shape(p)' /\ Learned(p)' /\ ~InTx(p)'
  BY <1>1, <1>5 DEF Fine, Shape, Single, Learned, InTx, Answers
<1>9. Told(reply[p])' /\ Recorded(p)'
  <2>1. HasInquiry(p, guest[p])'
    BY <1>1, <1>4 DEF HasInquiry, IInv, TypeOK
  <2> QED BY <1>1, <1>3, <1>5, <2>1 DEF Told, Recorded, Vouched
<1>10. \A q \in Desks \ {p} : Apart(p, q)'
  BY <1>8 DEF Apart
<1> QED BY <1>1, <1>6, <1>7, <1>8, <1>9, <1>10, QuietStep DEF Fine

\* What is shown was found or opened, and has its inquiry.
LEMMA ShowStep ==
    ASSUME IInv, NEW p \in Desks, Show(p) PROVE IInv'
<1>1. pc[p] \in {"matched", "opened"} /\ Fine(p) /\ UNCHANGED <<guests, documents>>
  BY DEF Show, IInv, tables
<1>2. Single(p) /\ Doc(p) \in Docs /\ req[p].docs = {Doc(p)} /\ guest[p] \in GuestIds
  BY <1>1, DocOfSingle DEF Fine, Shape, Answers
<1>3. PICK r \in Reply : r = [answer |-> pc[p], doc |-> Doc(p), guest |-> guest[p],
                              shown |-> guest[p]]
  BY <1>1, <1>2 DEF Reply, Answers
<1>4. /\ Done(p, r)
      /\ r.doc = Doc(p) /\ r.guest = guest[p] /\ r.answer = pc[p] /\ r.shown = guest[p]
  BY <1>3 DEF Show, Tell
<1>5. pc[p] = "opened" => req[p].gid = Doc(p) /\ guests[guest[p]].gid = req[p].gid
  BY <1>1, <1>2 DEF Fine, Shape, Learned
<1>6. <<Doc(p), guest[p]>> \in documents
  BY <1>1, <1>2 DEF Fine, Learned
<1>7. Told(r)'
  BY <1>1, <1>4, <1>5, <1>6 DEF Told
<1>8. Vouched(p, r)
  BY <1>1, <1>4 DEF Fine, Recorded, Vouched
<1> QED BY <1>1, <1>3, <1>4, <1>7, <1>8, QuietDone

-----------------------------------------------------------------------------
(* handleAttachDocument.                                                    *)

LEMMA CheckStep ==
    ASSUME IInv, NEW p \in Desks, GetGuest(p) \/ AttachExists(p) PROVE IInv'
<1>1. CASE Refuse(p) /\ UNCHANGED tables
  BY <1>1, RefuseStep
<1>2. ASSUME NEW l \in {"exists", "insert"}, pc[p] \in {"get", "exists"},
             Exists(guest[p]), Goto(p, l), UNCHANGED <<left, guest>>,
             UNCHANGED tables
      PROVE  IInv'
  <2>1. /\ Shape(p) /\ Learned(p)
        /\ pc'[p] = l /\ req'[p] = req[p] /\ left'[p] = left[p]
        /\ guest'[p] = guest[p]
        /\ guest[p] \in GuestIds /\ guest' = [guest EXCEPT ![p] = guest[p]]
    BY <1>2 DEF IInv, Fine, TypeOK, Goto, Shape
  <2>2. Shape(p)' /\ Learned(p)'
    BY <1>2, <2>1 DEF Shape, Single, Learned, InTx, tables, Exists, Answers
  <2>3. l \in Pcs \ {"docs"}
    BY DEF Pcs
  <2> QED BY <1>2, <2>1, <2>2, <2>3, MoveStep
<1> QED BY <1>1, <1>2 DEF GetGuest, AttachExists, Check

\* The key on the hash lets the insert through only if the document has no
\* file and no open transaction is putting it on one.
LEMMA AttachInsertStep ==
    ASSUME IInv, NEW p \in Desks, AttachInsert(p) PROVE IInv'
<1>1. /\ Fine(p) /\ pc[p] = "insert" /\ ~Owned(Doc(p))
      /\ documents' = documents \cup {<<Doc(p), guest[p]>>}
      /\ UNCHANGED <<guests, left, guest, req, reply, inquiry>>
      /\ pc'[p] = "attached" /\ Frame(p)
  BY DEF AttachInsert, Goto, Frame, IInv, TypeOK
<1>2. /\ Doc(p) \in Docs /\ req[p].docs = {Doc(p)}
      /\ guest[p] \in GuestIds /\ Exists(guest[p])
  BY <1>1, DocOfSingle DEF Fine, Shape, Learned
<1>3. Grow
  BY <1>1 DEF Grow
<1>4. TypeOK'
  BY <1>1, <1>2 DEF AttachInsert, Goto, IInv, TypeOK, Pcs
<1>5. OneFilePerDocument'
  BY <1>1, <1>2 DEF IInv, OneFilePerDocument, Owned, Exists
<1>6. FilesAreWhole'
  BY <1>1 DEF IInv, FilesAreWhole, Exists
<1>7. Shape(p)' /\ Learned(p)' /\ ~InTx(p)'
  BY <1>1, <1>2 DEF Fine, Shape, Single, Learned, InTx, Answers
<1>8. Told(reply[p])' /\ Recorded(p)'
  BY <1>1 DEF Fine, Told, Recorded, Vouched, HasInquiry
<1>9. ASSUME NEW q \in Desks \ {p}, InTx(q)
      PROVE  (~Taken(q, guest[q]) /\ \A d \in Held(q) : ~Owned(d))'
  <2>1. /\ ~Taken(q, guest[q]) /\ \A d \in Held(q) : ~Owned(d)
        /\ pc'[q] = pc[q] /\ req'[q] = req[q] /\ left'[q] = left[q]
        /\ guest'[q] = guest[q]
    BY <1>1, <1>9 DEF IInv, Fine, Learned, Frame
  <2>2. NewRow(q)' = NewRow(q) /\ Held(q)' = Held(q) /\ Doc(p) \notin Held(q)
    BY <2>1 DEF NewRow, Held, InTx, AttachInsert, DocRacing
  <2> QED BY <1>1, <2>1, <2>2 DEF Taken, Exists, Owned
<1>10. \A q \in Desks \ {p} : Apart(p, q)'
  BY <1>7 DEF Apart
<1> QED
  BY <1>1, <1>3, <1>4, <1>5, <1>6, <1>7, <1>8, <1>9, <1>10, DeskStep DEF Fine

LEMMA AttachNothingStep ==
    ASSUME IInv, NEW p \in Desks, AttachNothing(p) PROVE IInv'
<1>1. /\ Shape(p) /\ Learned(p) /\ pc[p] = "insert" /\ Owned(Doc(p))
      /\ Goto(p, "owner") /\ UNCHANGED <<tables, left, guest>>
  BY DEF AttachNothing, IInv, Fine
<1>2. /\ pc'[p] = "owner" /\ req'[p] = req[p] /\ left'[p] = left[p]
      /\ guest'[p] = guest[p]
      /\ guest[p] \in GuestIds /\ guest' = [guest EXCEPT ![p] = guest[p]]
  BY <1>1 DEF IInv, TypeOK, Goto, Shape
<1>3. req[p].docs = {Doc(p)}
  BY <1>1, DocOfSingle DEF Shape
<1>4. Shape(p)' /\ Learned(p)'
  BY <1>1, <1>2, <1>3 DEF Shape, Single, Learned, InTx, tables, Exists, Owned, Answers
<1>5. "owner" \in Pcs \ {"docs"}
  BY DEF Pcs
<1> QED BY <1>1, <1>2, <1>4, <1>5, MoveStep

\* A document found taken has an owner, and it is another file if it is not
\* this one.
LEMMA AttachOwnerStep ==
    ASSUME IInv, NEW p \in Desks, AttachOwner(p) PROVE IInv'
<1>1. Fine(p) /\ pc[p] = "owner" /\ UNCHANGED <<guests, documents>>
  BY DEF AttachOwner, IInv, tables
<1>2. /\ Doc(p) \in Docs /\ req[p].docs = {Doc(p)} /\ guest[p] \in GuestIds
      /\ Owned(Doc(p))
  BY <1>1, DocOfSingle DEF Fine, Shape, Learned
<1>3. ASSUME <<Doc(p), guest[p]>> \in documents,
             Goto(p, "attached"), UNCHANGED <<left, guest>>
      PROVE  IInv'
  <2>1. /\ pc'[p] = "attached" /\ req'[p] = req[p] /\ left'[p] = left[p]
        /\ guest'[p] = guest[p] /\ guest' = [guest EXCEPT ![p] = guest[p]]
    BY <1>3 DEF IInv, TypeOK, Goto
  <2>2. Shape(p)' /\ Learned(p)'
    BY <1>1, <1>2, <1>3, <2>1 DEF Fine, Shape, Single, Learned, InTx, Answers
  <2>3. "attached" \in Pcs \ {"docs"}
    BY DEF Pcs
  <2> QED BY <1>1, <1>2, <1>3, <2>1, <2>2, <2>3, MoveStep DEF tables
<1>4. ASSUME <<Doc(p), guest[p]>> \notin documents, Tell(p, "taken", None)
      PROVE  IInv'
  <2>1. PICK r \in Reply : r = [answer |-> "taken", doc |-> Doc(p), guest |-> guest[p],
                                shown |-> None]
    BY <1>2 DEF Reply, Answers
  <2>2. /\ Done(p, r)
        /\ r.doc = Doc(p) /\ r.guest = guest[p] /\ r.answer = "taken"
        /\ r.shown = None
    BY <1>4, <2>1 DEF Tell
  <2>3. \E g \in GuestIds \ {guest[p]} : <<Doc(p), g>> \in documents
    BY <1>2, <1>4 DEF Owned
  <2>4. Told(r)' /\ Vouched(p, r)
    BY <1>1, <2>2, <2>3 DEF Told, Vouched
  <2> QED BY <1>1, <2>1, <2>2, <2>4, QuietDone
<1> QED BY <1>3, <1>4 DEF AttachOwner

\* The document is on the file, whether or not the file is shown.
LEMMA ShowAttachedStep ==
    ASSUME IInv, NEW p \in Desks, ShowAttached(p) PROVE IInv'
<1>1. pc[p] = "attached" /\ Fine(p) /\ UNCHANGED <<guests, documents>>
  BY DEF ShowAttached, IInv, tables
<1>2. Doc(p) \in Docs /\ req[p].docs = {Doc(p)} /\ guest[p] \in GuestIds
  BY <1>1, DocOfSingle DEF Fine, Shape, Answers
<1>3. PICK g \in GuestIds \cup {None} : Tell(p, "attached", g)
  BY <1>2 DEF ShowAttached
<1>4. PICK r \in Reply : r = [answer |-> "attached", doc |-> Doc(p), guest |-> guest[p],
                              shown |-> g]
  BY <1>2 DEF Reply, Answers
<1>5. /\ Done(p, r)
      /\ r.doc = Doc(p) /\ r.guest = guest[p] /\ r.answer = "attached"
  BY <1>3, <1>4 DEF Tell
<1>6. <<Doc(p), guest[p]>> \in documents
  BY <1>1, <1>2 DEF Fine, Learned
<1>7. Told(r)' /\ Vouched(p, r)
  BY <1>1, <1>5, <1>6 DEF Told, Vouched
<1> QED BY <1>1, <1>4, <1>5, <1>7, QuietDone

-----------------------------------------------------------------------------
(* The invariant is established and kept.                                   *)

LEMMA InitInv == Init => IInv
<1> SUFFICES ASSUME Init PROVE IInv
  OBVIOUS
<1>1. TypeOK
  BY DEF Init, TypeOK, Pcs, Reply
<1>2. OneFilePerDocument /\ FilesAreWhole
  BY DEF Init, OneFilePerDocument, FilesAreWhole, Exists
<1>3. \A p \in Desks : Fine(p)
  BY DEF Init, Fine, Shape, Learned, Told, InTx, Answers, Recorded, Vouched
<1>4. \A p, q \in Desks : Apart(p, q)
  BY DEF Init, Apart, InTx
<1> QED BY <1>1, <1>2, <1>3, <1>4 DEF IInv

LEMMA NextInv == IInv /\ [Next]_vars => IInv'
<1>1. ASSUME IInv, UNCHANGED vars PROVE IInv'
  <2>1. UNCHANGED <<guests, documents, pc, req, left, guest, inquiry, reply>>
    BY <1>1 DEF vars, tables
  <2>2. TypeOK' /\ OneFilePerDocument' /\ FilesAreWhole'
    BY <1>1, <2>1 DEF IInv, TypeOK, OneFilePerDocument, FilesAreWhole, Exists
  <2>3. \A p \in Desks : Fine(p)'
    BY <1>1, <2>1 DEF IInv, Fine, Shape, Single, Learned, Told, InTx, Taken,
                      Owned, Held, NewRow, Exists, Recorded, Vouched, HasInquiry
  <2>4. \A p, q \in Desks : p # q => Apart(p, q)'
    BY <1>1, <2>1 DEF IInv, Apart, InTx, NewRow, Held
  <2> QED BY <2>2, <2>3, <2>4 DEF IInv
<1>2. ASSUME IInv, NEW p \in Desks, Request(p) \/ Statement(p) \/ Abort(p)
      PROVE  IInv'
  <2>1. CASE Request(p)
    BY <1>2, <2>1, BeginStep
  <2>2. CASE LookupHash(p) \/ LoadGuest(p)
    BY <1>2, <2>2, LookupHashStep, LoadGuestStep
  <2>3. CASE ReadFails(p)
    BY <1>2, <2>3, MissStep DEF ReadFails
  <2>4. ASSUME NEW g \in GuestIds, InsertGuest(p, g) \/ InsertGuestConflict(p, g)
        PROVE  IInv'
    BY <1>2, <2>4, InsertGuestStep, RefuseStep DEF InsertGuestConflict
  <2>5. ASSUME NEW d \in Docs, InsertDocument(p, d) \/ InsertDocumentConflict(p, d)
        PROVE  IInv'
    BY <1>2, <2>5, InsertDocumentStep, RefuseStep DEF InsertDocumentConflict
  <2>6. CASE Commit(p) \/ CommitUnheard(p)
    BY <1>2, <2>6, CommitStep
  <2>7. CASE RecordInquiry(p) \/ Show(p)
    BY <1>2, <2>7, RecordInquiryStep, ShowStep
  <2>8. CASE GetGuest(p) \/ AttachExists(p)
    BY <1>2, <2>8, CheckStep
  <2>9. CASE AttachInsert(p) \/ AttachNothing(p) \/ AttachOwner(p) \/ ShowAttached(p)
    BY <1>2, <2>9, AttachInsertStep, AttachNothingStep, AttachOwnerStep,
       ShowAttachedStep
  <2>10. CASE Abort(p)
    BY <1>2, <2>10, RefuseStep DEF Abort
  <2> QED
    BY <1>2, <2>1, <2>2, <2>3, <2>4, <2>5, <2>6, <2>7, <2>8, <2>9, <2>10
    DEF Statement
<1> QED BY <1>1, <1>2 DEF Next
-----------------------------------------------------------------------------
(* The theorems.                                                            *)

\* Every reachable state satisfies the inductive invariant.
THEOREM Invariance == Spec => []IInv
BY InitInv, NextInv, PTL DEF Spec

\* The tables and the locals of every request keep their types.
THEOREM TypeCorrect == Spec => []TypeOK
<1>1. IInv => TypeOK
  BY DEF IInv
<1> QED BY <1>1, Invariance, PTL

\* Schema invariant 1 for any number of replicas: the unique key on the hash
\* and the transaction of CreateGuest keep a document on one existing file.
THEOREM DocumentsOnOneFile == Spec => []OneFilePerDocument
<1>1. IInv => OneFilePerDocument
  BY DEF IInv
<1> QED BY <1>1, Invariance, PTL

\* No file is seen without the documents it was opened with, and no two share
\* a global id or an email.
THEOREM WholeFiles == Spec => []FilesAreWhole
<1>1. IInv => FilesAreWhole
  BY DEF IInv
<1> QED BY <1>1, Invariance, PTL

\* What a desk was told stays true, whatever the other desks do afterwards.
THEOREM TrueReplies == Spec => []RepliesAreTrue
<1>1. IInv => RepliesAreTrue
  BY DEF IInv, Fine, Told, RepliesAreTrue
<1> QED BY <1>1, Invariance, PTL

\* Every scan that shows a file has left its own inquiry on that file, or tried
\* to insert it: no lookup passes on the inquiry of an earlier one.
THEOREM RecordedLookups == Spec => []LookupsAreRecorded
<1>1. IInv => LookupsAreRecorded
  BY DEF IInv, Fine, Recorded, Vouched, HasInquiry, LookupsAreRecorded
<1> QED BY <1>1, Invariance, PTL

-----------------------------------------------------------------------------
(* PostgresDesk implements DocumentRegistry.                                *)

Files == {g \in GuestIds : Exists(g)}

\* The owner is the guest of the only row there is.
OwnerIsHolder ==
    \A d \in Docs :
        /\ ~Owned(d) => OwnerOf[d] = None
        /\ \A g \in GuestIds : <<d, g>> \in documents => OwnerOf[d] = g

LEMMA OwnerIs == TypeOK /\ OneFilePerDocument => OwnerIsHolder
<1> SUFFICES ASSUME TypeOK, OneFilePerDocument, NEW d \in Docs
             PROVE  /\ ~Owned(d) => OwnerOf[d] = None
                    /\ \A g \in GuestIds : <<d, g>> \in documents => OwnerOf[d] = g
  BY DEF OwnerIsHolder
<1>1. ~Owned(d) => OwnerOf[d] = None
  BY DEF OwnerOf
<1>2. ASSUME NEW g \in GuestIds, <<d, g>> \in documents PROVE OwnerOf[d] = g
  <2>1. Owned(d) /\ \A h \in GuestIds : <<d, h>> \in documents => h = g
    BY <1>2 DEF Owned, OneFilePerDocument
  <2>2. (CHOOSE h \in GuestIds : <<d, h>> \in documents) = g
    BY <1>2, <2>1
  <2> QED BY <2>1, <2>2 DEF OwnerOf
<1> QED BY <1>1, <1>2

LEMMA OwnerIsNext == TypeOK' /\ OneFilePerDocument' => OwnerIsHolder'
BY OwnerIs, PTL

LEMMA RegistryInit == Init => Registry!RegInit
<1> SUFFICES ASSUME Init PROVE Registry!RegInit
  OBVIOUS
<1>1. {g \in GuestIds : Exists(g)} = {}
  BY DEF Init, Exists
<1>2. OwnerOf = [d \in Docs |-> None]
  BY DEF Init, OwnerOf, Owned
<1> QED BY <1>1, <1>2 DEF Registry!RegInit

LEMMA SameTables ==
    ASSUME UNCHANGED <<guests, documents>> PROVE UNCHANGED Registry!regVars
<1>1. {g \in GuestIds : Exists(g)}' = {g \in GuestIds : Exists(g)}
  BY DEF Exists
<1>2. OwnerOf' = OwnerOf
  BY DEF OwnerOf, Owned
<1> QED BY <1>1, <1>2 DEF Registry!regVars

\* A commit opens a file with all its documents in one step.
LEMMA CommitOpens ==
    ASSUME IInv, TypeOK', NEW p \in Desks, CommitRows(p)
    PROVE  Registry!RegNext
<1> DEFINE g == guest[p]
           docs == req[p].docs
<1>1. /\ g \in GuestIds /\ NewRow(p) \in Row /\ docs \subseteq Docs
      /\ ~Exists(g) /\ \A d \in docs : ~Owned(d)
      /\ OneFilePerDocument' /\ documents' = documents \cup (docs \X {g})
      /\ guests' = [guests EXCEPT ![g] = NewRow(p)]
  BY CommitFacts DEF CommitRows
<1>2. Files' = Files \cup {g} /\ g \notin Files
  BY <1>1, RecordAssumption DEF Files, Exists, IInv, TypeOK
<1>3. \A d \in docs : OwnerOf[d] = None
  BY <1>1, OwnerIs DEF IInv, OwnerIsHolder
<1>4. ASSUME NEW d \in Docs
      PROVE  OwnerOf'[d] = IF d \in docs THEN g ELSE OwnerOf[d]
  <2>1. \A h \in GuestIds : <<d, h>> \in documents' => OwnerOf'[d] = h
    BY <1>1, OwnerIsNext DEF OwnerIsHolder
  <2>2. CASE d \in docs
    BY <1>1, <2>1, <2>2
  <2>3. CASE d \notin docs
    <3>1. \A h \in GuestIds : <<d, h>> \in documents' <=> <<d, h>> \in documents
      BY <1>1, <2>3
    <3> QED BY <2>3, <3>1 DEF OwnerOf, Owned
  <2> QED BY <2>2, <2>3
<1>5. OwnerOf' = [d \in Docs |-> IF d \in docs THEN g ELSE OwnerOf[d]]
  <2>1. OwnerOf' = [d \in Docs |-> OwnerOf'[d]]
    BY DEF OwnerOf
  <2> QED BY <1>4, <2>1
<1>6. Registry!OpenFile(g, docs)
  BY <1>2, <1>3, <1>5 DEF Registry!OpenFile, Files
<1> QED BY <1>1, <1>6 DEF Registry!RegNext

LEMMA InsertAttaches ==
    ASSUME IInv, IInv', NEW p \in Desks, AttachInsert(p)
    PROVE  Registry!RegNext
<1> DEFINE g == guest[p]
           e == Doc(p)
<1>1. /\ pc[p] = "insert" /\ Shape(p) /\ Learned(p) /\ ~Owned(e)
      /\ documents' = documents \cup {<<e, g>>} /\ UNCHANGED guests
  BY DEF AttachInsert, IInv, Fine
<1>2. e \in Docs /\ g \in GuestIds /\ Exists(g)
  BY <1>1, DocOfSingle DEF Shape, Learned
<1>3. Files' = Files /\ g \in Files
  BY <1>1, <1>2 DEF Files, Exists
<1>4. OwnerOf[e] = None
  BY <1>1, <1>2, OwnerIs DEF IInv, OwnerIsHolder
<1>5. OwnerOf'[e] = g
  BY <1>1, <1>2, OwnerIsNext DEF IInv, OwnerIsHolder
<1>6. \A d \in Docs \ {e} : OwnerOf'[d] = OwnerOf[d]
  BY <1>1 DEF OwnerOf, Owned
<1>7. OwnerOf' = [OwnerOf EXCEPT ![e] = g]
  <2>1. /\ OwnerOf' = [d \in Docs |-> OwnerOf'[d]]
        /\ OwnerOf = [d \in Docs |-> OwnerOf[d]]
    BY DEF OwnerOf
  <2> QED BY <1>2, <1>5, <1>6, <2>1
<1>8. Registry!Attach(g, e)
  BY <1>3, <1>4, <1>7 DEF Registry!Attach, Files
<1> QED BY <1>2, <1>8 DEF Registry!RegNext

\* Every step of a desk is a step of the registry or none.
LEMMA RegistryStep ==
    IInv /\ IInv' /\ [Next]_vars => [Registry!RegNext]_(Registry!regVars)
<1> SUFFICES ASSUME IInv, IInv', [Next]_vars
             PROVE  Registry!RegNext \/ UNCHANGED Registry!regVars
  OBVIOUS
<1>1. CASE UNCHANGED vars
  BY <1>1, SameTables DEF vars, tables
<1>2. ASSUME NEW p \in Desks, Request(p) \/ Statement(p) \/ Abort(p)
      PROVE  Registry!RegNext \/ UNCHANGED Registry!regVars
  <2>1. CASE CommitRows(p)
    BY <2>1, CommitOpens DEF IInv
  <2>2. CASE AttachInsert(p)
    BY <2>2, InsertAttaches
  <2>3. CASE UNCHANGED <<guests, documents>>
    BY <2>3, SameTables
  <2> QED
    BY <1>2, <2>1, <2>2, <2>3
    DEF Request, Begin, BeginResolve, BeginAttach, BeginRegister, tables, Statement,
        LookupHash, LoadGuest, ReadFails, InsertGuest, InsertGuestConflict,
        InsertDocument, InsertDocumentConflict, Commit, CommitUnheard,
        RecordInquiry, Show, GetGuest, AttachExists, Check, AttachNothing,
        AttachOwner, ShowAttached, Abort
<1> QED BY <1>1, <1>2 DEF Next

\* The tables under concurrent desks implement the registry.
THEOREM Refinement == Spec => RegistrySpec
<1>1. Init => Registry!RegInit
  BY RegistryInit
<1>2. IInv /\ IInv' /\ [Next]_vars => [Registry!RegNext]_(Registry!regVars)
  BY RegistryStep
<1> QED BY <1>1, <1>2, Invariance, PTL DEF Spec, RegistrySpec, Registry!RegSpec

\* A document never changes hands: what the registry promises of every step
\* holds of the tables.
THEOREM DocumentsNeverMove == Spec => Registry!DocumentsStay
<1> DEFINE Stay == \A d \in Docs : OwnerOf[d] # None => OwnerOf'[d] = OwnerOf[d]
<1>1. [Registry!RegNext]_(Registry!regVars) => Stay
  BY DEF Registry!RegNext, Registry!OpenFile, Registry!Attach, Registry!regVars, OwnerOf
<1>2. [Registry!RegNext]_(Registry!regVars) => [Stay]_(Registry!regVars)
  BY <1>1
<1> QED
  BY <1>2, Refinement, PTL DEF RegistrySpec, Registry!RegSpec, Registry!DocumentsStay
=============================================================================
