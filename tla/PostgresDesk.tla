---------------------------- MODULE PostgresDesk ----------------------------
(***************************************************************************)
(* The identity handlers of internal/api/identity.go and handleCreateGuest *)
(* of internal/api/api.go, running concurrently on any number of replicas  *)
(* over the PostgreSQL store of internal/store/postgres.                   *)
(*                                                                         *)
(* One action is one statement of a handler's store calls.  CreateGuest    *)
(* runs in a transaction: its rows are held by the desk at pc "docs" and   *)
(* become visible at the commit.  A statement that meets a committed row   *)
(* with the same key fails; one that meets the uncommitted row of another  *)
(* transaction waits for its end.                                          *)
(*                                                                         *)
(* The global id of a file opened at a desk is derived from the hash of    *)
(* its document, and so is the email when none is given, so a hash stands  *)
(* for both here.  Emails are compared up to case.  Validation, the        *)
(* issuing authority, the score and the search index come before and after *)
(* these steps and change nothing in the registry.                         *)
(***************************************************************************)
EXTENDS Naturals, FiniteSets, Sequences

CONSTANTS
    Desks,     \* requests being served, on whatever replica
    GuestIds,  \* identifiers a caller may pass or nextID produce
    Docs,      \* document hashes
    Emails,    \* addresses typed in at the desk
    None

ASSUME DistinctAssumption ==
    /\ None \notin GuestIds \cup Docs \cup Emails
    /\ Docs \cap Emails = {}

Addresses == Emails \cup Docs  \* a hash: the address synthesised from it

VARIABLES
    guests,     \* the guests table: id -> row
    documents,  \* the identity_documents table: (hash, guest_id) rows
    pc,         \* the next statement of each request
    req,        \* what each request asks for
    left,       \* documents its transaction has yet to insert
    guest,      \* the file each request works on
    inquiry,    \* history: what each request has sent to the inquiries table
    reply       \* the answer last given at each desk

tables == <<guests, documents>>
vars   == <<tables, pc, req, left, guest, inquiry, reply>>

\* docs is a history field: the documents the file was opened with.
Row == [email : Addresses, gid : Docs \cup {None}, docs : SUBSET Docs]

\* A resolve or an attach carries one document; handleCreateGuest takes the
\* guest as posted, with whatever documents and global id the body holds.
Req     == [kind : {"resolve", "attach", "register"}, docs : SUBSET Docs,
            gid : Docs \cup {None}, email : Addresses \cup {None}, named : BOOLEAN]
Answers == {"matched", "opened", "attached", "taken"}

\* At a pc named like an answer, that answer is what is left to do.
Pcs     == {"idle", "lookup", "load", "open", "docs", "logOpened", "logMatched",
            "get", "exists", "insert", "owner", "matched", "opened", "attached"}

\* An answer about a document and a file, and the file whose summary and score
\* it shows; any other answer tells nothing.
Reply   == [answer : Answers, doc : Docs, guest : GuestIds,
            shown : GuestIds \cup {None}] \cup {None}

\* A row of the inquiries table, or one that could not be inserted.  The table
\* is append-only and these handlers never read it: what counts of it here is
\* which rows are whose.
Inquiry == [guest : GuestIds, kept : BOOLEAN]

ASSUME RecordAssumption == None \notin Row /\ None \notin Req

Exists(g) == guests[g] # None
Owned(d)  == \E g \in GuestIds : <<d, g>> \in documents

Init ==
    /\ guests = [g \in GuestIds |-> None]
    /\ documents = {}
    /\ pc = [p \in Desks |-> "idle"]
    /\ req = [p \in Desks |-> None]
    /\ left = [p \in Desks |-> {}]
    /\ guest = [p \in Desks |-> None]
    /\ inquiry = [p \in Desks |-> <<>>]
    /\ reply = [p \in Desks |-> None]

-----------------------------------------------------------------------------
(* Steps of a request: go on to a statement, or answer.                     *)

Goto(p, l) == pc' = [pc EXCEPT ![p] = l] /\ UNCHANGED <<req, inquiry, reply>>

Done(p, r) ==
    /\ pc' = [pc EXCEPT ![p] = "idle"]
    /\ req' = [req EXCEPT ![p] = None]
    /\ left' = [left EXCEPT ![p] = {}]
    /\ guest' = [guest EXCEPT ![p] = None]
    /\ reply' = [reply EXCEPT ![p] = r]
    /\ UNCHANGED inquiry

Doc(p) == CHOOSE d \in req[p].docs : TRUE

\* The desk is told something about its document and the file at hand, or
\* nothing: no file, a validation or conflict error, a failure.
Tell(p, a, g) ==
    Done(p, [answer |-> a, doc |-> Doc(p), guest |-> guest[p], shown |-> g])
Refuse(p)  == Done(p, None)

WorkOn(p, g) == guest' = [guest EXCEPT ![p] = g]

Begin(p, r, g, l) ==
    /\ pc[p] = "idle"
    /\ req' = [req EXCEPT ![p] = r]
    /\ reply' = [reply EXCEPT ![p] = None]
    /\ inquiry' = [inquiry EXCEPT ![p] = <<>>]
    /\ pc' = [pc EXCEPT ![p] = l]
    /\ left' = [left EXCEPT ![p] = r.docs]
    /\ WorkOn(p, g)
    /\ UNCHANGED tables

\* The desk scans document d.  Without a name it only looks; without an email
\* the address is synthesised.
BeginResolve(p, d, email, named) ==
    Begin(p, [kind |-> "resolve", docs |-> {d}, gid |-> d, email |-> email,
              named |-> named], None, "lookup")

BeginAttach(p, d, g) ==
    Begin(p, [kind |-> "attach", docs |-> {d}, gid |-> None, email |-> None,
              named |-> FALSE], g, "get")

BeginRegister(p, docs, gid, email) ==
    Begin(p, [kind |-> "register", docs |-> docs, gid |-> gid, email |-> email,
              named |-> TRUE], None, "open")

-----------------------------------------------------------------------------
(* ResolveByDocument: two reads.  It has no error to return, so a failed    *)
(* read is a miss.                                                          *)

Miss(p) ==
    \/ req[p].named /\ Goto(p, "open") /\ UNCHANGED left /\ WorkOn(p, None)
    \/ ~req[p].named /\ Refuse(p)

LookupHash(p) ==
    /\ pc[p] = "lookup"
    /\ \/ \E g \in GuestIds :
             /\ <<Doc(p), g>> \in documents
             /\ WorkOn(p, g) /\ Goto(p, "load") /\ UNCHANGED left
       \/ ~Owned(Doc(p)) /\ Miss(p)
    /\ UNCHANGED tables

\* Seeded fault: a file that was found is shown without an inquiry.
LoadGuestUnrecorded(p) ==
    /\ pc[p] = "load"
    /\ IF Exists(guest[p]) THEN Goto(p, "matched") /\ UNCHANGED <<left, guest>>
                           ELSE Miss(p)
    /\ UNCHANGED tables

LoadGuest(p) ==
    /\ pc[p] = "load"
    /\ IF Exists(guest[p]) THEN Goto(p, "logMatched") /\ UNCHANGED <<left, guest>>
                           ELSE Miss(p)
    /\ UNCHANGED tables

ReadFails(p) ==
    /\ pc[p] \in {"lookup", "load"}
    /\ Miss(p)
    /\ UNCHANGED tables

-----------------------------------------------------------------------------
(* CreateGuest: insert the guest, insert its documents, commit.             *)

NewRow(p) == [email |-> req[p].email, gid |-> req[p].gid, docs |-> req[p].docs]

\* The rows of an open transaction, which no one else sees.
InTx(q) == pc[q] = "docs"
Held(q) == IF InTx(q) THEN req[q].docs \ left[q] ELSE {}

\* Rows a and b of the guests table violate one of its three unique keys.
Clash(g, a, h, b) ==
    g = h \/ a.email = b.email \/ (a.gid # None /\ a.gid = b.gid)

Taken(p, g) == \E h \in GuestIds : Exists(h) /\ Clash(g, NewRow(p), h, guests[h])
RowRacing(p, g) ==
    \E q \in Desks \ {p} : InTx(q) /\ Clash(g, NewRow(p), guest[q], NewRow(q))
DocRacing(p, d) == \E q \in Desks \ {p} : d \in Held(q)

\* Seeded fault: the generated id does not reach the following statements.
InsertGuestUnheld(p, g) ==
    /\ pc[p] = "open"
    /\ ~Taken(p, g) /\ ~RowRacing(p, g)
    /\ Goto(p, "docs")
    /\ UNCHANGED <<tables, left, guest>>

\* Seeded fault: the insert commits by itself, before the documents are in.
InsertGuestCommitted(p, g) ==
    /\ pc[p] = "open"
    /\ ~Taken(p, g) /\ ~RowRacing(p, g)
    /\ guests' = [guests EXCEPT ![g] = NewRow(p)]
    /\ WorkOn(p, g) /\ Goto(p, "docs")
    /\ UNCHANGED <<documents, left>>

InsertGuest(p, g) ==
    /\ pc[p] = "open"
    /\ ~Taken(p, g) /\ ~RowRacing(p, g)
    /\ WorkOn(p, g) /\ Goto(p, "docs")
    /\ UNCHANGED <<tables, left>>

InsertGuestConflict(p, g) ==
    /\ pc[p] = "open"
    /\ Taken(p, g)
    /\ Refuse(p)
    /\ UNCHANGED tables

\* Seeded fault: identity_documents has no primary key on the hash.
InsertDocumentNoKey(p, d) ==
    /\ InTx(p) /\ d \in left[p]
    /\ left' = [left EXCEPT ![p] = @ \ {d}]
    /\ UNCHANGED <<tables, pc, req, guest, inquiry, reply>>

InsertDocument(p, d) ==
    /\ InTx(p) /\ d \in left[p]
    /\ ~Owned(d) /\ ~DocRacing(p, d)
    /\ left' = [left EXCEPT ![p] = @ \ {d}]
    /\ UNCHANGED <<tables, pc, req, guest, inquiry, reply>>

\* The conflict rolls the transaction back.
InsertDocumentConflict(p, d) ==
    /\ InTx(p) /\ d \in left[p]
    /\ Owned(d)
    /\ Refuse(p)
    /\ UNCHANGED tables

CommitRows(p) ==
    /\ InTx(p) /\ left[p] = {}
    /\ guests' = [guests EXCEPT ![guest[p]] = NewRow(p)]
    /\ documents' = documents \cup (req[p].docs \X {guest[p]})

\* What handleCreateGuest answers is the guest it was sent.
Commit(p) ==
    /\ CommitRows(p)
    /\ IF req[p].kind = "resolve"
       THEN Goto(p, "logOpened") /\ UNCHANGED <<left, guest>>
       ELSE Refuse(p)

\* The server commits, but the replica dies or the connection is lost before
\* it can say so.
CommitUnheard(p) == CommitRows(p) /\ Refuse(p)

-----------------------------------------------------------------------------
(* recordInquiry, after a match or an opening, then the answer.            *)

\* RecordInquiry has no error to return: a failed insert is only logged.
RecordInquiry(p) ==
    /\ pc[p] \in {"logOpened", "logMatched"}
    /\ \E kept \in BOOLEAN :
           inquiry' = [inquiry EXCEPT ![p] =
                           Append(@, [guest |-> guest[p], kept |-> kept])]
    /\ pc' = [pc EXCEPT ![p] = IF @ = "logOpened" THEN "opened" ELSE "matched"]
    /\ UNCHANGED <<tables, req, left, guest, reply>>

\* The summary and the score of the file as it was read or created.
Show(p) ==
    /\ pc[p] \in {"matched", "opened"}
    /\ Tell(p, pc[p], guest[p])
    /\ UNCHANGED tables

-----------------------------------------------------------------------------
(* handleAttachDocument: GetGuest, AttachDocument's three statements, and   *)
(* GetGuest again.                                                          *)

\* GetGuest and SELECT EXISTS: the same question, asked twice.
Check(p, from, to) ==
    /\ pc[p] = from
    /\ IF Exists(guest[p]) THEN Goto(p, to) /\ UNCHANGED <<left, guest>>
                           ELSE Refuse(p)
    /\ UNCHANGED tables

GetGuest(p)     == Check(p, "get", "exists")
AttachExists(p) == Check(p, "exists", "insert")

\* Seeded fault: on a conflict the insert takes the document over.
AttachInsertUpsert(p) ==
    /\ pc[p] = "insert"
    /\ ~DocRacing(p, Doc(p))
    /\ documents' = {row \in documents : row[1] # Doc(p)}
                        \cup {<<Doc(p), guest[p]>>}
    /\ Goto(p, "attached")
    /\ UNCHANGED <<guests, left, guest>>

\* INSERT ... ON CONFLICT (hash) DO NOTHING, in a transaction of its own.
AttachInsert(p) ==
    /\ pc[p] = "insert"
    /\ ~Owned(Doc(p)) /\ ~DocRacing(p, Doc(p))
    /\ documents' = documents \cup {<<Doc(p), guest[p]>>}
    /\ Goto(p, "attached")
    /\ UNCHANGED <<guests, left, guest>>

AttachNothing(p) ==
    /\ pc[p] = "insert"
    /\ Owned(Doc(p))
    /\ Goto(p, "owner")
    /\ UNCHANGED <<tables, left, guest>>

\* Seeded fault: a document found on some file counts as attached.
AttachOwnerUnread(p) ==
    /\ pc[p] = "owner"
    /\ Goto(p, "attached")
    /\ UNCHANGED <<tables, left, guest>>

AttachOwner(p) ==
    /\ pc[p] = "owner"
    /\ IF <<Doc(p), guest[p]>> \in documents
       THEN Goto(p, "attached") /\ UNCHANGED <<left, guest>>
       ELSE Tell(p, "taken", None)
    /\ UNCHANGED tables

\* The file is read once more to be shown, and no inquiry is made.  The error
\* of that read is dropped: the answer then shows a guest without a name or an
\* id.
ShowAttached(p) ==
    /\ pc[p] = "attached"
    /\ \/ Exists(guest[p]) /\ Tell(p, "attached", guest[p])
       \/ Tell(p, "attached", None)
    /\ UNCHANGED tables

-----------------------------------------------------------------------------
\* A statement fails, its five seconds run out while it waits, or the replica
\* dies: the server rolls an open transaction back, and the client gets an
\* error or no answer at all.
Abort(p) ==
    /\ pc[p] # "idle"
    /\ Refuse(p)
    /\ UNCHANGED tables

Request(p) ==
    \/ \E d \in Docs, email \in Emails, named \in BOOLEAN :
           BeginResolve(p, d, email, named)
    \/ \E d \in Docs, named \in BOOLEAN : BeginResolve(p, d, d, named)
    \/ \E d \in Docs, g \in GuestIds : BeginAttach(p, d, g)
    \/ \E docs \in SUBSET Docs, gid \in Docs \cup {None}, email \in Emails :
           BeginRegister(p, docs, gid, email)

Statement(p) ==
    \/ LookupHash(p) \/ LoadGuest(p) \/ ReadFails(p)
    \/ \E g \in GuestIds : InsertGuest(p, g) \/ InsertGuestConflict(p, g)
    \/ \E d \in Docs : InsertDocument(p, d) \/ InsertDocumentConflict(p, d)
    \/ Commit(p) \/ CommitUnheard(p)
    \/ RecordInquiry(p) \/ Show(p)
    \/ GetGuest(p) \/ AttachExists(p)
    \/ AttachInsert(p) \/ AttachNothing(p) \/ AttachOwner(p)
    \/ ShowAttached(p)

Next == \E p \in Desks : Request(p) \/ Statement(p) \/ Abort(p)

Spec == Init /\ [][Next]_vars

-----------------------------------------------------------------------------
(* Properties.                                                              *)

TypeOK ==
    /\ guests \in [GuestIds -> Row \cup {None}]
    /\ documents \subseteq Docs \X GuestIds
    /\ pc \in [Desks -> Pcs]
    /\ req \in [Desks -> Req \cup {None}]
    /\ left \in [Desks -> SUBSET Docs]
    /\ guest \in [Desks -> GuestIds \cup {None}]
    /\ inquiry \in [Desks -> Seq(Inquiry)]
    /\ reply \in [Desks -> Reply]

\* Schema invariant 1 (0001_init.sql): a document belongs to exactly one file,
\* and to one that exists, whichever desks open and attach at once.
OneFilePerDocument ==
    /\ \A d \in Docs, g, h \in GuestIds :
           <<d, g>> \in documents /\ <<d, h>> \in documents => g = h
    /\ \A row \in documents : Exists(row[2])

\* CreateGuest is atomic: no file is ever seen without the documents it was
\* opened with, since it could not be resolved, and no two files share a
\* global id or an email.
FilesAreWhole ==
    /\ \A g \in GuestIds : Exists(g) => guests[g].docs \X {g} \subseteq documents
    /\ \A g, h \in GuestIds :
           Exists(g) /\ Exists(h) /\ Clash(g, guests[g], h, guests[h]) => g = h

\* What a desk is told stays true: a match, an opening and an attachment name
\* a file that holds the document, an opening one whose global id is the
\* document's, and a refused attachment means that another file holds it.
RepliesAreTrue ==
    \A r \in {reply[p] : p \in Desks} \ {None} :
        /\ r.answer = "taken" \/ <<r.doc, r.guest>> \in documents
        /\ r.answer = "opened" => guests[r.guest].gid = r.doc
        /\ r.answer = "taken" =>
               \E g \in GuestIds \ {r.guest} : <<r.doc, g>> \in documents

\* A desk that scans a document and is shown a file has left one inquiry of
\* its own on that file, whether it was matched or opened and however often the
\* file was looked up before, or the one insert for it failed.  An attachment
\* shows the file it attached to and leaves none (identity.go:299-308).
LookupsAreRecorded ==
    \A p \in Desks :
        /\ reply[p] # None
        /\ reply[p].shown # None
        /\ reply[p].answer # "attached"
        => Len(inquiry[p]) = 1 /\ inquiry[p][1].guest = reply[p].shown

\* The tables implement the registry the schema promises: files open with all
\* their documents in one step, and a document never changes hands.
OwnerOf == [d \in Docs |-> IF Owned(d) THEN CHOOSE g \in GuestIds : <<d, g>> \in documents
                           ELSE None]
Registry == INSTANCE DocumentRegistry
                WITH files <- {g \in GuestIds : Exists(g)}, owner <- OwnerOf
RegistrySpec == Registry!RegSpec
=============================================================================
