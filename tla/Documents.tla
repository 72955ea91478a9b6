------------------------------ MODULE Documents ------------------------------
(***************************************************************************)
(* The documents of one customer (document.service, storage.service, the   *)
(* document section of the customer's page): objects in S3, their rows in  *)
(* file_metadata and, for KYC documents, in customer_documents.            *)
(*                                                                         *)
(* An upload stores the object first, then inserts its rows in one         *)
(* transaction that retires the earlier document of the same type, and     *)
(* deletes the object again when that transaction fails.  The store is     *)
(* not part of the transaction and the process may die anywhere.           *)
(* Uploads and deletions of several members of staff overlap; statements   *)
(* see what is committed and wait for locked rows (READ COMMITTED).        *)
(*                                                                         *)
(* A key (prefix and random UUID) names the object, its metadata row and   *)
(* its KYC link.  `beside' and `abandoned' are history: pairs of uploads   *)
(* whose transactions overlapped, and keys whose upload died, was not told *)
(* what the store or the database did, or could not remove its object.     *)
(***************************************************************************)
EXTENDS Naturals, FiniteSets

CONSTANTS Staff, FieldOfficers, AssignedOfficer,  \* of the customer
          Keys, DocTypes, Other, MaxDeaths        \* Other: not a KYC document

ASSUME DocumentsAssumption ==
  /\ FieldOfficers \subseteq Staff
  /\ Other \notin DocTypes
  /\ MaxDeaths \in Nat

VARIABLES
  objects,    \* keys in the bucket
  files,      \* file_metadata: key -> [active, by]
  links,      \* customer_documents: key -> [type, active, verified]
  jobs,       \* the request of each member of staff
  beside, abandoned, deaths

vars == <<objects, files, links, jobs, beside, abandoned, deaths>>

NoReq   == [op |-> "none"]
Idle(s) == jobs[s] = NoReq
At(s, op, phase) == ~Idle(s) /\ jobs[s].op = op /\ jobs[s].phase = phase

\* what a file is: the page looks at the type and the size it is told, the
\* service at the first bytes, the size and the text inside
Contents == {"document", "renamed or scripted"}

Init ==
  /\ objects = {}
  /\ files = [k \in {} |-> 0] /\ links = [k \in {} |-> 0]
  /\ jobs = [s \in Staff |-> NoReq]
  /\ beside = {} /\ abandoned = {} /\ deaths = 0

-----------------------------------------------------------------------------
(* The page *)

\* getCustomerDocuments, behind the scope check of customer.findById
MayRead(s) == s \in FieldOfficers => AssignedOfficer = s

Listed == {k \in DOMAIN links : links[k].active /\ files[k].active}

\* handleFileUpload, with the document type selected; other prefixes than kyc
\* come from elsewhere and make no link
Upload(s, type, content) ==
  /\ Idle(s)
  /\ jobs' = [jobs EXCEPT ![s] = [op |-> "upload", phase |-> "check", key |-> Other,
                                type |-> type, content |-> content, retires |-> {}]]
  /\ UNCHANGED <<objects, files, links, beside, abandoned, deaths>>

\* the bin beside a document, confirmed in its dialog; the list on a page may
\* be old, so any document that was ever listed may be chosen
Delete(s, k) ==
  /\ Idle(s) /\ MayRead(s) /\ k \in DOMAIN links
  /\ jobs' = [jobs EXCEPT ![s] = [op |-> "delete", phase |-> "check", key |-> k]]
  /\ UNCHANGED <<objects, files, links, beside, abandoned, deaths>>

-----------------------------------------------------------------------------
(* upload *)

Passes(content) == content = "document"

RefuseUpload(s) ==
  /\ At(s, "upload", "check") /\ ~Passes(jobs[s].content)
  /\ jobs' = [jobs EXCEPT ![s] = NoReq]
  /\ UNCHANGED <<objects, files, links, beside, abandoned, deaths>>

Used == objects \cup DOMAIN files \cup abandoned \cup {jobs[s].key : s \in
          {t \in Staff : ~Idle(t) /\ jobs[t].op = "upload"}}

PutObject(s, k) ==
  /\ At(s, "upload", "check") /\ Passes(jobs[s].content)
  /\ k \in Keys \ Used
  /\ objects' = objects \cup {k}
  /\ jobs' = [jobs EXCEPT ![s].phase = "begin", ![s].key = k]
  /\ UNCHANGED <<files, links, beside, abandoned, deaths>>

\* Bound: at most MaxDeaths uploads end without knowing what became of their key.
Lose(k) ==
  /\ deaths < MaxDeaths /\ deaths' = deaths + 1
  /\ abandoned' = abandoned \cup {k}

\* the object is stored, its answer is lost: an error, outside of the catch that
\* cleans up
PutUnheard(s, k) ==
  /\ At(s, "upload", "check") /\ Passes(jobs[s].content)
  /\ k \in Keys \ Used
  /\ Lose(k)
  /\ objects' = objects \cup {k}
  /\ jobs' = [jobs EXCEPT ![s] = NoReq]
  /\ UNCHANGED <<files, links, beside>>

\* the store refuses
PutFails(s) ==
  /\ At(s, "upload", "check") /\ Passes(jobs[s].content)
  /\ jobs' = [jobs EXCEPT ![s] = NoReq]
  /\ UNCHANGED <<objects, files, links, beside, abandoned, deaths>>

Retiring(k) == \E t \in Staff : At(t, "upload", "commit") /\ k \in jobs[t].retires

\* slip: only documents somebody verified are replaced
VerifiedOf(type) == {k \in DOMAIN links : links[k].type = type /\ links[k].verified}

ActiveOf(type) == {k \in DOMAIN links : links[k].type = type /\ links[k].active}

Replacing(type) == {t \in Staff : jobs[t] # NoReq /\ jobs[t].op = "upload"
                      /\ jobs[t].type = type /\ jobs[t].phase \in {"lock", "commit"}}

\* file_metadata.create, and the start of customer_documents.updateMany: the
\* statement sees what is committed now
Retire(s) ==
  /\ At(s, "upload", "begin")
  /\ jobs' = [jobs EXCEPT ![s].phase = "lock",
       ![s].retires = IF jobs[s].type = Other THEN {} ELSE ActiveOf(jobs[s].type)]
  /\ beside' = beside \cup {{jobs[s].key, jobs[t].key} : t \in Replacing(jobs[s].type)}
  /\ UNCHANGED <<objects, files, links, abandoned, deaths>>

\* it waits for rows another transaction is retiring, and leaves those alone
\* that are inactive by then; what was committed meanwhile it does not see
LockRetired(s) ==
  /\ At(s, "upload", "lock")
  /\ \A k \in jobs[s].retires : ~Retiring(k)
  /\ jobs' = [jobs EXCEPT ![s].phase = "commit",
                        ![s].retires = {k \in @ : links[k].active}]
  /\ UNCHANGED <<objects, files, links, beside, abandoned, deaths>>

With(f, k, v) == [x \in DOMAIN f \cup {k} |-> IF x = k THEN v ELSE f[x]]

CommitRows(s) ==
  /\ At(s, "upload", "commit")
  /\ files' = With(files, jobs[s].key, [active |-> TRUE, by |-> s])
  /\ links' =
       LET retired == [k \in DOMAIN links |->
             [links[k] EXCEPT !.active = @ /\ k \notin jobs[s].retires]]
       IN IF jobs[s].type = Other THEN retired
          ELSE With(retired, jobs[s].key,
                    [type |-> jobs[s].type, active |-> TRUE, verified |-> FALSE])
  /\ UNCHANGED <<objects, beside>>

Commit(s) ==
  /\ CommitRows(s)
  /\ jobs' = [jobs EXCEPT ![s].phase = "audit"]
  /\ UNCHANGED <<abandoned, deaths>>

\* the rows are committed, the answer to COMMIT is lost: an error like any other
CommitUnheard(s) ==
  /\ CommitRows(s)
  /\ Lose(jobs[s].key)
  /\ jobs' = [jobs EXCEPT ![s].phase = "clean up", ![s].retires = {}]

RollBack(s) ==
  /\ \E phase \in {"begin", "lock", "commit"} : At(s, "upload", phase)
  /\ jobs' = [jobs EXCEPT ![s].phase = "clean up", ![s].retires = {}]
  /\ UNCHANGED <<objects, files, links, beside, abandoned, deaths>>

\* the compensating delete, and its failure, which is only logged
CleanUp(s) ==
  /\ At(s, "upload", "clean up")
  /\ objects' = objects \ {jobs[s].key}
  /\ jobs' = [jobs EXCEPT ![s] = NoReq]
  /\ UNCHANGED <<files, links, beside, abandoned, deaths>>

CleanUpFails(s) ==
  /\ At(s, "upload", "clean up")
  /\ Lose(jobs[s].key)
  /\ jobs' = [jobs EXCEPT ![s] = NoReq]
  /\ UNCHANGED <<objects, files, links, beside>>

-----------------------------------------------------------------------------
(* softDelete and the reads of one document *)

\* loadMetadataWithScope: the link decides for a KYC document, whoever
\* uploaded it; the uploader for any other file
InScope(s, k) ==
  s \in FieldOfficers => IF k \in DOMAIN links THEN AssignedOfficer = s
                         ELSE files[k].by = s

Found(s, k) == k \in DOMAIN files /\ files[k].active /\ InScope(s, k)

ReadMetadata(s) ==
  /\ At(s, "delete", "check") /\ Found(s, jobs[s].key)
  /\ jobs' = [jobs EXCEPT ![s].phase = "write"]
  /\ UNCHANGED <<objects, files, links, beside, abandoned, deaths>>

RefuseDelete(s) ==
  /\ At(s, "delete", "check") /\ ~Found(s, jobs[s].key)
  /\ jobs' = [jobs EXCEPT ![s] = NoReq]
  /\ UNCHANGED <<objects, files, links, beside, abandoned, deaths>>

\* one transaction: the row of the file and every link to it; the object stays
Deactivate(s) ==
  /\ At(s, "delete", "write") /\ ~Retiring(jobs[s].key)
  /\ files' = [files EXCEPT ![jobs[s].key].active = FALSE]
  /\ links' = [k \in DOMAIN links |->
                 [links[k] EXCEPT !.active = @ /\ k # jobs[s].key]]
  /\ jobs' = [jobs EXCEPT ![s].phase = "audit"]
  /\ UNCHANGED <<objects, beside, abandoned, deaths>>

\* writeAuditLog swallows its own failures, so the answer always follows
Answer(s) ==
  /\ ~Idle(s) /\ jobs[s].phase = "audit"
  /\ jobs' = [jobs EXCEPT ![s] = NoReq]
  /\ UNCHANGED <<objects, files, links, beside, abandoned, deaths>>

\* the API process dies with the request; PostgreSQL rolls its transaction back
Die(s) ==
  /\ ~Idle(s) /\ jobs[s].phase # "check" /\ deaths < MaxDeaths
  /\ deaths' = deaths + 1
  /\ abandoned' = IF jobs[s].op = "upload" /\ jobs[s].phase # "audit"
                  THEN abandoned \cup {jobs[s].key} ELSE abandoned
  /\ jobs' = [jobs EXCEPT ![s] = NoReq]
  /\ UNCHANGED <<objects, files, links, beside>>

Next == \E s \in Staff :
  \/ \E type \in DocTypes \cup {Other}, c \in Contents : Upload(s, type, c)
  \/ \E k \in Keys : Delete(s, k) \/ PutObject(s, k) \/ PutUnheard(s, k)
  \/ RefuseUpload(s) \/ PutFails(s) \/ Retire(s) \/ LockRetired(s)
  \/ Commit(s) \/ CommitUnheard(s) \/ RollBack(s)
  \/ CleanUp(s) \/ CleanUpFails(s)
  \/ ReadMetadata(s) \/ RefuseDelete(s) \/ Deactivate(s) \/ Answer(s) \/ Die(s)

Spec == Init /\ [][Next]_vars

-----------------------------------------------------------------------------
(* Properties *)

TypeOK ==
  /\ objects \subseteq Keys /\ DOMAIN files \subseteq Keys
  /\ DOMAIN links \subseteq DOMAIN files
  /\ \A k \in DOMAIN files : files[k] \in [active : BOOLEAN, by : Staff]
  /\ \A k \in DOMAIN links :
       links[k] \in [type : DocTypes, active : BOOLEAN, verified : BOOLEAN]
  /\ abandoned \subseteq Keys /\ deaths \in 0 .. MaxDeaths

\* Documents whose transaction was committed though its answer was lost.
Unheard == abandoned \cap DOMAIN files

\* Replacing, deleting and failing in any order leave no ghost: an active KYC
\* document has an active file row ("ghost row that lists in the UI but 404s on
\* view") and its object is in the store.  The exception: the answer to COMMIT
\* was lost, and the upload took that for a failure and removed the object.
ListedDocumentsOpen ==
  /\ {k \in DOMAIN links : links[k].active} = Listed
  /\ Listed \subseteq objects \cup Unheard

\* Two active documents of one type come only from uploads whose transactions
\* overlapped: the replacement in upload sees every document committed before.
OneFilePerTypeUnlessOverlapped ==
  \A j, k \in DOMAIN links :
    /\ j # k /\ links[j].active /\ links[k].active
    /\ links[j].type = links[k].type
    => {j, k} \in beside

\* The keys of uploads that have stored their object and not yet their rows.
UnderWay == {jobs[s].key : s \in {t \in Staff : ~Idle(t) /\ jobs[t].op = "upload"
                                   /\ jobs[t].phase \in {"begin", "lock", "commit", "clean up"}}}

\* An object in the store has a row, or its upload is under way, or was left by
\* an upload that died, heard nothing from the store or failed to remove it; and
\* a row has its object unless the answer to its COMMIT was lost (upload's
\* compensating delete).
ObjectsAreAccountedFor ==
  /\ objects \subseteq DOMAIN files \cup abandoned \cup UnderWay
  /\ DOMAIN files \subseteq objects \cup Unheard
  /\ UnderWay \subseteq objects

\* What a reader of the documents relies on (DocumentService): the list opens,
\* shows one file of a type, and no object is lost sight of, but for what a lost
\* answer of the store or of the database does.
DocumentsAreKept ==
  TypeOK /\ ListedDocumentsOpen /\ OneFilePerTypeUnlessOverlapped /\ ObjectsAreAccountedFor
=============================================================================
