------------------------------- MODULE Files --------------------------------
(***************************************************************************)
(* Private files, from the form in the browser to the download: the upload *)
(* puts the bytes into object storage first and then runs a command that   *)
(* writes the row, its audit row and the outbox message of the scan; the   *)
(* worker asks the scanner about the stored object and writes its verdict; *)
(* a download reads the row, is audited, and only then reads the object.   *)
(* None of these steps excludes the others. The storage, the database and  *)
(* the browser's sessionStorage outlive the requests.                      *)
(*                                                                         *)
(* The upload is one form of one account: an attachment of an entity that  *)
(* belongs to EntityFactory. Its key in sessionStorage is a fingerprint of *)
(* the fields and of the file's name, size and date, so the contents may   *)
(* differ between two submissions. A file's size and type are left out:    *)
(* any content fits any row.                                               *)
(***************************************************************************)
EXTENDS Integers, Sequences, FiniteSets

CONSTANTS Accounts,      \* people who use the files
          RolesOf,       \* RolesOf[u]: the roles of u
          FactoryOf,     \* FactoryOf[u]: users.factory_id, or "none"
          Uploader,      \* whose form it is
          EntityFactory, \* the factory the entity belongs to
          Keys,          \* idempotency keys
          Contents,      \* what a file may contain
          Harmless,      \* the contents the scanner finds clean
          MaxUploads,    \* uploads in one behaviour (a bound)
          MaxScans,      \* outbox_messages.max_attempts of a scan
          MaxDownloads,  \* downloads in one behaviour (a bound)
          PageSize,      \* rows of a page of the audit log
          MaxLog         \* length of the audit log (a bound)

NoBytes == "nothing"

ASSUME FilesAssumption ==
  /\ Uploader \in Accounts /\ Harmless \subseteq Contents /\ NoBytes \notin Contents
  /\ MaxScans \in Nat \ {0} /\ PageSize \in Nat \ {0}

VARIABLES object,   \* object[x]: what object storage holds under the key x
          file,     \* the rows of file_objects
          command,  \* command[k]: the upload command_idempotency has for k
          scan,     \* scan[f]: the outbox message of the scan of file f
          upload,   \* the requests POST /api/v1/files so far
          form,     \* the browser's form and what sessionStorage keeps for it
          download, \* the requests GET /api/v1/files so far
          used,     \* files that other commands took as their evidence
          log,      \* audit_logs in the order of created_at
          view      \* an administrator who pages through the log

server    == <<object, file, command, scan>>
filesVars == <<server, upload, form, download, used, log, view>>

NoKey     == "no key"
NoCommand == [content |-> NoBytes, file |-> 0]

\* quarantine/users/<user>/<category>/<sha256 of the content>-<hash of the key>
ObjectKeys == Keys \X Contents

\* Mutant: the object is named after the request alone.
ObjectKeyOfRequest(k, c) == <<k, CHOOSE any \in Contents : TRUE>>

ObjectKey(k, c) == <<k, c>>

FilesInit ==
  /\ object = [x \in ObjectKeys |-> NoBytes]
  /\ file = <<>> /\ scan = <<>> /\ upload = <<>> /\ download = <<>>
  /\ command = [k \in Keys |-> NoCommand]
  /\ form = [key |-> NoKey, file |-> 0, at |-> "idle"]
  /\ used = {}
  /\ log = <<>>
  /\ view = [page |-> 0, before |-> {}, seen |-> {}]

-----------------------------------------------------------------------------
(* Who may see a file, and the audit log *)

Insiders == {"admin", "supply_chain", "finance", "company_qc"}
Internal(u) == RolesOf[u] \cap Insiders # {}

CanRead(u, f) == \/ Internal(u)
                 \/ file[f].owner = u
                 \/ FactoryOf[u] # "none" /\ file[f].factory = FactoryOf[u]

\* The authorizers of purchase_order, delivery_batch, product_return and
\* supplier_sku: insiders, and the factory the entity belongs to.
EntityAllows(u) == Internal(u) \/ FactoryOf[u] = EntityFactory

\* Whoever writes a row, another's, written earlier, may be committed after it.
Logged(what, f, u) ==
  LET row == [id |-> Len(log) + 1, what |-> what, file |-> f, by |-> u]
  IN log' \in {Append(log, row)} \cup
       IF log = <<>> THEN {}
       ELSE {SubSeq(log, 1, Len(log) - 1) \o <<row, log[Len(log)]>>}

-----------------------------------------------------------------------------
(* uploadPlatformFile in the browser *)

\* A submission without a file of an earlier one; the key is kept, or made.
Submit(k, c) ==
  /\ form.at = "idle" /\ form.file = 0
  /\ IF form.key = NoKey THEN \A r \in DOMAIN upload : upload[r].key # k ELSE k = form.key
  /\ Len(upload) < MaxUploads
  /\ upload' = Append(upload, [key |-> k, content |-> c, at |-> "checked", file |-> 0])
  /\ form' = [form EXCEPT !.key = k, !.at = "sent"]
  /\ UNCHANGED <<server, download, used, log, view>>

\* The form is submitted again: the file is known, only its scan is awaited.
Resume ==
  /\ form.at = "idle" /\ form.file # 0
  /\ form' = [form EXCEPT !.at = "waiting"]
  /\ UNCHANGED <<server, upload, download, used, log, view>>

\* The answer to the last submission: a file, a definite error, which drops
\* the key, or an outcome the server does not know itself.
Learn ==
  LET r == upload[Len(upload)]
  IN /\ form.at = "sent"
     /\ r.at \in {"stored", "refused", "unknown"}
     /\ form' = CASE r.at = "stored"  -> [form EXCEPT !.file = r.file, !.at = "waiting"]
                  [] r.at = "refused" -> [form EXCEPT !.key = NoKey, !.at = "idle"]
                  [] OTHER            -> [form EXCEPT !.at = "idle"]
     /\ UNCHANGED <<server, upload, download, used, log, view>>

\* fetch throws, the page is reloaded, or sixty polls have found no verdict.
GiveUp ==
  /\ form.at \in {"sent", "waiting"}
  /\ form' = [form EXCEPT !.at = "idle"]
  /\ UNCHANGED <<server, upload, download, used, log, view>>

\* waitForPlatformFile: GET /api/v1/files/status answers a verdict.
LearnVerdict ==
  /\ form.at = "waiting"
  /\ CanRead(Uploader, form.file) /\ EntityAllows(Uploader)
  /\ file[form.file].status # "quarantined"
  /\ form' = [key |-> NoKey, file |-> 0,
              at |-> IF file[form.file].status = "clean" THEN "done" ELSE "idle"]
  /\ UNCHANGED <<server, upload, download, used, log, view>>

-----------------------------------------------------------------------------
(* POST /api/v1/files *)

Goto(r, phase) == upload' = [upload EXCEPT ![r].at = phase]

\* A bucket overwrites what it has under the key.
Put(x, content) == object' = [object EXCEPT ![x] = content]

\* The session, the scanner, the fields, the scope, the type or a statement
\* of the command is refused or fails.
Refuse(r) ==
  /\ upload[r].at \in {"checked", "put"}
  /\ Goto(r, "refused")
  /\ UNCHANGED <<server, form, download, used, log, view>>

\* writeQuarantinedObject, before the command: no one has compared the key
\* with earlier requests yet. A write that fails may have been done.
PutObject(r) ==
  /\ upload[r].at = "checked"
  /\ EntityAllows(Uploader)
  /\ Internal(Uploader) \/ FactoryOf[Uploader] # "none"
  /\ Put(ObjectKey(upload[r].key, upload[r].content), upload[r].content)
  /\ \/ Goto(r, "put")
     \/ Goto(r, "refused")
  /\ UNCHANGED <<file, command, scan, form, download, used, log, view>>

\* The command commits; the answer to its COMMIT may be lost.
StoreFile(r) ==
  LET f == Len(file) + 1
  IN /\ upload[r].at = "put"
     /\ command[upload[r].key] = NoCommand
     /\ Len(log) < MaxLog
     /\ command' = [command EXCEPT ![upload[r].key] = [content |-> upload[r].content, file |-> f]]
     /\ file' = Append(file, [key |-> upload[r].key, content |-> upload[r].content,
                              owner |-> Uploader, factory |-> FactoryOf[Uploader],
                              status |-> "quarantined"])
     /\ scan' = Append(scan, [status |-> "pending", attempts |-> 0, verdict |-> "none"])
     /\ Logged("upload_quarantined", f, Uploader)
     /\ upload' \in {[upload EXCEPT ![r].at = "stored", ![r].file = f],
                     [upload EXCEPT ![r].at = "unknown"]}
     /\ UNCHANGED <<object, form, download, used, view>>

\* The key was used: the same file is answered again, or the request refused.
ReplayUpload(r) ==
  /\ upload[r].at = "put"
  /\ command[upload[r].key] # NoCommand
  /\ upload' = IF command[upload[r].key].content = upload[r].content
               THEN [upload EXCEPT ![r].at = "stored", ![r].file = command[upload[r].key].file]
               ELSE [upload EXCEPT ![r].at = "refused"]
  /\ UNCHANGED <<server, form, download, used, log, view>>

\* The connection is lost at COMMIT, and nothing was committed.
LoseUpload(r) ==
  /\ upload[r].at = "put"
  /\ Goto(r, "unknown")
  /\ UNCHANGED <<server, form, download, used, log, view>>

-----------------------------------------------------------------------------
(* The topic file.scan in the worker *)

Stored(f) == object[ObjectKey(file[f].key, file[f].content)]

\* A worker claims the message, from one that lost its lease too, and the
\* scanner reads the object. An answer that is no verdict is none.
ScanFile(f) ==
  /\ scan[f].status = "pending" /\ scan[f].attempts < MaxScans
  /\ Stored(f) # NoBytes
  /\ \E verdict \in {"none", IF Stored(f) \in Harmless THEN "clean" ELSE "rejected"} :
        scan' = [scan EXCEPT ![f].attempts = @ + 1, ![f].verdict = verdict]
  /\ UNCHANGED <<object, file, command, upload, form, download, used, log, view>>

\* The verdict is written and the message completed, in one transaction.
FinishScan(f) ==
  /\ scan[f].status = "pending" /\ scan[f].verdict # "none"
  /\ Len(log) < MaxLog
  /\ scan' = [scan EXCEPT ![f].status = "completed"]
  /\ file' = [file EXCEPT ![f].status = scan[f].verdict]
  /\ Logged("scan_file", f, "worker")
  /\ UNCHANGED <<object, command, upload, form, download, used, view>>

\* The last attempt failed, or its lease ran out: the file stays quarantined.
AbandonScan(f) ==
  /\ scan[f].status = "pending" /\ scan[f].attempts = MaxScans
  /\ scan' = [scan EXCEPT ![f].status = "dead"]
  /\ UNCHANGED <<object, file, command, upload, form, download, used, log, view>>

-----------------------------------------------------------------------------
(* GET /api/v1/files, and files as evidence of other commands *)

\* The row is read; another status is answered 423, another account 403.
OpenDownload(f, u) ==
  /\ CanRead(u, f) /\ EntityAllows(u)
  /\ file[f].status = "clean"
  /\ Len(download) < MaxDownloads
  /\ download' = Append(download, [file |-> f, by |-> u, at |-> "audit", content |-> NoBytes])
  /\ UNCHANGED <<server, upload, form, used, log, view>>

AuditFails(d) == download' = [download EXCEPT ![d].at = "failed"]

AuditDownload(d) ==
  /\ download[d].at = "audit"
  /\ \/ /\ Len(log) < MaxLog
        /\ Logged("download", download[d].file, download[d].by)
        /\ download' = [download EXCEPT ![d].at = "read"]
     \/ AuditFails(d) /\ UNCHANGED log
  /\ UNCHANGED <<server, upload, form, used, view>>

\* The object is read under the key of the row, whatever it holds by now.
ReadObject(d) ==
  /\ download[d].at = "read"
  /\ \/ /\ Stored(download[d].file) # NoBytes
        /\ download' = [download EXCEPT ![d].at = "served", ![d].content = Stored(download[d].file)]
     \/ download' = [download EXCEPT ![d].at = "failed"]
  /\ UNCHANGED <<server, upload, form, used, log, view>>

\* requireFile and requireCleanFile, in the transaction of a command.
UseAsEvidence(f, u) ==
  /\ f \notin used
  /\ file[f].status = "clean"
  /\ CanRead(u, f)
  /\ used' = used \cup {f}
  /\ UNCHANGED <<server, upload, form, download, log, view>>

-----------------------------------------------------------------------------
(* GET /api/v1/audit-logs *)

\* Mutant: pages are counted from zero by the reader and from one by the query.
OffsetOfNext(page) == page * PageSize

Offset(page) == (page - 1) * PageSize

\* ORDER BY created_at DESC, id DESC LIMIT PageSize OFFSET Offset(page)
PageOf(page) == {log[p] : p \in {p \in DOMAIN log : /\ p =< Len(log) - Offset(page)
                                                    /\ p > Len(log) - Offset(page) - PageSize}}

\* The first page, or the next one. Reading a page is audited too.
ViewPage(u) ==
  LET page == view.page + 1
  IN /\ "admin" \in RolesOf[u]
     /\ PageOf(page) # {}
     /\ Len(log) < MaxLog
     /\ view' = [page   |-> page,
                 before |-> IF page = 1 THEN {log[p] : p \in DOMAIN log} ELSE view.before,
                 seen   |-> view.seen \cup PageOf(page)]
     /\ Logged("view_audit_logs", 0, u)
     /\ UNCHANGED <<server, upload, form, download, used>>

FilesNext ==
  \/ \E k \in Keys, c \in Contents : Submit(k, c)
  \/ Resume
  \/ Learn
  \/ GiveUp
  \/ LearnVerdict
  \/ \E r \in DOMAIN upload : \/ Refuse(r) \/ PutObject(r)
                              \/ StoreFile(r) \/ ReplayUpload(r) \/ LoseUpload(r)
  \/ \E f \in DOMAIN file : ScanFile(f) \/ FinishScan(f) \/ AbandonScan(f)
  \/ \E f \in DOMAIN file, u \in Accounts : OpenDownload(f, u) \/ UseAsEvidence(f, u)
  \/ \E d \in DOMAIN download : AuditDownload(d) \/ ReadObject(d)
  \/ \E u \in Accounts : ViewPage(u)

FilesSpec == FilesInit /\ [][FilesNext]_filesVars

-----------------------------------------------------------------------------
(* Safety *)

\* Only bytes the scanner found clean are served or taken as evidence, though
\* a retried or altered upload writes objects before anybody compares its key
\* with earlier ones, and while scans, downloads and commands are under way.
HarmlessOnly ==
  /\ \A d \in DOMAIN download :
       download[d].at = "served" => download[d].content \in Harmless
  /\ \A f \in used : Stored(f) \in Harmless

\* Going through the log page by page shows, of the rows that were there at
\* the beginning, every one down to the oldest that is shown: what is written
\* meanwhile, also by looking at a page, may repeat rows and never hides any.
NoGaps ==
  LET At(row) == CHOOSE p \in DOMAIN log : log[p] = row
  IN \A row \in view.before : (\E s \in view.seen : At(s) =< At(row)) => row \in view.seen
=============================================================================
