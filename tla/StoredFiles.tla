----------------------------- MODULE StoredFiles -----------------------------
(***************************************************************************)
(* Files behind the storage interface: which are admitted, and how long    *)
(* one can be read.  The deployment stores them locally, for development,  *)
(* with the records in the memory of the router, or in MinIO, with the     *)
(* records in the database (Attachments has their concurrency; here each   *)
(* request is one step, which a crash may cut short).                      *)
(*                                                                         *)
(* One reader, whose access may be withdrawn, stands for all.              *)
(***************************************************************************)
EXTENDS Integers, Sequences

CONSTANTS
  Files,            \* [ext, mime, header, large, infected] of files that are sent
  LinkLife,         \* the longest life of a link, 300 s in the code
  MaxStored,        \* bound: objects
  MaxTime,          \* bound: the clock
  Absent

VARIABLES
  backend,          \* "local" or "minio"
  clock,
  objects,          \* by their key, in the order of put; Absent once deleted
  records,          \* keys that have a record
  links,            \* when the last link to each ends
  withdrawn,        \* when the reader lost access, or Absent
  lost              \* history: keys whose record a crash has lost

vars == <<backend, clock, objects, records, links, withdrawn, lost>>

Init ==
  /\ backend \in {"local", "minio"}
  /\ clock = 0
  /\ objects = <<>> /\ records = {} /\ links = <<>>
  /\ withdrawn = Absent
  /\ lost = {}

(* _MIME_BY_EXTENSION, for four extensions of which two share a format.    *)
MimesOf ==
  [pdf |-> {"pdf"}, xlsx |-> {"sheet", "zip"}, docx |-> {"document", "zip"}, xls |-> {"excel", "stream"}]

HeaderOf == [pdf |-> "pdf", xlsx |-> "zip", docx |-> "zip", xls |-> "ole"]

HasExpectedHeader(f) == f.header = HeaderOf[f.ext]

(* validate_file *)
Valid(f) ==
  /\ f.ext \in DOMAIN MimesOf /\ ~f.large
  /\ f.mime \in MimesOf[f.ext]
  /\ HasExpectedHeader(f)

(* The scanner of production is behind VirusScanner. *)
Clean(f) == ~f.infected

(* The development router looks at the size and the extension only.        *)
Admitted(f) ==
  IF backend = "minio" THEN Valid(f) /\ Clean(f) ELSE f.ext \in DOMAIN MimesOf /\ ~f.large

(* build_object_key: the key of an upload is its own. *)
NewKey == Len(objects) + 1

(* put; delete, which is content with an object that is gone. *)
PutObject(f) == Append(objects, f)
RemoveObject(key) == [objects EXCEPT ![key] = Absent]

(* The object is put; the record follows, unless the process dies.         *)
Put(f, dies) ==
  /\ Len(objects) < MaxStored
  /\ Admitted(f)
  /\ objects' = PutObject(f)
  /\ links' = Append(links, 0)
  /\ LET key == NewKey IN
     IF dies
     THEN /\ records' = IF backend = "local" THEN {} ELSE records
          /\ lost' = lost \cup {key} \cup (records \ records')
     ELSE /\ records' = records \cup {key}
          /\ UNCHANGED lost
  /\ UNCHANGED <<backend, clock, withdrawn>>

(* The records of the development router are gone with the process.        *)
Restart ==
  /\ backend = "local" /\ records # {}
  /\ lost' = lost \cup records
  /\ records' = {}
  /\ UNCHANGED <<backend, clock, objects, links, withdrawn>>

(* The object goes with the record.  When it cannot be removed, the record *)
(* of the database stays as failed.                                        *)
Delete(key, removed) ==
  /\ key \in records
  /\ backend = "local" => removed
  /\ objects' = IF removed THEN RemoveObject(key) ELSE objects
  /\ records' = IF removed THEN records \ {key} ELSE records
  /\ UNCHANGED <<backend, clock, links, withdrawn, lost>>

(* The development routes have no access control. *)
MayRead == backend = "local" \/ withdrawn = Absent

(* create_presigned_url refuses others. *)
LifeAllowed(seconds) == 1 <= seconds /\ seconds <= LinkLife

(* create_download_url: access is checked, then the link is made.          *)
Link(key, seconds) ==
  /\ key \in records
  /\ MayRead
  /\ LifeAllowed(seconds)
  /\ links' = [links EXCEPT ![key] = IF clock + seconds > @ THEN clock + seconds ELSE @]
  /\ UNCHANGED <<backend, clock, objects, records, withdrawn, lost>>

(* The reader loses the role, or the document another applicant.           *)
Withdraw ==
  /\ withdrawn = Absent
  /\ withdrawn' = clock
  /\ UNCHANGED <<backend, clock, objects, records, links, lost>>

Tick ==
  /\ clock < MaxTime
  /\ clock' = clock + 1
  /\ UNCHANGED <<backend, objects, records, links, withdrawn, lost>>

Next ==
  \/ \E f \in Files, dies \in BOOLEAN : Put(f, dies)
  \/ Restart
  \/ \E key \in DOMAIN objects, removed \in BOOLEAN : Delete(key, removed)
  \/ \E key \in DOMAIN objects, seconds \in 0..LinkLife + 1 : Link(key, seconds)
  \/ Withdraw \/ Tick

Spec == Init /\ [][Next]_vars

(* MinIO serves a link without asking anybody; the local address has no    *)
(* route.                                                                  *)
Readable(key) == backend = "minio" /\ clock < links[key] /\ objects[key] # Absent

(***************************************************************************)
(* Properties.                                                             *)
(***************************************************************************)
TypeOK ==
  /\ backend \in {"local", "minio"} /\ clock \in 0..MaxTime
  /\ \A key \in DOMAIN objects : objects[key] \in Files \cup {Absent}
  /\ Len(links) = Len(objects) /\ Len(objects) <= MaxStored
  /\ records \subseteq DOMAIN objects /\ lost \subseteq DOMAIN objects
  /\ withdrawn \in 0..MaxTime \cup {Absent}

(* What can be read through a link is a clean file of the format that its  *)
(* name says, and by somebody who had access less than the life of a link  *)
(* ago.                                                                    *)
ReadableIsFit ==
  \A key \in DOMAIN objects : Readable(key) =>
    /\ objects[key].header = HeaderOf[objects[key].ext] /\ ~objects[key].infected
    /\ withdrawn # Absent => clock - withdrawn < LinkLife

(* Every record has its object; objects that have no record are those of a *)
(* process that died.                                                      *)
RecordsAndObjects ==
  \A key \in DOMAIN objects :
    /\ key \in records => objects[key] # Absent
    /\ objects[key] # Absent /\ key \notin records => key \in lost
=============================================================================
