-------------------------------- MODULE Files --------------------------------
(***************************************************************************)
(* Uploads, downloads and deletions of internal/files: the object store    *)
(* and the files table are two stores, written one after the other without *)
(* a common transaction, and the storage quota of internal/billing counts  *)
(* the table before either is written.                                     *)
(*                                                                         *)
(* Both stores may fail at any call, also after having done what they were *)
(* asked to do, and a request may stop anywhere.                           *)
(***************************************************************************)
EXTENDS Naturals, FiniteSetsExt

CONSTANTS
    Proc,     \* requests that may run at the same time
    File,     \* file ids; uuid.New never gives the same twice
    SizeOf,   \* [File -> size in bytes]
    Limit,    \* max_storage_mb of the plan, in bytes
    Retried,  \* files whose deletion, once asked for, is asked for till done
    None

ASSUME FilesAssumption ==
    /\ IsFiniteSet(Proc) /\ Proc # {} /\ IsFiniteSet(File) /\ File # {}
    /\ SizeOf \in [File -> Nat \ {0}]
    /\ Limit \in Nat
    /\ Retried \subseteq File
    /\ None \notin File

VARIABLES
    row,       \* [File -> "never", "present" or "gone" from the files table]
    object,    \* files whose content is in the store, whole
    promised,  \* uploads that were answered with the file
    asked,     \* files a request to delete has found
    req        \* the requests in progress

vars == <<row, object, promised, asked, req>>

Request == [op : {"none", "upload", "delete", "open"},
            pc : {"idle", "project", "quota", "put", "rename", "record", "undo",
                  "remove", "forget", "open"},
            file : File \cup {None}]

NoRequest == [op |-> "none", pc |-> "idle", file |-> None]

TypeOK ==
    /\ row \in [File -> {"never", "present", "gone"}]
    /\ object \in SUBSET File
    /\ promised \in SUBSET File
    /\ asked \in SUBSET File
    /\ req \in [Proc -> Request]
    /\ \A f \in promised \cup asked : row[f] # "never"

-----------------------------------------------------------------------------
\* Helpers

At(p, l) == req[p].pc = l
Goto(p, l) == req' = [req EXCEPT ![p].pc = l]
Answer(p) == req' = [req EXCEPT ![p] = NoRequest]
Begin(p, op, l, f) ==
    At(p, "idle") /\ req' = [req EXCEPT ![p] = [op |-> op, pc |-> l, file |-> f]]

Listed(f) == row[f] = "present"
InUse(f) == \E p \in Proc : req[p].file = f
Fresh(f) == row[f] = "never" /\ f \notin object /\ ~InUse(f)

Bytes(files) == MapThenSumSet(LAMBDA f : SizeOf[f], files)

\* COALESCE(sum(size_bytes), 0) over the files table: an object without a row
\* takes space nobody counts.
StorageBytes == Bytes({f \in File : Listed(f)})

-----------------------------------------------------------------------------
\* Upload

\* With a project to attach the file to, or without.
Upload(p, f) ==
    /\ Fresh(f)
    /\ \E l \in {"project", "quota"} : Begin(p, "upload", l, f)
    /\ UNCHANGED <<row, object, promised, asked>>

\* Projects belong to Workspace: either answer is possible.
ProjectExists(p) ==
    /\ At(p, "project")
    /\ Goto(p, "quota") \/ Answer(p)
    /\ UNCHANGED <<row, object, promised, asked>>

\* The addition is on the side that cannot overflow.
Exceeds(bytes, size) == size > Limit \/ bytes > Limit - size

\* Fault: the size of the new file is not counted.
CheckStorageQuotaLoose(p) ==
    /\ At(p, "quota")
    /\ IF StorageBytes > Limit THEN Answer(p) ELSE Goto(p, "put")
    /\ UNCHANGED <<row, object, promised, asked>>

CheckStorageQuota(p) ==
    /\ At(p, "quota")
    /\ IF Exceeds(StorageBytes, SizeOf[req[p].file]) THEN Answer(p) ELSE Goto(p, "put")
    /\ UNCHANGED <<row, object, promised, asked>>

\* LocalStore writes under a temporary name, which nobody reads ...
PutTemporary(p) ==
    /\ At(p, "put")
    /\ Goto(p, "rename")
    /\ UNCHANGED <<row, object, promised, asked>>

\* Fault: a rename that fails is taken for done.
RenameUnchecked(p) ==
    /\ At(p, "rename")
    /\ object' \in {object, object \cup {req[p].file}}
    /\ Goto(p, "record")
    /\ UNCHANGED <<row, promised, asked>>

\* ... and renames what is complete and synced.
Rename(p) ==
    /\ At(p, "rename")
    /\ object' = object \cup {req[p].file}
    /\ Goto(p, "record")
    /\ UNCHANGED <<row, promised, asked>>

\* S3Store writes at once.
PutObject(p) ==
    /\ At(p, "put")
    /\ object' = object \cup {req[p].file}
    /\ Goto(p, "record")
    /\ UNCHANGED <<row, promised, asked>>

\* The temporary file is removed, or S3 has answered with an error, which it
\* may do for an object it has stored; nothing is removed from there.
PutFails(p) ==
    /\ At(p, "put") \/ At(p, "rename")
    /\ \/ UNCHANGED object
       \/ At(p, "put") /\ object' = object \cup {req[p].file}
    /\ Answer(p)
    /\ UNCHANGED <<row, promised, asked>>

CreateRow(p) ==
    /\ At(p, "record")
    /\ row' = [row EXCEPT ![req[p].file] = "present"]
    /\ promised' = promised \cup {req[p].file}
    /\ Answer(p)
    /\ UNCHANGED <<object, asked>>

\* The transaction fails; its commit may have been done all the same.
CreateRowFails(p) ==
    /\ At(p, "record")
    /\ \/ UNCHANGED row
       \/ row' = [row EXCEPT ![req[p].file] = "present"]
    /\ Goto(p, "undo")
    /\ UNCHANGED <<object, promised, asked>>

\* The object is removed if that works; its error is dropped.
UndoPut(p) ==
    /\ At(p, "undo")
    /\ object' \in {object, object \ {req[p].file}}
    /\ Answer(p)
    /\ UNCHANGED <<row, promised, asked>>

-----------------------------------------------------------------------------
\* Download

Open(p, f) ==
    /\ Listed(f)
    /\ Begin(p, "open", "open", f)
    /\ UNCHANGED <<row, object, promised, asked>>

\* Either the content or, when the store has none, "file content not found".
OpenObject(p) ==
    /\ At(p, "open")
    /\ Answer(p)
    /\ UNCHANGED <<row, object, promised, asked>>

-----------------------------------------------------------------------------
\* Deletion

Delete(p, f) ==
    /\ Listed(f)
    /\ Begin(p, "delete", "remove", f)
    /\ asked' = asked \cup {f}
    /\ UNCHANGED <<row, object, promised>>

\* Fault: an object that is not there is an error.
RemoveObjectOnce(p) ==
    /\ At(p, "remove")
    /\ req[p].file \in object
    /\ object' = object \ {req[p].file}
    /\ Goto(p, "forget")
    /\ UNCHANGED <<row, promised, asked>>

\* Fault: the row is deleted even so.
RemoveObjectFailsQuietly(p) ==
    /\ At(p, "remove")
    /\ object' \in {object, object \ {req[p].file}}
    /\ Goto(p, "forget")
    /\ UNCHANGED <<row, promised, asked>>

\* Removing an object that is not there succeeds.
RemoveObject(p) ==
    /\ At(p, "remove")
    /\ object' = object \ {req[p].file}
    /\ Goto(p, "forget")
    /\ UNCHANGED <<row, promised, asked>>

RemoveObjectFails(p) ==
    /\ At(p, "remove")
    /\ object' \in {object, object \ {req[p].file}}
    /\ Answer(p)
    /\ UNCHANGED <<row, promised, asked>>

\* A row that another request has deleted is an error to this one.
DeleteRow(p) ==
    /\ At(p, "forget")
    /\ row' = [row EXCEPT ![req[p].file] = "gone"]
    /\ Answer(p)
    /\ UNCHANGED <<object, promised, asked>>

-----------------------------------------------------------------------------
\* Specification

\* The request stops: a failed read, a lost client, a crash of the server.
Stop(p) ==
    /\ ~At(p, "idle")
    /\ Answer(p)
    /\ UNCHANGED <<row, object, promised, asked>>

Init ==
    /\ row = [f \in File |-> "never"]
    /\ object = {}
    /\ promised = {}
    /\ asked = {}
    /\ req = [p \in Proc |-> NoRequest]

StepUpload(p) ==
    \/ ProjectExists(p)
    \/ CheckStorageQuota(p)
    \/ PutTemporary(p)
    \/ Rename(p)
    \/ PutObject(p)
    \/ PutFails(p)
    \/ CreateRow(p)
    \/ CreateRowFails(p)
    \/ UndoPut(p)

StepDelete(p) ==
    \/ RemoveObject(p)
    \/ RemoveObjectFails(p)
    \/ DeleteRow(p)

Step(p) == StepUpload(p) \/ OpenObject(p) \/ StepDelete(p)

Next ==
    \/ \E p \in Proc, f \in File : Upload(p, f) \/ Open(p, f) \/ Delete(p, f)
    \/ \E p \in Proc : Step(p) \/ Stop(p)

Spec == Init /\ [][Next]_vars

\* A request ends; a client asks again for the deletion of a file in Retried
\* until it is gone; no store fails every time it is tried.
Fairness ==
    /\ \A p \in Proc : WF_vars(Step(p) \/ Stop(p))
    /\ \A f \in Retried :
        /\ SF_vars(\E p \in Proc : f \in asked /\ Delete(p, f))
        /\ SF_vars(\E p \in Proc : req[p].file = f /\ RemoveObject(p))
        /\ SF_vars(\E p \in Proc : req[p].file = f /\ DeleteRow(p))

FairSpec == Spec /\ Fairness

-----------------------------------------------------------------------------
\* Properties

\* What can be downloaded.
Downloadable(f) == Listed(f) /\ f \in object

ShelfOf(f) == CASE row[f] = "never" -> "never"
                [] Downloadable(f) -> "kept"
                [] OTHER -> "gone"

\* The two stores together keep the promises of Shelf, whatever fails between
\* them: content first and row second when a file comes, content first and row
\* second when it goes, and a failed upload undone after the fact.
Kept == INSTANCE Shelf WITH shelf <- [f \in File |-> ShelfOf(f)]
ImplementsShelf == Kept!Spec

\* A file that is no longer listed has left nothing in the store, where nothing
\* would find it again: Delete keeps the row until the content is gone.
NothingLeftBehind == \A f \in object : row[f] # "gone"

Passed == {p \in Proc : req[p].pc \in {"put", "rename", "record"}}
InFlight == Bytes({req[p].file : p \in Passed})
MaxSize == Max({SizeOf[f] : f \in File})

\* How far overlapping uploads exceed the plan: by no more than the largest
\* upload for every other request that runs, so one upload at a time never does.
OverageBounded ==
    StorageBytes + InFlight <= Limit + (Cardinality(Proc) - 1) * MaxSize

\* A deletion that was interrupted between the two stores can be finished by
\* asking again: Delete of an object that is gone already goes on to the row.
DeletionFinishes == \A f \in Retried : f \in asked ~> row[f] = "gone"
=============================================================================
