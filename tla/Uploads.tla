------------------------------ MODULE Uploads ------------------------------
(***************************************************************************)
(* A row that owns one uploaded file, and the files on the disk.  The disk *)
(* is in no transaction: what keeps the two together is the order in which *)
(* a handler saves the new file, writes the row and deletes the old file.  *)
(* Two orders are in use:                                                  *)
(*   "late"   the old file goes after the write (UserService.updateProfile,*)
(*            DeliveryManService.createDeliveryMan, updateDeliveryMan);    *)
(*   "early"  the old file goes before it (HomeService, BlogService,       *)
(*            CategoryService.updateCategory).                             *)
(* The row's write is one statement as far as this column goes, so it is   *)
(* one step.  A request that fails runs its catch block; one whose server  *)
(* dies does not.                                                          *)
(***************************************************************************)
EXTENDS Requests

CONSTANTS
    File,     \* the names saveFile draws, no name twice
    NoFile    \* the row has no image

VARIABLES
    style,    \* the order the row's service uses
    life,     \* the row: "none", "live" or "gone"
    image,    \* its image column
    disk,     \* the files there are
    drawn,    \* history: the files there ever were
    doubted   \* history: files of rows whose insert was taken for failed

uploadVars == <<style, life, image, disk, drawn, doubted, request, alone>>

UploadsInit ==
    /\ style \in {"late", "early"}
    /\ life = "none" /\ image = NoFile
    /\ disk = {} /\ drawn = {} /\ doubted = {}
    /\ request = [t \in Tx |-> Idle]
    /\ alone = [t \in Tx |-> FALSE]

Orphans == disk \ (IF life = "live" THEN {image} ELSE {})

-----------------------------------------------------------------------------
(* Requests.  old: the image the request read, new: the file it saved.     *)
(* before: the orphans there were when it began.                           *)

Asked(op, stage, old) ==
    [op |-> op, stage |-> stage, old |-> old, new |-> NoFile, before |-> Orphans]

Begin(t, r) == Starts(t, r) /\ UNCHANGED <<style, life, image, disk, drawn, doubted>>

BeginCreate(t) == life = "none" /\ Begin(t, Asked("create", "upload", NoFile))

BeginReplace(t) == life = "live" /\ Begin(t, Asked("update", "upload", image))

\* Mutant: the file goes before the write whatever the service.
AlwaysEarly(old) == IF old # NoFile THEN "unlink" ELSE "write"

\* Where a request that has its file goes first, and where it goes from there.
AfterUpload(old) == IF old # NoFile /\ style = "early" THEN "unlink" ELSE "write"

\* Only of an image there is; the image of a home slide is never removed.
BeginRemoveImage(t) ==
    /\ life = "live" /\ image # NoFile
    /\ Begin(t, Asked("update", AfterUpload(image), image))

\* Users are deactivated, their rows stay.
BeginDelete(t) == life = "live" /\ style = "early" /\ Begin(t, Asked("delete", "write", image))

\* LocalStorageService.saveFile
Upload(t) ==
    LET r == request[t] IN
    /\ r.stage = "upload"
    /\ \E f \in File \ drawn :
          /\ disk' = disk \cup {f} /\ drawn' = drawn \cup {f}
          /\ Continues(t, [r EXCEPT !.new = f, !.stage = AfterUpload(r.old)])
    /\ UNCHANGED <<style, life, image, doubted>>

\* Mutant: a replaced file stays on the disk.
OwesAnUnlinkOnDelete(r) == r.old # NoFile /\ r.op = "delete"

\* The old file is still to be deleted once the row is written.
OwesAnUnlink(r) == r.old # NoFile /\ (style = "late" \/ r.op = "delete")

Write(t) ==
    LET r == request[t] IN
    /\ r.stage = "write"
    /\ life = (IF r.op = "create" THEN "none" ELSE "live")
    /\ life' = (IF r.op = "delete" THEN "gone" ELSE "live")
    /\ image' = r.new
    /\ IF OwesAnUnlink(r) THEN Continues(t, [r EXCEPT !.stage = "unlink"]) ELSE Ends(t)
    /\ UNCHANGED <<style, disk, drawn, doubted>>

\* LocalStorageService.deleteFile, whose failure is logged and forgotten.
Unlink(t) ==
    LET r == request[t] IN
    /\ r.stage = "unlink"
    /\ disk' = disk \ {r.old}
    /\ IF style = "early" /\ r.op = "update" THEN Continues(t, [r EXCEPT !.stage = "write"])
                                             ELSE Ends(t)
    /\ UNCHANGED <<style, life, image, drawn, doubted>>

\* The write fails (a constraint, the row is gone, the database is): a create
\* deletes the file it saved, an update leaves it.
Refused(t) ==
    LET r == request[t] IN
    /\ r.stage = "write"
    /\ IF r.op = "create" THEN Continues(t, [r EXCEPT !.stage = "clean"]) ELSE Ends(t)
    /\ UNCHANGED <<style, life, image, disk, drawn, doubted>>

\* The insert stands and the handler takes it for failed: the answer to COMMIT
\* is lost, or, of a delivery man, the read-back inside the same try fails.
Doubted(t) ==
    LET r == request[t] IN
    /\ r.stage = "write" /\ r.op = "create" /\ life = "none"
    /\ life' = "live" /\ image' = r.new
    /\ doubted' = doubted \cup {r.new}
    /\ Continues(t, [r EXCEPT !.stage = "clean"])
    /\ UNCHANGED <<style, disk, drawn>>

Cleaned(r) == disk \ {r.new}

Clean(t) ==
    /\ request[t].stage = "clean"
    /\ disk' = Cleaned(request[t])
    /\ Ends(t)
    /\ UNCHANGED <<style, life, image, drawn, doubted>>

\* The server dies, or a file operation fails for good.
Crash(t) ==
    /\ request[t] # Idle
    /\ Ends(t)
    /\ UNCHANGED <<style, life, image, disk, drawn, doubted>>

Ask(t) == BeginCreate(t) \/ BeginReplace(t) \/ BeginRemoveImage(t) \/ BeginDelete(t)

Serve(t) ==
    \/ Upload(t) \/ Write(t) \/ Unlink(t)
    \/ Refused(t) \/ Doubted(t) \/ Clean(t) \/ Crash(t)

UploadsNext == \E t \in Tx : Ask(t) \/ Serve(t)

UploadsSpec == UploadsInit /\ [][UploadsNext]_uploadVars

-----------------------------------------------------------------------------
\* A row shows a file that is not there only if its insert was taken for failed
\* or its service deletes the old file early: an owner that deletes late never
\* does, however requests overlap and wherever the server dies ("a failed
\* upload never leaves a dangling avatarUrl").
LateNeverDangles ==
    life = "live" /\ image # NoFile /\ style = "late" => image \in disk \cup doubted

\* A request that runs to its end (a refused create to the end of its catch
\* block) with nobody overlapping leaves no file behind that no row shows.
LoneLeavesNoOrphan == [][\A t \in Tx :
    alone[t] /\ (Clean(t) \/ Unlink(t) \/ Write(t)) /\ request'[t] = Idle =>
        Orphans' \subseteq request[t].before]_uploadVars
=============================================================================
