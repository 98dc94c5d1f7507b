---------------------------- MODULE SessionFiles ----------------------------
(***************************************************************************)
(* The files of one session under the TFTP root: uploads, the preset DTB,  *)
(* deletions, listings and downloads, and the release that removes them.   *)
(* No handler locks anything: each is a few calls of the file system, and  *)
(* those of several requests take turns.  A file lies in a directory of    *)
(* the session, made for the first file and removed with the last.         *)
(* Files of other directories, which a listing may find gone as it may a   *)
(* file, with the same error, are left out.                                *)
(***************************************************************************)
EXTENDS Naturals, FiniteSets

CONSTANTS
  Callers,  \* requests, one at a time each
  Files,    \* relative paths, all in one directory below the directory of the session
  Contents, \* what is uploaded
  Length,   \* of a content, in blocks
  Preset,   \* the content of the preset DTB
  PresetAt, \* session_dtb_file_path of it
  NoFile, Mixed,
  MaxCalls  \* bound: requests

ASSUME SessionFilesAssumption ==
  /\ IsFiniteSet(Files) /\ PresetAt \in Files /\ Preset \in Contents
  /\ {NoFile, Mixed} \cap (Contents \cup {"empty"}) = {} /\ NoFile # Mixed
  /\ Length \in [Contents -> Nat \ {0}] /\ MaxCalls \in Nat

\* A file that was opened is empty; what two writers leave that were at it together may be of both.
Data == Contents \cup {"empty", Mixed}
Blocks(data) == IF data \in Contents THEN Length[data] ELSE IF data = "empty" THEN 0 ELSE 1

VARIABLES
  session,  \* "active", "releasing", "gone"
  release,  \* the step of remove_session_dir
  dirs,     \* directories that exist: "session", "sub"
  file,     \* what is on the disk
  call,     \* of a caller
  promise,  \* history: an upload was answered and nobody has touched the file since, else NoFile
  broken,   \* history: a download or a listing was not true to the promises
  overtaken,     \* history: an upload made its directory after the release had begun
  calls

fileVars == <<session, release, dirs, file, call, promise, broken, overtaken, calls>>
disk == <<dirs, file>>
fileHistory == <<promise, broken, overtaken>>

Call(does, at, path, data, alone, sure) ==
  [does |-> does, at |-> at, path |-> path, data |-> data, linked |-> FALSE, alone |-> alone, sure |-> sure, size |-> 0,
   rest |-> {}]
NoCall == Call("nothing", "idle", PresetAt, "empty", FALSE, {})

FilesInit ==
  /\ session = "active" /\ release = "none" /\ dirs = {} /\ file = [p \in Files |-> NoFile]
  /\ call = [c \in Callers |-> NoCall] /\ promise = [p \in Files |-> NoFile]
  /\ broken = FALSE /\ overtaken = FALSE /\ calls = 0

Present == {p \in Files : file[p] # NoFile}
Promised == {p \in Files : promise[p] # NoFile}
GoTo(c, at) == call' = [call EXCEPT ![c].at = at]
Done(c) == call' = [call EXCEPT ![c] = NoCall]

Writers(p) == {c \in Callers : call[c].does \in {"put", "preset", "delete"} /\ call[c].path = p}

-----------------------------------------------------------------------------
(***************************************************************************)
(* Requests                                                                *)
(***************************************************************************)
New == calls < MaxCalls /\ calls' = calls + 1

\* A request that writes, or reads what others share, asks for a session that is neither stopped nor releasing.
Active == session = "active"

\* Whoever is about to write a file takes its promise back, and is alone with it if nobody else is at it.
BeginWrite(c, does, at, p, data) ==
  /\ call[c].at = "idle" /\ New
  /\ LET others == Writers(p)
     IN call' = [d \in Callers |->
                   IF d = c THEN Call(does, at, p, data, others = {}, {})
                   ELSE IF d \in others THEN [call[d] EXCEPT !.alone = FALSE]
                   ELSE [call[d] EXCEPT !.sure = @ \ {p}]]
  /\ promise' = [promise EXCEPT ![p] = NoFile]
  /\ UNCHANGED <<session, release, disk, broken, overtaken>>

\* put_session_file, put_http_boot_file: the session is looked at, then the body is read, for as long as it takes.
PutFile(c, p, data) == Active /\ BeginWrite(c, "put", "mkdir", p, data)

\* delete_session_file
DeleteFile(c, p) == Active /\ BeginWrite(c, "delete", "look", p, "empty")

\* ensure_session_preset_dtb_file looks for the preset DTB on the disk and takes what it finds.
PresetIsMissing == file[PresetAt] = NoFile

\* get_session_dtb puts the preset DTB where it is missing; it asks for a session, not for one that is active.
GetDtb(c) ==
  /\ session # "gone" /\ PresetIsMissing
  /\ BeginWrite(c, "preset", "mkdir", PresetAt, Preset)

BeginRead(c, does, paths) ==
  /\ call[c].at = "idle" /\ New
  /\ call' = [call EXCEPT ![c] = Call(does, IF does = "list" THEN "top" ELSE "size", CHOOSE p \in paths : TRUE,
                                      "empty", FALSE, paths \cap Promised)]
  /\ UNCHANGED <<session, release, disk, fileHistory>>

\* list_session_files; get_http_boot_file and get_shared_session_file, of the whole file or of its last block
ListFiles(c) == session # "gone" /\ BeginRead(c, "list", Files)
Download(c, p) == Active /\ \E does \in {"all", "tail"} : BeginRead(c, does, {p})

-----------------------------------------------------------------------------
(***************************************************************************)
(* put_session_file of tftp/files.rs                                       *)
(***************************************************************************)
\* create_dir_all
MakesDirs(c) ==
  /\ call[c].at = "mkdir"
  /\ dirs' = {"session", "sub"} /\ GoTo(c, "create")
  /\ overtaken' = (overtaken \/ session # "active")
  /\ UNCHANGED <<session, release, file, promise, broken, calls>>

\* fs::write opens and truncates; another upload of the file that is at it has the same file.
CreatesFile(c) ==
  /\ call[c].at = "create" /\ "sub" \in dirs
  /\ file' = [file EXCEPT ![call[c].path] = "empty"]
  /\ call' = [call EXCEPT ![c].at = "write", ![c].linked = TRUE]
  /\ UNCHANGED <<session, release, dirs, fileHistory, calls>>

\* The directory went in between.
CreateFails(c) ==
  /\ call[c].at = "create" /\ "sub" \notin dirs
  /\ Done(c) /\ UNCHANGED <<session, release, disk, fileHistory, calls>>

\* A file that was deleted meanwhile takes the data with it, and the upload is answered all the same.
Put(old, data) == IF old \in {"empty", data} THEN data ELSE Mixed
WritesFile(c) ==
  LET p == call[c].path IN
  /\ call[c].at = "write"
  /\ IF call[c].linked THEN file' = [file EXCEPT ![p] = Put(file[p], call[c].data)] ELSE UNCHANGED file
  /\ promise' = IF call[c].alone /\ session = "active" THEN [promise EXCEPT ![p] = call[c].data] ELSE promise
  /\ Done(c) /\ UNCHANGED <<session, release, dirs, broken, overtaken, calls>>

-----------------------------------------------------------------------------
(***************************************************************************)
(* remove_session_file and cleanup_empty_parent_dirs                       *)
(***************************************************************************)
\* Who has a file open that is removed writes into nothing.
Unlinked(paths, calling) ==
  [c \in Callers |-> IF calling[c].path \in paths THEN [calling[c] EXCEPT !.linked = FALSE] ELSE calling[c]]

FindsNoFile(c) ==
  /\ call[c].at = "look" /\ file[call[c].path] = NoFile
  /\ Done(c) /\ UNCHANGED <<session, release, disk, fileHistory, calls>>

FindsFile(c) ==
  /\ call[c].at = "look" /\ file[call[c].path] # NoFile
  /\ GoTo(c, "remove") /\ UNCHANGED <<session, release, disk, fileHistory, calls>>

RemovesFile(c) ==
  LET p == call[c].path IN
  /\ call[c].at = "remove" /\ file[p] # NoFile
  /\ file' = [file EXCEPT ![p] = NoFile]
  /\ call' = Unlinked({p}, [call EXCEPT ![c].at = "count"])
  /\ UNCHANGED <<session, release, dirs, fileHistory, calls>>

\* Another deletion was faster.
RemoveFails(c) ==
  /\ call[c].at = "remove" /\ file[call[c].path] = NoFile
  /\ Done(c) /\ UNCHANGED <<session, release, disk, fileHistory, calls>>

\* read_dir, which fails when the directory is gone: the deletion is answered with an error or is done.
LooksIntoDir(c) ==
  /\ call[c].at = "count"
  /\ IF "sub" \in dirs /\ Present = {} THEN GoTo(c, "rmdir") ELSE Done(c)
  /\ UNCHANGED <<session, release, disk, fileHistory, calls>>

\* Mutant: the directory that was empty is removed with what is in it by now.
Mutant_RemovesAll(c) ==
  /\ call[c].at = "rmdir"
  /\ dirs' = dirs \ {"sub"} /\ file' = [p \in Files |-> NoFile]
  /\ call' = Unlinked(Files, [call EXCEPT ![c] = NoCall])
  /\ UNCHANGED <<session, release, fileHistory, calls>>

\* remove_dir refuses a directory that is not empty any more.
RemovesDir(c) ==
  /\ call[c].at = "rmdir"
  /\ dirs' = IF Present = {} THEN dirs \ {"sub"} ELSE dirs
  /\ Done(c) /\ UNCHANGED <<session, release, file, fileHistory, calls>>

-----------------------------------------------------------------------------
(***************************************************************************)
(* Downloads and listings                                                  *)
(***************************************************************************)
\* get_session_file and fs::metadata
SizesFile(c) ==
  LET p == call[c].path IN
  /\ call[c].at = "size"
  /\ IF file[p] = NoFile
     THEN broken' = (broken \/ p \in call[c].sure) /\ Done(c)
     ELSE /\ call' = [call EXCEPT ![c].at = "read", ![c].size = Blocks(file[p])]
          /\ UNCHANGED broken
  /\ UNCHANGED <<session, release, disk, promise, overtaken, calls>>

\* fs::read, or read_exact up to the end the file had: a file that is shorter by now is an error.
ReadsFile(c) ==
  LET p == call[c].path
      got == IF file[p] = NoFile \/ (call[c].does = "tail" /\ Blocks(file[p]) < call[c].size) THEN NoFile ELSE file[p]
  IN
  /\ call[c].at = "read"
  /\ broken' = (broken \/ (p \in call[c].sure /\ got # promise[p]))
  /\ Done(c) /\ UNCHANGED <<session, release, disk, promise, overtaken, calls>>

\* read_dir of the directory of the session: one that is not there yet, or any more, is listed as empty.
ListsTop(c) ==
  /\ call[c].at = "top"
  /\ IF "sub" \in dirs THEN GoTo(c, "sub") /\ UNCHANGED broken
     ELSE Done(c) /\ broken' = (broken \/ call[c].sure # {})
  /\ UNCHANGED <<session, release, disk, promise, overtaken, calls>>

\* read_dir of the one below, which may be gone: an error.
ListsSub(c) ==
  /\ call[c].at = "sub"
  /\ IF "sub" \in dirs
     THEN call' = [call EXCEPT ![c].at = "entry", ![c].rest = Present] /\ UNCHANGED broken
     ELSE Done(c) /\ broken' = (broken \/ call[c].sure # {})
  /\ UNCHANGED <<session, release, disk, promise, overtaken, calls>>

\* An entry that is no file any more is left out.
SeesEntry(c, p) ==
  /\ call[c].at = "entry" /\ p \in call[c].rest
  /\ call' = IF file[p] = NoFile THEN [call EXCEPT ![c].rest = @ \ {p}]
             ELSE [call EXCEPT ![c].at = "stat", ![c].path = p]
  /\ UNCHANGED <<session, release, disk, fileHistory, calls>>

\* fs::metadata of file_ref_from_disk; what has been shown is nothing the listing still has to show.
ListsEntry(c) ==
  LET p == call[c].path IN
  /\ call[c].at = "stat" /\ file[p] # NoFile
  /\ call' = [call EXCEPT ![c].at = "entry", ![c].rest = @ \ {p}, ![c].sure = @ \ {p}]
  /\ UNCHANGED <<session, release, disk, fileHistory, calls>>

\* A file that goes between the two looks at it ends the whole listing with an error, for the files that are there as
\* well.  It is that file which somebody has deleted, so it was not promised.
ListingFails(c) ==
  /\ call[c].at = "stat" /\ file[call[c].path] = NoFile
  /\ broken' = (broken \/ call[c].path \in call[c].sure)
  /\ Done(c) /\ UNCHANGED <<session, release, disk, promise, overtaken, calls>>

ListingEnds(c) ==
  /\ call[c].at = "entry" /\ call[c].rest = {}
  /\ broken' = (broken \/ call[c].sure # {})
  /\ Done(c) /\ UNCHANGED <<session, release, disk, promise, overtaken, calls>>

-----------------------------------------------------------------------------
(***************************************************************************)
(* The release: remove_session_dir, again until it succeeds                *)
(***************************************************************************)
BeginsRelease ==
  /\ session = "active" /\ session' = "releasing" /\ release' = "files"
  /\ promise' = [p \in Files |-> NoFile] /\ call' = [c \in Callers |-> [call[c] EXCEPT !.sure = {}]]
  /\ UNCHANGED <<disk, broken, overtaken, calls>>

\* remove_dir_all empties the directory, then removes it: either may meet what an upload has put there meanwhile.
RemovesAllFiles ==
  /\ release = "files" /\ release' = "sub"
  /\ file' = [p \in Files |-> NoFile] /\ call' = Unlinked(Files, call)
  /\ UNCHANGED <<session, dirs, fileHistory, calls>>

RemovesSub ==
  /\ release = "sub"
  /\ IF Present = {} THEN dirs' = dirs \ {"sub"} /\ release' = "session" ELSE UNCHANGED dirs /\ release' = "files"
  /\ UNCHANGED <<session, file, call, fileHistory, calls>>

\* With the directory gone the board is free and the session forgotten.
RemovesSessionDir ==
  /\ release = "session"
  /\ IF "sub" \notin dirs THEN dirs' = {} /\ release' = "none" /\ session' = "gone"
     ELSE UNCHANGED <<dirs, session>> /\ release' = "files"
  /\ UNCHANGED <<file, call, fileHistory, calls>>

FilesNext ==
  \/ \E c \in Callers :
       \/ \E p \in Files : DeleteFile(c, p) \/ Download(c, p) \/ \E data \in Contents : PutFile(c, p, data)
       \/ GetDtb(c) \/ ListFiles(c)
       \/ MakesDirs(c) \/ CreatesFile(c) \/ CreateFails(c) \/ WritesFile(c)
       \/ FindsNoFile(c) \/ FindsFile(c) \/ RemovesFile(c) \/ RemoveFails(c) \/ LooksIntoDir(c) \/ RemovesDir(c)
       \/ SizesFile(c) \/ ReadsFile(c) \/ ListsTop(c) \/ ListsSub(c)
       \/ (\E p \in Files : SeesEntry(c, p)) \/ ListsEntry(c) \/ ListingFails(c) \/ ListingEnds(c)
  \/ BeginsRelease \/ RemovesAllFiles \/ RemovesSub \/ RemovesSessionDir

FilesSpec == FilesInit /\ [][FilesNext]_fileVars

-----------------------------------------------------------------------------
FilesTypeOK ==
  /\ session \in {"active", "releasing", "gone"} /\ release \in {"none", "files", "sub", "session"}
  /\ dirs \in {{}, {"session"}, {"session", "sub"}} /\ file \in [Files -> Data \cup {NoFile}]
  /\ call \in [Callers -> [does : {"nothing", "put", "preset", "delete", "list", "all", "tail"},
                           at : {"idle", "mkdir", "create", "write", "look", "remove", "count", "rmdir",
                                 "size", "read", "top", "sub", "entry", "stat"},
                           path : Files, data : Contents \cup {"empty"}, linked : BOOLEAN, alone : BOOLEAN,
                           sure : SUBSET Files, size : Nat, rest : SUBSET Files]]
  /\ promise \in [Files -> Contents \cup {NoFile}] /\ broken \in BOOLEAN /\ overtaken \in BOOLEAN /\ calls \in 0..MaxCalls

\* What was uploaded and answered stays as it was until somebody writes or deletes that very file.
FilesAreKept == \A p \in Promised : file[p] = promise[p]

\* A download of such a file gives it, a listing that is answered has every such file, and neither fails over one.
\* A listing may fail over another file that somebody deletes while it looks.
ReadersSeeThem == ~broken

\* A file has its directory.
FilesHaveDirs == Present # {} => dirs = {"session", "sub"}

\* A released session leaves nothing behind, unless an upload that was let in before went on after.
ReleaseLeavesNothing == session = "gone" /\ ~overtaken => dirs = {} /\ Present = {}

\* tftp/files.rs and the handlers of files: uploads are kept, seen, and removed with the session.
FilesInv == FilesTypeOK /\ FilesAreKept /\ ReadersSeeThem /\ FilesHaveDirs /\ ReleaseLeavesNothing
=============================================================================
