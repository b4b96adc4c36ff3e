-------------------------------- MODULE Files --------------------------------
(***************************************************************************)
(* Files at Cloudinary and the rows that show them: the picture of a user  *)
(* who is a provider (ProviderServicesService.updateProviderProfile,       *)
(* AuthService.updateUserProfile) and the media of a sub-service           *)
(* (SubServicesService, and the admin who approves an update of it).       *)
(*                                                                         *)
(* Cloudinary and the database share no transaction.  A request reads the  *)
(* rows, has files destroyed and uploaded, and then writes rows; others    *)
(* get between any two of these.  Every upload has a name of its own.      *)
(***************************************************************************)
EXTENDS Naturals, Sequences

CONSTANTS
  Uploaders,   \* requests served at a time
  Uploads,     \* the public ids Cloudinary gives out
  Original,       \* the one the sub-service was created with
  NoUpload,
  MaxTasks     \* requests ever begun (a bound of the model)

ASSUME FilesAssumption ==
  /\ Original \in Uploads /\ NoUpload \notin Uploads
  /\ Uploaders # {}
  /\ MaxTasks \in Nat

VARIABLES
  stored,      \* the files Cloudinary has
  given,       \* the public ids it has given out
  picture,     \* User.profileImage
  media,       \* the rows of SubServiceMedia: <<file, the request that made it>>
  offer,       \* SubService.approvalStatus, or "NONE" once it is deleted
  changes,     \* the UPDATE requests that bring a file, the oldest first
  task,        \* per request: what its handler remembers
  begun,       \* requests begun so far
  lost,        \* destroyed by a request that then failed
  doubled      \* brought by a change request that was decided twice

fileRows == <<picture, media, offer, changes>>
fileVars == <<stored, given, fileRows, task, begun, lost, doubled>>

(* at: the next call.  old, new: the picture that was read, the file that   *)
(* was uploaded.  destroy, remove: media whose file, and then whose row, is *)
(* yet to go.  adds: a file is to be uploaded.  req: the change request     *)
(* that was found.                                                          *)
NoTask == [kind |-> "none", at |-> "none", old |-> NoUpload, new |-> NoUpload,
           destroy |-> {}, remove |-> {}, adds |-> FALSE, req |-> 0]

FilesInit ==
  /\ given   = {Original}
  /\ stored  = {Original}
  /\ picture = NoUpload
  /\ media   = {<<Original, CHOOSE u \in Uploaders : TRUE>>}
  /\ offer   = "ACTIVE"
  /\ changes = <<>>
  /\ task    = [u \in Uploaders |-> NoTask]
  /\ begun   = 0
  /\ lost    = {}
  /\ doubled = {}

BeginsTask(u, t) ==
  /\ task[u] = NoTask /\ begun < MaxTasks
  /\ task'  = [task EXCEPT ![u] = t]
  /\ begun' = begun + 1

GoesTo(u, at) == task' = [task EXCEPT ![u].at = at] /\ begun' = begun
Closes(u)     == task' = [task EXCEPT ![u] = NoTask] /\ begun' = begun

AtCall(u, k, at) == task[u].kind \in k /\ task[u].at = at

-----------------------------------------------------------------------------
(* CloudinaryService.upload: it gives the file a new name, whichever; a     *)
(* refusal is an error, and the request fails.                              *)
Fresh == CHOOSE f \in Uploads : f \notin given

Upload(u) ==
  /\ AtCall(u, {"profile", "media", "update"}, "upload")
  /\ given # Uploads
  /\ given'  = given \union {Fresh}
  /\ stored' = stored \union {Fresh}
  /\ task'   = [task EXCEPT ![u].at = "write", ![u].new = Fresh]
  /\ UNCHANGED <<fileRows, begun, lost, doubled>>

(* CloudinaryService.delete swallows an error: the file may stay.           *)
Destroyed(f) == stored' \in {stored, stored \ {f}}

-----------------------------------------------------------------------------
(* updateProviderProfile: with a picture, the old one goes first; without,  *)
(* only the other columns are written.                                      *)
UpdateProviderProfile(u, sent) ==
  /\ BeginsTask(u, [NoTask EXCEPT !.kind = "profile", !.old = picture,
       !.at = IF ~sent THEN "write" ELSE IF picture = NoUpload THEN "upload" ELSE "destroy"])
  /\ UNCHANGED <<stored, given, fileRows, lost, doubled>>

DestroyPicture(u) ==
  /\ AtCall(u, {"profile"}, "destroy")
  /\ Destroyed(task[u].old)
  /\ GoesTo(u, "upload")
  /\ UNCHANGED <<given, fileRows, lost, doubled>>

(* updateUserProfile: the old picture stays at Cloudinary.                  *)
UpdateUserProfile(u) ==
  /\ BeginsTask(u, [NoTask EXCEPT !.kind = "profile", !.at = "upload"])
  /\ UNCHANGED <<stored, given, fileRows, lost, doubled>>

(* Mutant: the column is written whether or not a picture was sent.         *)
WrittenAnyway(t) == IF t.new = NoUpload THEN t.old ELSE t.new

Written(t) == IF t.new = NoUpload THEN picture ELSE t.new

WritePicture(u) ==
  /\ AtCall(u, {"profile"}, "write")
  /\ picture' = Written(task[u])
  /\ Closes(u)
  /\ UNCHANGED <<stored, given, media, offer, changes, lost, doubled>>

-----------------------------------------------------------------------------
(* updateSubServiceMedia: of the media it read, at least one must be left   *)
(* with those it adds.  Each file goes before its row, all at once.         *)
UpdateSubServiceMedia(u, out, adds) ==
  /\ offer # "NONE" /\ out \subseteq media
  /\ adds \/ out # media
  /\ BeginsTask(u, [NoTask EXCEPT !.kind = "media", !.at = "destroy",
                                  !.destroy = out, !.adds = adds])
  /\ UNCHANGED <<stored, given, fileRows, lost, doubled>>

DestroyMedia(u, m) ==
  /\ AtCall(u, {"media", "delete"}, "destroy")
  /\ m \in task[u].destroy
  /\ Destroyed(m[1])
  /\ task' = [task EXCEPT ![u].destroy = @ \ {m}, ![u].remove = @ \union {m}]
  /\ UNCHANGED <<given, fileRows, begun, lost, doubled>>

(* A row that is gone is an error: nothing is added then, but the deletions *)
(* that have begun go on.                                                   *)
RemoveMedia(u, m) ==
  /\ AtCall(u, {"media"}, "destroy")
  /\ m \in task[u].remove
  /\ media' = media \ {m}
  /\ task'  = [task EXCEPT ![u].remove = @ \ {m}, ![u].adds = @ /\ m \in media]
  /\ UNCHANGED <<stored, given, picture, offer, changes, begun, lost, doubled>>

MediaDeleted(u) ==
  /\ AtCall(u, {"media"}, "destroy")
  /\ task[u].destroy \union task[u].remove = {}
  /\ IF task[u].adds THEN GoesTo(u, "upload") ELSE Closes(u)
  /\ UNCHANGED <<stored, given, fileRows, lost, doubled>>

AddMedia(u) ==
  /\ AtCall(u, {"media"}, "write")
  /\ offer # "NONE"
  /\ media' = media \union {<<task[u].new, u>>}
  /\ Closes(u)
  /\ UNCHANGED <<stored, given, picture, offer, changes, lost, doubled>>

(* deleteSubService: the files one by one, then the row, which takes its    *)
(* media with it.                                                           *)
DeleteSubServiceFiles(u) ==
  /\ offer # "NONE"
  /\ BeginsTask(u, [NoTask EXCEPT !.kind = "delete", !.at = "destroy", !.destroy = media])
  /\ UNCHANGED <<stored, given, fileRows, lost, doubled>>

DeleteSubServiceRow(u) ==
  /\ AtCall(u, {"delete"}, "destroy")
  /\ task[u].destroy = {} /\ offer # "NONE"
  /\ offer' = "NONE"
  /\ media' = {}
  /\ Closes(u)
  /\ UNCHANGED <<stored, given, picture, changes, lost, doubled>>

-----------------------------------------------------------------------------
(* updateSubService: the new file is kept in the change request.            *)
RequestMedia(u) ==
  /\ offer = "ACTIVE"
  /\ BeginsTask(u, [NoTask EXCEPT !.kind = "update", !.at = "upload"])
  /\ UNCHANGED <<stored, given, fileRows, lost, doubled>>

SubmitMedia(u) ==
  /\ AtCall(u, {"update"}, "write")
  /\ offer # "NONE"
  /\ offer'   = "PENDING_APPROVAL"
  /\ changes' = Append(changes, [file |-> task[u].new, pending |-> TRUE])
  /\ Closes(u)
  /\ UNCHANGED <<stored, given, picture, media, lost, doubled>>

(* approveSubServiceUpdate: the latest pending request, decided in a        *)
(* transaction that looks at neither status again.  It is the approval that *)
(* makes the row; a file that is refused is left at Cloudinary.             *)
Undecided == {n \in DOMAIN changes : changes[n].pending}

ReviewMedia(u) ==
  /\ offer = "PENDING_APPROVAL"
  /\ \E n \in Undecided :
       /\ \A m \in Undecided : m <= n
       /\ BeginsTask(u, [NoTask EXCEPT !.kind = "review", !.at = "write", !.req = n])
  /\ UNCHANGED <<stored, given, fileRows, lost, doubled>>

DecideMedia(u, accepted) ==
  LET n == task[u].req
      f == changes[n].file
  IN /\ AtCall(u, {"review"}, "write")
     /\ offer # "NONE"
     /\ offer'   = IF accepted THEN "ACTIVE" ELSE "REJECTED"
     /\ media'   = IF accepted THEN media \union {<<f, u>>} ELSE media
     /\ changes' = [changes EXCEPT ![n].pending = FALSE]
     /\ doubled' = IF n \in Undecided THEN doubled ELSE doubled \union {f}
     /\ Closes(u)
     /\ UNCHANGED <<stored, given, picture, lost>>

-----------------------------------------------------------------------------
(* The files a request had destroyed and whose row it has yet to write.     *)
Replacing(t) ==
  t.kind = "profile" /\ (t.at = "upload" \/ (t.at = "write" /\ t.new # NoUpload))

InHand(u) ==
  {m[1] : m \in task[u].remove} \union (IF Replacing(task[u]) THEN {task[u].old} ELSE {})

(* A crash, an error of Cloudinary or of the database.                      *)
TaskFails(u) ==
  /\ task[u] # NoTask
  /\ lost' = lost \union (InHand(u) \ (stored \union {NoUpload}))
  /\ Closes(u)
  /\ UNCHANGED <<stored, given, fileRows, doubled>>

FilesNext ==
  \E u \in Uploaders :
    \/ \E sent \in BOOLEAN : UpdateProviderProfile(u, sent)
    \/ DestroyPicture(u) \/ UpdateUserProfile(u) \/ WritePicture(u)
    \/ Upload(u)
    \/ \E out \in SUBSET media, adds \in BOOLEAN : UpdateSubServiceMedia(u, out, adds)
    \/ \E m \in task[u].destroy : DestroyMedia(u, m)
    \/ \E m \in task[u].remove : RemoveMedia(u, m)
    \/ MediaDeleted(u) \/ AddMedia(u)
    \/ DeleteSubServiceFiles(u) \/ DeleteSubServiceRow(u)
    \/ RequestMedia(u) \/ SubmitMedia(u) \/ ReviewMedia(u)
    \/ \E accepted \in BOOLEAN : DecideMedia(u, accepted)
    \/ TaskFails(u)

-----------------------------------------------------------------------------
FilesTypeOK ==
  /\ stored \subseteq given /\ given \subseteq Uploads
  /\ picture \in given \union {NoUpload}
  /\ media \subseteq given \X Uploaders
  /\ offer \in {"ACTIVE", "PENDING_APPROVAL", "REJECTED", "NONE"}
  /\ offer = "NONE" => media = {}
  /\ changes \in Seq([file : given, pending : BOOLEAN])
  /\ lost \union doubled \subseteq given

Shown == ({picture} \ {NoUpload}) \union {m[1] : m \in media}

(* A picture or a media file that is shown is at Cloudinary, however the    *)
(* updates interleave, but for three cases: a request had it destroyed and  *)
(* is about to write the row, such a request failed halfway, or two admins  *)
(* decided the same update and its file has two rows.                       *)
FilesAreThere ==
  Shown \subseteq stored \union (UNION {InHand(u) : u \in Uploaders}) \union lost \union doubled
=============================================================================
