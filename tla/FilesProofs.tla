----------------------------- MODULE FilesProofs -----------------------------
(***************************************************************************)
(* Proofs about ProviderSide, continued: its files, for any number of      *)
(* files and of requests at once.                                          *)
(***************************************************************************)
EXTENDS CatalogueProofs, SequenceTheorems

Named == Uploads \union {NoUpload}
Rows  == Uploads \X Uploaders
Tasks == [kind : {"none", "profile", "media", "delete", "update", "review"},
          at : {"none", "destroy", "upload", "write"}, old : Named, new : Named,
          destroy : SUBSET Rows, remove : SUBSET Rows, adds : BOOLEAN, req : Nat]

(* Where a file may be: with the profile, with the media, held by the       *)
(* request that uploaded it, or offered in a request that is undecided.     *)
Involved(t)   == t.destroy \union t.remove
OnProfile(f)  == f # NoUpload /\ (f = picture \/ \E u \in Uploaders : task[u].old = f)
WithMedia(f)  == \/ \E m \in media : m[1] = f
                 \/ \E u \in Uploaders : \E m \in Involved(task[u]) : m[1] = f
                 \/ \E n \in DOMAIN changes : changes[n].file = f /\ ~changes[n].pending
Held(u, f)    == f # NoUpload /\ task[u].new = f
Offered(n, f) == changes[n].file = f /\ changes[n].pending

TaskOK(t) ==
  /\ t.old # NoUpload => t.kind = "profile"
  /\ Involved(t) # {} => t.kind \in {"media", "delete"} /\ t.at = "destroy"
  /\ t.new # NoUpload => t.kind \in {"profile", "media", "update"} /\ t.at = "write"
  /\ t.kind \in {"media", "update"} /\ t.at = "write" => t.new # NoUpload
  /\ t.kind = "review" => t.req \in DOMAIN changes

FilesTables ==
  /\ FilesTypeOK
  /\ task \in [Uploaders -> Tasks]
  /\ \A u \in Uploaders :
       /\ TaskOK(task[u])
       /\ {task[u].old, task[u].new} \subseteq given \union {NoUpload}
       /\ Involved(task[u]) \subseteq given \X Uploaders

(* A file is in one of these places only, and until it is shown it is at    *)
(* Cloudinary: no request has read a row that names it.                     *)
OnePlace ==
  /\ \A f \in Uploads : ~(OnProfile(f) /\ WithMedia(f))
  /\ \A u \in Uploaders, f \in Uploads : Held(u, f) =>
       /\ f \in stored /\ ~OnProfile(f) /\ ~WithMedia(f)
       /\ \A v \in Uploaders : Held(v, f) => v = u
       /\ \A n \in DOMAIN changes : ~Offered(n, f)
  /\ \A n \in DOMAIN changes, f \in Uploads : Offered(n, f) =>
       /\ f \in stored /\ ~OnProfile(f) /\ ~WithMedia(f)
       /\ \A k \in DOMAIN changes : Offered(k, f) => k = n

(* A file has one row, unless its update was decided twice.                 *)
OneRow ==
  \A m \in media :
    /\ \A k \in media : k[1] = m[1] /\ k # m => m[1] \in doubled
    /\ \A u \in Uploaders : \A k \in Involved(task[u]) : k[1] = m[1] /\ k # m => m[1] \in doubled

Away(f, u) ==
  \/ \E m \in task[u].remove : m[1] = f
  \/ Replacing(task[u]) /\ task[u].old = f

ThereOrAway ==
  \A f \in Uploads : f = picture \/ (\E m \in media : m[1] = f) =>
    f \in stored \/ f \in lost \/ f \in doubled \/ \E u \in Uploaders : Away(f, u)

FilesInv == FilesTables /\ OnePlace /\ OneRow /\ ThereOrAway

-----------------------------------------------------------------------------
LEMMA ThereSuffices == FilesInv => FilesAreThere
<1> SUFFICES ASSUME FilesInv, NEW f \in Shown
             PROVE  f \in stored \union (UNION {InHand(u) : u \in Uploaders}) \union lost \union doubled
  BY DEF FilesAreThere
<1>1. f \in Uploads /\ (f = picture \/ \E m \in media : m[1] = f)
  BY DEF Shown, FilesInv, FilesTables, FilesTypeOK
<1>2. \A u \in Uploaders : Away(f, u) => f \in InHand(u)
  BY DEF Away, InHand
<1> QED
  BY <1>1, <1>2 DEF FilesInv, ThereOrAway

LEMMA NoTaskOK == NoTask \in Tasks /\ TaskOK(NoTask)
                  /\ NoTask.old = NoUpload /\ NoTask.new = NoUpload /\ Involved(NoTask) = {}
                  /\ NoTask.destroy = {} /\ NoTask.remove = {} /\ NoTask.kind = "none"
BY DEF NoTask, Tasks, TaskOK, Named, Involved

LEMMA FilesStart == FilesInit => FilesInv
<1> SUFFICES ASSUME FilesInit PROVE FilesInv
  OBVIOUS
<1>1. PICK o \in Uploaders : media = {<<Original, o>>}
  BY FilesAssumption DEF FilesInit
<1>2. \A u \in Uploaders : task[u] = NoTask
  BY DEF FilesInit
<1>3. FilesTables
  BY <1>1, <1>2, NoTaskOK, FilesAssumption DEF FilesInit, FilesTables, FilesTypeOK
<1>4. OnePlace
  BY <1>2, NoTaskOK, FilesAssumption DEF FilesInit, OnePlace, OnProfile, WithMedia, Held, Offered
<1>5. OneRow /\ ThereOrAway
  BY <1>1, <1>2, NoTaskOK, FilesAssumption DEF FilesInit, OneRow, ThereOrAway
<1> QED
  BY <1>3, <1>4, <1>5 DEF FilesInv

-----------------------------------------------------------------------------
(* A request begins, has something destroyed, or ends: it remembers no      *)
(* more than it did and the rows it reads now, and writes none.             *)
LEMMA TaskMoves ==
  ASSUME FilesInv, NEW u \in Uploaders, NEW j \in Tasks, TaskOK(j),
         task' = [task EXCEPT ![u] = j],
         UNCHANGED <<given, fileRows, doubled>>,
         j.old \in {task[u].old, picture, NoUpload}, j.new \in {task[u].new, NoUpload},
         Involved(j) \subseteq Involved(task[u]) \union media,
         stored' \subseteq stored, lost \subseteq lost', lost' \subseteq given,
         \A f \in Uploads : f \in stored /\ f \notin stored' => Away(f, u)',
         \A f \in Uploads : Away(f, u) => Away(f, u)' \/ f \in stored' \/ f \in lost'
  PROVE  FilesInv'
<1>1. /\ task' \in [Uploaders -> Tasks] /\ task'[u] = j
      /\ \A v \in Uploaders : v # u => task'[v] = task[v]
  BY DEF FilesInv, FilesTables
<1>2. UNCHANGED <<given, picture, media, offer, changes, doubled>>
  BY DEF fileRows
<1>3. FilesTables'
  <2>1. FilesTypeOK'
    BY <1>2 DEF FilesInv, FilesTables, FilesTypeOK
  <2>2. \A v \in Uploaders : TaskOK(task[v])'
    BY <1>1, <1>2 DEF FilesInv, FilesTables, TaskOK
  <2>3. \A v \in Uploaders : {task'[v].old, task'[v].new} \subseteq given \union {NoUpload}
    BY <1>1, <1>2 DEF FilesInv, FilesTables, FilesTypeOK
  <2>4. \A v \in Uploaders : Involved(task'[v]) \subseteq given \X Uploaders
    BY <1>1, <1>2 DEF FilesInv, FilesTables, FilesTypeOK
  <2> QED
    BY <1>1, <1>2, <2>1, <2>2, <2>3, <2>4 DEF FilesTables, Involved
<1>4. \A f \in Uploads : (OnProfile(f)' => OnProfile(f)) /\ (WithMedia(f)' => WithMedia(f))
  <2>1. \A f \in Uploads : OnProfile(f)' => OnProfile(f)
    BY <1>1, <1>2 DEF OnProfile
  <2>2. ASSUME NEW f \in Uploads, NEW v \in Uploaders, NEW m \in Involved(task'[v]), m[1] = f
        PROVE  WithMedia(f)
    BY <1>1, <2>2 DEF WithMedia
  <2>3. \A f \in Uploads : WithMedia(f)' => WithMedia(f)
    BY <1>2, <2>2 DEF WithMedia, Involved
  <2> QED
    BY <2>1, <2>3
<1>5. \A v \in Uploaders, f \in Uploads : Held(v, f)' => Held(v, f)
  BY <1>1 DEF Held
<1>6. \A n, f : Offered(n, f)' <=> Offered(n, f)
  BY <1>2 DEF Offered
<1>7. \A f \in Uploads : Away(f, u)' => OnProfile(f) \/ WithMedia(f)
  <2>1. \A f \in Uploads : Away(f, u)' => OnProfile(f)' \/ WithMedia(f)'
    BY FilesAssumption DEF Away, OnProfile, WithMedia, Involved
  <2> QED
    BY <1>4, <2>1
<1>8. OnePlace'
  BY <1>2, <1>4, <1>5, <1>6, <1>7 DEF FilesInv, OnePlace
<1>9. OneRow'
  <2>1. \A v \in Uploaders : Involved(task'[v]) \subseteq Involved(task[v]) \union media
    BY <1>1
  <2> QED
    BY <1>2, <2>1 DEF FilesInv, OneRow, Involved
<1>10. ThereOrAway'
  <2>1. \A v \in Uploaders, f \in Uploads : v # u /\ Away(f, v) => Away(f, v)'
    BY <1>1 DEF Away, Replacing
  <2>2. ASSUME NEW f \in Uploads, f = picture \/ \E m \in media : m[1] = f
        PROVE  f \in stored' \/ f \in lost' \/ f \in doubled \/ \E v \in Uploaders : Away(f, v)'
    BY <2>1, <2>2 DEF FilesInv, ThereOrAway
  <2> QED
    BY <1>2, <2>2 DEF ThereOrAway
<1> QED
  BY <1>3, <1>8, <1>9, <1>10 DEF FilesInv

LEMMA TaskType == FilesInv => \A u \in Uploaders : task[u] \in Tasks /\ TaskOK(task[u])
BY DEF FilesInv, FilesTables

LEMMA Begun ==
  ASSUME FilesInv, NEW u \in Uploaders, NEW j \in Tasks, BeginsTask(u, j), TaskOK(j),
         UNCHANGED <<stored, given, fileRows, lost, doubled>>,
         j.old \in {picture, NoUpload}, j.new = NoUpload, Involved(j) \subseteq media
  PROVE  FilesInv'
<1>1. task' = [task EXCEPT ![u] = j] /\ task[u] = NoTask
  BY DEF BeginsTask
<1>2. \A f \in Uploads : ~Away(f, u)
  BY <1>1, NoTaskOK DEF Away, Replacing
<1>3. lost \subseteq given
  BY DEF FilesInv, FilesTables, FilesTypeOK
<1> QED
  BY <1>1, <1>2, <1>3, TaskMoves DEF fileRows

LEMMA Starts ==
  ASSUME FilesInv, NEW u \in Uploaders,
         \/ \E sent \in BOOLEAN : UpdateProviderProfile(u, sent)
         \/ UpdateUserProfile(u) \/ DeleteSubServiceFiles(u) \/ RequestMedia(u) \/ ReviewMedia(u)
         \/ \E out \in SUBSET media, adds \in BOOLEAN : UpdateSubServiceMedia(u, out, adds)
  PROVE  FilesInv'
<1>1. picture \in Named /\ media \subseteq Rows /\ changes \in Seq([file : given, pending : BOOLEAN])
  BY DEF FilesInv, FilesTables, FilesTypeOK, Named, Rows
<1>2. CASE \E sent \in BOOLEAN : UpdateProviderProfile(u, sent)
  <2>1. PICK sent \in BOOLEAN : UpdateProviderProfile(u, sent)
    BY <1>2
  <2>2. PICK at \in {"destroy", "upload", "write"} : at =
          IF ~sent THEN "write" ELSE IF picture = NoUpload THEN "upload" ELSE "destroy"
    OBVIOUS
  <2>3. PICK j : j = [NoTask EXCEPT !.kind = "profile", !.old = picture, !.at = at]
    OBVIOUS
  <2>4. /\ j \in Tasks /\ j.kind = "profile" /\ j.old = picture /\ j.new = NoUpload
        /\ j.destroy = {} /\ j.remove = {}
    BY <1>1, <2>3 DEF NoTask, Tasks, Named
  <2>5. TaskOK(j) /\ Involved(j) = {}
    BY <2>4 DEF TaskOK, Involved
  <2>6. BeginsTask(u, j) /\ UNCHANGED <<stored, given, fileRows, lost, doubled>>
    BY <2>1, <2>2, <2>3 DEF UpdateProviderProfile
  <2> QED
    BY <2>4, <2>5, <2>6, Begun
<1>3. CASE UpdateUserProfile(u) \/ RequestMedia(u)
  <2>1. PICK k \in {"profile", "update"} :
          BeginsTask(u, [NoTask EXCEPT !.kind = k, !.at = "upload"])
    BY <1>3 DEF UpdateUserProfile, RequestMedia
  <2>2. PICK j : j = [NoTask EXCEPT !.kind = k, !.at = "upload"]
    OBVIOUS
  <2>3. /\ j \in Tasks /\ j.kind = k /\ j.at = "upload" /\ j.old = NoUpload /\ j.new = NoUpload
        /\ j.destroy = {} /\ j.remove = {}
    BY <2>2 DEF NoTask, Tasks, Named
  <2>4. TaskOK(j) /\ Involved(j) = {}
    BY <2>3 DEF TaskOK, Involved
  <2> QED
    BY <1>3, <2>1, <2>2, <2>3, <2>4, Begun DEF UpdateUserProfile, RequestMedia
<1>4. CASE ReviewMedia(u)
  <2>1. PICK n \in DOMAIN changes :
          BeginsTask(u, [NoTask EXCEPT !.kind = "review", !.at = "write", !.req = n])
    BY <1>4 DEF ReviewMedia, Undecided
  <2>2. n \in Nat
    BY <1>1, <2>1
  <2>3. PICK j : j = [NoTask EXCEPT !.kind = "review", !.at = "write", !.req = n]
    OBVIOUS
  <2>4. /\ j \in Tasks /\ j.kind = "review" /\ j.at = "write" /\ j.old = NoUpload /\ j.new = NoUpload
        /\ j.destroy = {} /\ j.remove = {} /\ j.req = n
    BY <2>2, <2>3 DEF NoTask, Tasks, Named
  <2>5. TaskOK(j) /\ Involved(j) = {}
    BY <2>4 DEF TaskOK, Involved
  <2> QED
    BY <1>4, <2>1, <2>3, <2>4, <2>5, Begun DEF ReviewMedia
<1>5. CASE \E out \in SUBSET media, adds \in BOOLEAN : UpdateSubServiceMedia(u, out, adds)
  <2>1. PICK out \in SUBSET media, adds \in BOOLEAN : UpdateSubServiceMedia(u, out, adds)
    BY <1>5
  <2>2. PICK j : j = [NoTask EXCEPT !.kind = "media", !.at = "destroy",
                                    !.destroy = out, !.adds = adds]
    OBVIOUS
  <2>3. /\ j \in Tasks /\ j.kind = "media" /\ j.at = "destroy" /\ j.old = NoUpload
        /\ j.new = NoUpload /\ j.destroy = out /\ j.remove = {}
    BY <1>1, <2>2 DEF NoTask, Tasks, Named
  <2>4. TaskOK(j) /\ Involved(j) = out
    BY <2>3 DEF TaskOK, Involved
  <2> QED
    BY <2>1, <2>2, <2>3, <2>4, Begun DEF UpdateSubServiceMedia
<1>6. CASE DeleteSubServiceFiles(u)
  <2>1. PICK j : j = [NoTask EXCEPT !.kind = "delete", !.at = "destroy", !.destroy = media]
    OBVIOUS
  <2>2. /\ j \in Tasks /\ j.kind = "delete" /\ j.at = "destroy" /\ j.old = NoUpload
        /\ j.new = NoUpload /\ j.destroy = media /\ j.remove = {}
    BY <1>1, <2>1 DEF NoTask, Tasks, Named
  <2>3. TaskOK(j) /\ Involved(j) = media
    BY <2>2 DEF TaskOK, Involved
  <2> QED
    BY <1>6, <2>1, <2>2, <2>3, Begun DEF DeleteSubServiceFiles
<1> QED
  BY <1>2, <1>3, <1>4, <1>5, <1>6

LEMMA Destroys ==
  ASSUME FilesInv, NEW u \in Uploaders,
         DestroyPicture(u) \/ \E m \in task[u].destroy : DestroyMedia(u, m)
  PROVE  FilesInv'
<1>1. task[u] \in Tasks /\ TaskOK(task[u])
  BY TaskType
<1>2. lost \subseteq given /\ task \in [Uploaders -> Tasks]
  BY DEF FilesInv, FilesTables, FilesTypeOK
<1>3. CASE DestroyPicture(u)
  <2>1. PICK j : j = [task[u] EXCEPT !.at = "upload"]
    OBVIOUS
  <2>2. /\ j \in Tasks /\ j.kind = "profile" /\ j.at = "upload" /\ j.old = task[u].old
        /\ j.new = task[u].new /\ j.destroy = task[u].destroy /\ j.remove = task[u].remove
        /\ task[u].kind = "profile" /\ task[u].at = "destroy"
    BY <1>1, <1>3, <2>1 DEF Tasks, DestroyPicture, AtCall
  <2>3. j.new = NoUpload /\ TaskOK(j) /\ Involved(j) = {} /\ Involved(task[u]) = {}
    BY <1>1, <2>2 DEF TaskOK, Involved
  <2>4. task' = [task EXCEPT ![u] = j]
    BY <1>3, <2>1 DEF DestroyPicture, GoesTo
  <2>5. task'[u] = j
    BY <1>2, <2>4
  <2>6. \A f \in Uploads : (Away(f, u)' <=> f = task[u].old) /\ ~Away(f, u)
    BY <2>2, <2>3, <2>5 DEF Away, Replacing, Involved
  <2>7. stored' \subseteq stored /\ \A f \in stored : f \notin stored' => f = task[u].old
    BY <1>3 DEF DestroyPicture, Destroyed
  <2> QED
    BY <1>2, <1>3, <2>2, <2>3, <2>4, <2>6, <2>7, TaskMoves DEF DestroyPicture
<1>4. CASE \E m \in task[u].destroy : DestroyMedia(u, m)
  <2>1. PICK m \in task[u].destroy : DestroyMedia(u, m)
    BY <1>4
  <2>2. PICK j : j = [task[u] EXCEPT !.destroy = @ \ {m}, !.remove = @ \union {m}]
    OBVIOUS
  <2>3. /\ j \in Tasks /\ j.kind = task[u].kind /\ j.at = "destroy" /\ j.old = task[u].old
        /\ j.new = task[u].new /\ j.destroy = task[u].destroy \ {m}
        /\ j.remove = task[u].remove \union {m} /\ j.req = task[u].req
        /\ task[u].kind \in {"media", "delete"} /\ task[u].at = "destroy"
    BY <1>1, <2>1, <2>2 DEF Tasks, DestroyMedia, AtCall
  <2>4. TaskOK(j) /\ Involved(j) = Involved(task[u])
    BY <1>1, <2>3 DEF TaskOK, Involved
  <2>5. task' = [task EXCEPT ![u] = j]
    BY <1>2, <2>1, <2>2 DEF DestroyMedia
  <2>6. task'[u] = j
    BY <1>2, <2>5
  <2>7. \A f \in Uploads : (f = m[1] => Away(f, u)') /\ (Away(f, u) => Away(f, u)')
    BY <2>3, <2>6 DEF Away, Replacing
  <2>8. stored' \subseteq stored /\ \A f \in stored : f \notin stored' => f = m[1]
    BY <2>1 DEF DestroyMedia, Destroyed
  <2> QED
    BY <1>2, <2>1, <2>3, <2>4, <2>5, <2>7, <2>8, TaskMoves DEF DestroyMedia
<1> QED
  BY <1>3, <1>4

LEMMA Ends ==
  ASSUME FilesInv, NEW u \in Uploaders, MediaDeleted(u) \/ TaskFails(u)
  PROVE  FilesInv'
<1>1. task[u] \in Tasks /\ TaskOK(task[u]) /\ task \in [Uploaders -> Tasks]
  BY TaskType DEF FilesInv, FilesTables
<1>2. /\ lost \subseteq given /\ Involved(task[u]) \subseteq given \X Uploaders
      /\ task[u].old \in given \union {NoUpload}
  BY DEF FilesInv, FilesTables, FilesTypeOK
<1>3. CASE TaskFails(u)
  <2>1. task' = [task EXCEPT ![u] = NoTask]
    BY <1>3 DEF TaskFails, Closes
  <2>2. \A f \in Uploads : Away(f, u) => f \in InHand(u)
    BY DEF Away, InHand
  <2>3. \A f \in Uploads : Away(f, u) => f \in stored \/ f \in lost'
    BY <1>3, <2>2, FilesAssumption DEF TaskFails
  <2>4. InHand(u) \subseteq given \union {NoUpload}
    BY <1>2 DEF InHand, Involved
  <2>5. lost \subseteq lost' /\ lost' \subseteq given
    BY <1>2, <1>3, <2>4 DEF TaskFails
  <2> QED
    BY <1>3, <2>1, <2>3, <2>5, NoTaskOK, TaskMoves DEF TaskFails
<1>4. CASE MediaDeleted(u)
  <2>1. Involved(task[u]) = {} /\ task[u].kind = "media" /\ task[u].new = NoUpload
        /\ task[u].old = NoUpload
    BY <1>1, <1>4 DEF MediaDeleted, Involved, AtCall, TaskOK
  <2>2. \A f \in Uploads : ~Away(f, u)
    BY <2>1 DEF Away, Replacing, Involved
  <2>3. PICK j : j = IF task[u].adds THEN [task[u] EXCEPT !.at = "upload"] ELSE NoTask
    OBVIOUS
  <2>4. task' = [task EXCEPT ![u] = j]
    BY <1>4, <2>3 DEF MediaDeleted, GoesTo, Closes
  <2>5. /\ j \in Tasks /\ TaskOK(j) /\ j.old = NoUpload /\ j.new = NoUpload /\ Involved(j) = {}
    <3>1. CASE task[u].adds
      <4>1. /\ j \in Tasks /\ j.kind = "media" /\ j.at = "upload" /\ j.old = NoUpload
            /\ j.new = NoUpload /\ j.destroy = task[u].destroy /\ j.remove = task[u].remove
        BY <1>1, <2>1, <2>3, <3>1 DEF Tasks
      <4> QED
        BY <2>1, <4>1 DEF TaskOK, Involved
    <3>2. CASE ~task[u].adds
      BY <2>3, <3>2, NoTaskOK
    <3> QED
      BY <3>1, <3>2
  <2> QED
    BY <1>2, <1>4, <2>2, <2>4, <2>5, TaskMoves DEF MediaDeleted
<1> QED
  BY <1>3, <1>4

-----------------------------------------------------------------------------
(* The file that is uploaded has a new name: it is nowhere yet.             *)
LEMMA Uploaded == ASSUME FilesInv, NEW u \in Uploaders, Upload(u) PROVE FilesInv'
<1> DEFINE x == Fresh
<1>1. x \in Uploads /\ x \notin given /\ x # NoUpload
  BY FilesAssumption DEF FilesInv, FilesTables, FilesTypeOK, Upload, Fresh
<1>2. task[u] \in Tasks /\ TaskOK(task[u]) /\ task \in [Uploaders -> Tasks]
  BY TaskType DEF FilesInv, FilesTables
<1>3. PICK j : j = [task[u] EXCEPT !.at = "write", !.new = x]
  OBVIOUS
<1>4. /\ j \in Tasks /\ j.kind = task[u].kind /\ j.at = "write" /\ j.old = task[u].old
      /\ j.new = x /\ j.destroy = task[u].destroy /\ j.remove = task[u].remove
      /\ j.req = task[u].req
      /\ task[u].kind \in {"profile", "media", "update"} /\ task[u].at = "upload"
  BY <1>1, <1>2, <1>3 DEF Tasks, Named, Upload, AtCall
<1>5. task' = [task EXCEPT ![u] = j] /\ given' = given \union {x} /\ stored' = stored \union {x}
      /\ UNCHANGED <<picture, media, offer, changes, lost, doubled>>
  BY <1>3 DEF Upload, fileRows
<1>6. /\ task' \in [Uploaders -> Tasks] /\ task'[u] = j
      /\ \A v \in Uploaders : v # u => task'[v] = task[v]
  BY <1>2, <1>4, <1>5
<1> HIDE DEF x
<1>7. TaskOK(j) /\ Involved(j) = Involved(task[u])
  BY <1>1, <1>2, <1>4 DEF TaskOK, Involved
<1>8. FilesTables'
  <2>1. FilesTypeOK'
    <3>1. changes' \in Seq([file : given', pending : BOOLEAN])
      <4>1. changes \in Seq([file : given, pending : BOOLEAN])
        BY DEF FilesInv, FilesTables, FilesTypeOK
      <4>2. [file : given, pending : BOOLEAN] \subseteq [file : given', pending : BOOLEAN]
        BY <1>5
      <4>3. changes \in Seq([file : given', pending : BOOLEAN])
        BY <4>1, <4>2, SeqMonotonic
      <4> QED
        BY <1>5, <4>3
    <3> QED
      BY <1>1, <1>5, <3>1 DEF FilesInv, FilesTables, FilesTypeOK
  <2>2. \A v \in Uploaders : TaskOK(task[v])'
    BY <1>5, <1>6, <1>7 DEF FilesInv, FilesTables, TaskOK
  <2>3. \A v \in Uploaders : {task'[v].old, task'[v].new} \subseteq given' \union {NoUpload}
    BY <1>4, <1>5, <1>6 DEF FilesInv, FilesTables
  <2>4. \A v \in Uploaders : Involved(task'[v]) \subseteq given' \X Uploaders
    BY <1>5, <1>6, <1>7 DEF FilesInv, FilesTables
  <2> QED
    BY <1>6, <2>1, <2>2, <2>3, <2>4 DEF FilesTables, Involved
<1>9. /\ \A v \in Uploaders : task'[v].old = task[v].old
      /\ \A v \in Uploaders : Involved(task'[v]) = Involved(task[v])
  BY <1>4, <1>6, <1>7
<1>10. \A f \in Uploads : (OnProfile(f)' <=> OnProfile(f)) /\ (WithMedia(f)' <=> WithMedia(f))
  BY <1>5, <1>9 DEF OnProfile, WithMedia, Involved
<1>11. \A n : ~(n \in DOMAIN changes /\ changes[n].file = x)
  <2>1. changes \in Seq([file : given, pending : BOOLEAN])
    BY DEF FilesInv, FilesTables, FilesTypeOK
  <2>2. \A n \in DOMAIN changes : changes[n] \in [file : given, pending : BOOLEAN]
    BY <2>1, LenProperties, ElementOfSeq
  <2>3. \A n \in DOMAIN changes : changes[n].file \in given
    BY <2>2
  <2> QED
    BY <1>1, <2>3
<1>12. ~OnProfile(x) /\ ~WithMedia(x) /\ \A v \in Uploaders : ~Held(v, x)
  <2>1. ~OnProfile(x)
    BY <1>1 DEF FilesInv, FilesTables, FilesTypeOK, OnProfile
  <2>2. \A m \in media : m[1] # x
    BY <1>1 DEF FilesInv, FilesTables, FilesTypeOK
  <2>3. \A v \in Uploaders : \A m \in Involved(task[v]) : m[1] # x
    BY <1>1 DEF FilesInv, FilesTables
  <2>4. \A v \in Uploaders : ~Held(v, x)
    BY <1>1 DEF FilesInv, FilesTables, Held
  <2> QED
    BY <1>11, <2>1, <2>2, <2>3, <2>4 DEF WithMedia
<1>13. \A v \in Uploaders, f \in Uploads : Held(v, f)' <=> Held(v, f) \/ (v = u /\ f = x)
  <2>1. task[u].new = NoUpload
    BY <1>2, <1>4 DEF TaskOK
  <2> QED
    BY <1>1, <1>4, <1>6, <2>1 DEF Held
<1>14. \A n, f : Offered(n, f)' <=> Offered(n, f)
  BY <1>5 DEF Offered
<1>15. OnePlace'
  BY <1>5, <1>10, <1>11, <1>12, <1>13, <1>14 DEF FilesInv, OnePlace, Offered
<1>16. OneRow'
  BY <1>5, <1>9 DEF FilesInv, OneRow, Involved
<1>17. \A f \in Uploads, v \in Uploaders : Away(f, v) => Away(f, v)'
  BY <1>1, <1>4, <1>6 DEF Away, Replacing
<1>18. ThereOrAway'
  BY <1>5, <1>17 DEF FilesInv, ThereOrAway
<1> QED
  BY <1>8, <1>15, <1>16, <1>18 DEF FilesInv

(* What is left when a request ends: the others'.                           *)
LEMMA Closing ==
  ASSUME FilesInv, NEW u \in Uploaders, Closes(u), UNCHANGED given,
         DOMAIN changes \subseteq DOMAIN changes'
  PROVE  /\ task' \in [Uploaders -> Tasks]
         /\ \A v \in Uploaders : v # u => task'[v] = task[v]
         /\ \A v \in Uploaders :
              /\ TaskOK(task[v])'
              /\ {task'[v].old, task'[v].new} \subseteq given \union {NoUpload}
              /\ Involved(task'[v]) \subseteq Involved(task[v])
              /\ Involved(task'[v]) \subseteq given \X Uploaders
              /\ task'[v].old \in {task[v].old, NoUpload}
         /\ \A v \in Uploaders, f \in Uploads : Held(v, f)' => v # u /\ Held(v, f)
         /\ \A v \in Uploaders, f \in Uploads : v # u => (Away(f, v)' <=> Away(f, v))
<1>1. /\ task' \in [Uploaders -> Tasks] /\ task'[u] = NoTask
      /\ \A v \in Uploaders : v # u => task'[v] = task[v]
  BY NoTaskOK DEF Closes, FilesInv, FilesTables
<1>2. \A v \in Uploaders : TaskOK(task[v])'
  BY <1>1, NoTaskOK DEF FilesInv, FilesTables, TaskOK
<1>3. \A v \in Uploaders : {task'[v].old, task'[v].new} \subseteq given \union {NoUpload}
  BY <1>1, NoTaskOK DEF FilesInv, FilesTables
<1>4. \A v \in Uploaders : /\ Involved(task'[v]) \subseteq Involved(task[v])
                           /\ task'[v].old \in {task[v].old, NoUpload}
  BY <1>1, NoTaskOK
<1>5. \A v \in Uploaders : Involved(task[v]) \subseteq given \X Uploaders
  BY DEF FilesInv, FilesTables
<1>6. \A v \in Uploaders, f \in Uploads : Held(v, f)' => v # u /\ Held(v, f)
  BY <1>1, NoTaskOK DEF Held
<1>7. \A v \in Uploaders, f \in Uploads : v # u => (Away(f, v)' <=> Away(f, v))
  BY <1>1 DEF Away, Replacing
<1> QED
  BY <1>1, <1>2, <1>3, <1>4, <1>5, <1>6, <1>7

(* The new picture leaves the request for the profile; the old one, if it   *)
(* was destroyed, is shown no more.                                         *)
LEMMA PictureWritten == ASSUME FilesInv, NEW u \in Uploaders, WritePicture(u) PROVE FilesInv'
<1> DEFINE x == task[u].new
<1>1. UNCHANGED <<stored, given, media, offer, changes, lost, doubled>> /\ Closes(u)
  BY DEF WritePicture
<1>2. /\ picture' = IF x = NoUpload THEN picture ELSE x
      /\ x \in given \union {NoUpload} /\ given \subseteq Uploads
      /\ task[u].kind = "profile" /\ task[u].at = "write" /\ Involved(task[u]) = {}
  BY TaskType DEF WritePicture, Written, AtCall, TaskOK, FilesInv, FilesTables, FilesTypeOK
<1> HIDE DEF x
<1>3. FilesTables'
  <2>1. FilesTypeOK'
    BY <1>1, <1>2 DEF FilesInv, FilesTables, FilesTypeOK
  <2> QED
    BY <1>1, <2>1, Closing DEF FilesTables, Involved
<1>4. x # NoUpload => Held(u, x)
  BY DEF Held, x
<1>5. \A f \in Uploads : OnProfile(f)' => OnProfile(f) \/ (f = x /\ x # NoUpload)
  BY <1>1, <1>2, Closing DEF OnProfile
<1>6. \A f \in Uploads : WithMedia(f)' => WithMedia(f)
  BY <1>1, Closing DEF WithMedia, Involved
<1>7. \A n, f : Offered(n, f)' <=> Offered(n, f)
  BY <1>1 DEF Offered
<1>8. \A v \in Uploaders, f \in Uploads : Held(v, f)' => Held(v, f) /\ (x # NoUpload => f # x)
  BY <1>1, <1>4, Closing DEF FilesInv, OnePlace
<1>9. OnePlace'
  BY <1>1, <1>4, <1>5, <1>6, <1>7, <1>8 DEF FilesInv, OnePlace
<1>10. OneRow'
  BY <1>1, Closing DEF FilesInv, OneRow, Involved
<1>11. \A f \in Uploads : f = picture' \/ (\E m \in media' : m[1] = f) =>
         f \in stored \/ f \in lost \/ f \in doubled \/ \E v \in Uploaders \ {u} : Away(f, v)
  <2> SUFFICES ASSUME NEW f \in Uploads, f = picture' \/ \E m \in media' : m[1] = f,
                      f \notin stored, f \notin lost, f \notin doubled
               PROVE  \E v \in Uploaders \ {u} : Away(f, v)
    OBVIOUS
  <2>1. ~(x # NoUpload /\ f = x)
    BY <1>4 DEF FilesInv, OnePlace
  <2>2. f = picture \/ \E m \in media : m[1] = f
    BY <1>1, <1>2, <2>1
  <2>3. PICK v \in Uploaders : Away(f, v)
    BY <2>2 DEF FilesInv, ThereOrAway
  <2>4. v # u
    <3> SUFFICES ASSUME v = u PROVE FALSE
      OBVIOUS
    <3>1. x # NoUpload /\ task[u].old = f /\ f # NoUpload
      BY <1>2, <2>3, FilesAssumption DEF Away, Replacing, Involved, x
    <3>2. OnProfile(f)
      BY <3>1 DEF OnProfile
    <3>3. f = picture' => f = x
      BY <1>2, <3>1
    <3>4. \E m \in media : m[1] = f
      BY <1>1, <2>1, <3>1, <3>3
    <3>5. WithMedia(f)
      BY <3>4 DEF WithMedia
    <3> QED
      BY <3>2, <3>5 DEF FilesInv, OnePlace
  <2> QED
    BY <2>3, <2>4
<1>12. ThereOrAway'
  BY <1>1, <1>11, Closing DEF ThereOrAway
<1> QED
  BY <1>3, <1>9, <1>10, <1>12 DEF FilesInv

(* The sub-service takes all its media with it.                             *)
LEMMA RowDeleted == ASSUME FilesInv, NEW u \in Uploaders, DeleteSubServiceRow(u) PROVE FilesInv'
<1>1. UNCHANGED <<stored, given, picture, changes, lost, doubled>> /\ Closes(u) /\ media' = {}
      /\ offer' = "NONE"
  BY DEF DeleteSubServiceRow
<1>2. FilesTables'
  <2>1. FilesTypeOK'
    BY <1>1 DEF FilesInv, FilesTables, FilesTypeOK
  <2> QED
    BY <1>1, <2>1, Closing DEF FilesTables, Involved
<1>3. \A f \in Uploads : (OnProfile(f)' => OnProfile(f)) /\ (WithMedia(f)' => WithMedia(f))
  BY <1>1, Closing DEF OnProfile, WithMedia, Involved
<1>4. \A n, f : Offered(n, f)' <=> Offered(n, f)
  BY <1>1 DEF Offered
<1>5. OnePlace'
  BY <1>1, <1>3, <1>4, Closing DEF FilesInv, OnePlace
<1>6. OneRow'
  BY <1>1 DEF OneRow
<1>7. ThereOrAway'
  <2> SUFFICES ASSUME picture \in Uploads
               PROVE  picture \in stored \/ picture \in lost \/ picture \in doubled
                      \/ \E v \in Uploaders : Away(picture, v)'
    BY <1>1 DEF ThereOrAway
  <2>1. ~Away(picture, u)
    <3>1. picture # NoUpload /\ OnProfile(picture)
      BY FilesAssumption DEF OnProfile
    <3>2. ~WithMedia(picture)
      BY <3>1 DEF FilesInv, OnePlace
    <3>3. \A m \in task[u].remove : m[1] # picture
      BY <3>2 DEF WithMedia, Involved
    <3>4. ~Replacing(task[u])
      BY DEF DeleteSubServiceRow, AtCall, Replacing
    <3> QED
      BY <3>3, <3>4 DEF Away
  <2> QED
    BY <1>1, <2>1, Closing DEF FilesInv, ThereOrAway
<1> QED
  BY <1>2, <1>5, <1>6, <1>7 DEF FilesInv

(* One row of a destroyed file goes; another row of it would be doubled.    *)
LEMMA MediaRemoved ==
  ASSUME FilesInv, NEW u \in Uploaders, NEW m \in task[u].remove, RemoveMedia(u, m)
  PROVE  FilesInv'
<1>1. task[u] \in Tasks /\ TaskOK(task[u]) /\ task \in [Uploaders -> Tasks]
  BY TaskType DEF FilesInv, FilesTables
<1>2. UNCHANGED <<stored, given, picture, offer, changes, lost, doubled>> /\ media' = media \ {m}
  BY DEF RemoveMedia
<1>3. PICK adds \in BOOLEAN : task' = [task EXCEPT ![u].remove = @ \ {m}, ![u].adds = adds]
  BY <1>1 DEF RemoveMedia, Tasks
<1>4. PICK j : j = [task[u] EXCEPT !.remove = @ \ {m}, !.adds = adds]
  OBVIOUS
<1>5. /\ j \in Tasks /\ j.kind = task[u].kind /\ j.at = task[u].at /\ j.old = task[u].old
      /\ j.new = task[u].new /\ j.destroy = task[u].destroy /\ j.remove = task[u].remove \ {m}
      /\ j.req = task[u].req /\ task[u].kind = "media"
  BY <1>1, <1>4 DEF Tasks, RemoveMedia, AtCall
<1>6. task' = [task EXCEPT ![u] = j]
  BY <1>1, <1>3, <1>4
<1>7. /\ task' \in [Uploaders -> Tasks] /\ task'[u] = j
      /\ \A v \in Uploaders : v # u => task'[v] = task[v]
  BY <1>1, <1>5, <1>6
<1>8. /\ TaskOK(j) /\ Involved(j) \subseteq Involved(task[u])
  BY <1>1, <1>5 DEF TaskOK, Involved
<1>9. \A v \in Uploaders : /\ task'[v].old = task[v].old /\ task'[v].new = task[v].new
                           /\ Involved(task'[v]) \subseteq Involved(task[v])
  BY <1>5, <1>7, <1>8
<1>10. FilesTables'
  <2>1. FilesTypeOK'
    BY <1>2 DEF FilesInv, FilesTables, FilesTypeOK
  <2>2. \A v \in Uploaders : TaskOK(task[v])'
    BY <1>2, <1>7, <1>8 DEF FilesInv, FilesTables, TaskOK
  <2>3. \A v \in Uploaders : Involved(task'[v]) \subseteq given \X Uploaders
    BY <1>9 DEF FilesInv, FilesTables
  <2> QED
    BY <1>2, <1>7, <1>9, <2>1, <2>2, <2>3 DEF FilesInv, FilesTables, Involved
<1>11. \A f \in Uploads : (OnProfile(f)' => OnProfile(f)) /\ (WithMedia(f)' => WithMedia(f))
  BY <1>2, <1>9 DEF OnProfile, WithMedia, Involved
<1>12. \A v \in Uploaders, f \in Uploads : Held(v, f)' => Held(v, f)
  BY <1>9 DEF Held
<1>13. \A n, f : Offered(n, f)' <=> Offered(n, f)
  BY <1>2 DEF Offered
<1>14. OnePlace'
  BY <1>2, <1>11, <1>12, <1>13 DEF FilesInv, OnePlace
<1>15. OneRow'
  BY <1>2, <1>9 DEF FilesInv, OneRow, Involved
<1>16. ASSUME NEW f \in Uploads, f = picture \/ \E k \in media : k # m /\ k[1] = f,
              NEW v \in Uploaders, Away(f, v), f \notin doubled
       PROVE  Away(f, v)'
  <2>1. f # m[1]
    <3>1. m \in Involved(task[u]) /\ WithMedia(m[1])
      BY DEF Involved, WithMedia
    <3>2. f # picture \/ f # m[1]
      BY <3>1, FilesAssumption DEF FilesInv, OnePlace, OnProfile
    <3>3. ASSUME NEW k \in media, k # m, k[1] = m[1] PROVE m[1] \in doubled
      BY <3>1, <3>3 DEF FilesInv, OneRow
    <3> QED
      BY <1>16, <3>2, <3>3
  <2>2. CASE v = u
    BY <1>5, <1>7, <1>16, <2>1, <2>2 DEF Away, Replacing
  <2>3. CASE v # u
    BY <1>7, <1>16, <2>3 DEF Away, Replacing
  <2> QED
    BY <2>2, <2>3
<1>17. ThereOrAway'
  <2> SUFFICES ASSUME NEW f \in Uploads, f = picture \/ \E k \in media \ {m} : k[1] = f,
                      f \notin stored, f \notin lost, f \notin doubled
               PROVE  \E v \in Uploaders : Away(f, v)'
    BY <1>2 DEF ThereOrAway
  <2>1. PICK v \in Uploaders : Away(f, v)
    BY DEF FilesInv, ThereOrAway
  <2> QED
    BY <1>16, <2>1
<1> QED
  BY <1>10, <1>14, <1>15, <1>17 DEF FilesInv

(* The uploaded file leaves the request for a row, its first.               *)
LEMMA MediaAdded == ASSUME FilesInv, NEW u \in Uploaders, AddMedia(u) PROVE FilesInv'
<1>1. PICK x : x = task[u].new
  OBVIOUS
<1>2. /\ UNCHANGED <<stored, given, picture, offer, changes, lost, doubled>> /\ Closes(u)
      /\ media' = media \union {<<x, u>>} /\ offer # "NONE"
  BY <1>1 DEF AddMedia
<1>3. /\ x \in given /\ x \in Uploads /\ x # NoUpload /\ Held(u, x) /\ x \in stored
      /\ task[u].old = NoUpload /\ Involved(task[u]) = {}
  <2>1. task[u].kind = "media" /\ task[u].at = "write"
    BY DEF AddMedia, AtCall
  <2>2. x # NoUpload /\ task[u].old = NoUpload /\ Involved(task[u]) = {}
    BY <1>1, <2>1, TaskType DEF TaskOK
  <2>3. x \in given /\ x \in Uploads
    BY <1>1, <2>2 DEF FilesInv, FilesTables, FilesTypeOK
  <2>4. Held(u, x)
    BY <1>1, <2>2 DEF Held
  <2> QED
    BY <2>2, <2>3, <2>4 DEF FilesInv, OnePlace
<1>4. FilesTables'
  <2>1. FilesTypeOK'
    BY <1>2, <1>3 DEF FilesInv, FilesTables, FilesTypeOK
  <2> QED
    BY <1>2, <2>1, Closing DEF FilesTables, Involved
<1>5. \A f \in Uploads : (OnProfile(f)' => OnProfile(f)) /\ (WithMedia(f)' => WithMedia(f) \/ f = x)
  BY <1>2, Closing DEF OnProfile, WithMedia, Involved
<1>6. \A v \in Uploaders, f \in Uploads : Held(v, f)' => Held(v, f) /\ f # x
  BY <1>2, <1>3, Closing DEF FilesInv, OnePlace
<1>7. \A n, f : Offered(n, f)' <=> Offered(n, f)
  BY <1>2 DEF Offered
<1>8. OnePlace'
  BY <1>2, <1>3, <1>5, <1>6, <1>7 DEF FilesInv, OnePlace
<1>9. OneRow'
  <2>1. ~WithMedia(x)
    BY <1>3 DEF FilesInv, OnePlace
  <2>2. /\ \A k \in media : k[1] # x
        /\ \A v \in Uploaders : \A k \in Involved(task'[v]) : k[1] # x
    BY <1>2, <2>1, Closing DEF WithMedia, Involved
  <2> QED
    BY <1>2, <2>2, Closing DEF FilesInv, OneRow, Involved
<1>10. ThereOrAway'
  <2>1. \A f \in Uploads : ~Away(f, u)
    BY <1>3, FilesAssumption DEF Away, Involved
  <2> QED
    BY <1>2, <1>3, <2>1, Closing DEF FilesInv, ThereOrAway
<1> QED
  BY <1>4, <1>8, <1>9, <1>10 DEF FilesInv

(* The uploaded file leaves the request for an undecided change.            *)
LEMMA MediaSubmitted == ASSUME FilesInv, NEW u \in Uploaders, SubmitMedia(u) PROVE FilesInv'
<1>1. PICK x, r : x = task[u].new /\ r = [file |-> x, pending |-> TRUE]
  OBVIOUS
<1>2. /\ UNCHANGED <<stored, given, picture, media, lost, doubled>> /\ Closes(u)
      /\ offer' = "PENDING_APPROVAL" /\ offer # "NONE" /\ changes' = Append(changes, r)
  BY <1>1 DEF SubmitMedia
<1>3. /\ x \in given /\ x \in Uploads /\ x # NoUpload /\ Held(u, x) /\ x \in stored
      /\ task[u].old = NoUpload /\ Involved(task[u]) = {}
  <2>1. task[u].kind = "update" /\ task[u].at = "write"
    BY DEF SubmitMedia, AtCall
  <2>2. x # NoUpload /\ task[u].old = NoUpload /\ Involved(task[u]) = {}
    BY <1>1, <2>1, TaskType DEF TaskOK
  <2>3. x \in given /\ x \in Uploads
    BY <1>1, <2>2 DEF FilesInv, FilesTables, FilesTypeOK
  <2>4. Held(u, x)
    BY <1>1, <2>2 DEF Held
  <2> QED
    BY <2>2, <2>3, <2>4 DEF FilesInv, OnePlace
<1>4. changes \in Seq([file : given, pending : BOOLEAN]) /\ r \in [file : given, pending : BOOLEAN]
  BY <1>1, <1>3 DEF FilesInv, FilesTables, FilesTypeOK
<1>5. PICK n \in Nat : n = Len(changes) + 1
  BY <1>4, LenProperties
<1>6. /\ changes' \in Seq([file : given, pending : BOOLEAN])
      /\ DOMAIN changes = 1 .. (n - 1) /\ DOMAIN changes' = 1 .. n
      /\ \A i \in DOMAIN changes : changes'[i] = changes[i]
      /\ changes'[n].file = x /\ changes'[n].pending
  BY <1>1, <1>2, <1>4, <1>5, LenProperties, AppendProperties
<1>7. DOMAIN changes \subseteq DOMAIN changes' /\ n \notin DOMAIN changes
      /\ \A i \in DOMAIN changes' : i \in DOMAIN changes \/ i = n
  BY <1>6
<1>8. FilesTables'
  <2>1. FilesTypeOK'
    BY <1>2, <1>6 DEF FilesInv, FilesTables, FilesTypeOK
  <2> QED
    BY <1>2, <1>7, <2>1, Closing DEF FilesTables, Involved
<1>9. \A f \in Uploads : (OnProfile(f)' => OnProfile(f)) /\ (WithMedia(f)' => WithMedia(f))
  <2>1. \A f \in Uploads : OnProfile(f)' => OnProfile(f)
    BY <1>2, <1>7, Closing DEF OnProfile
  <2>2. \A i \in DOMAIN changes' : ~changes'[i].pending => i \in DOMAIN changes /\ changes'[i] = changes[i]
    BY <1>6, <1>7
  <2>3. \A f \in Uploads : WithMedia(f)' => WithMedia(f)
    BY <1>2, <1>7, <2>2, Closing DEF WithMedia, Involved
  <2> QED
    BY <2>1, <2>3
<1>10. \A v \in Uploaders, f \in Uploads : Held(v, f)' => Held(v, f) /\ f # x
  BY <1>2, <1>3, <1>7, Closing DEF FilesInv, OnePlace
<1>11. \A i \in DOMAIN changes' : \A f : Offered(i, f)' =>
         (i = n /\ f = x) \/ (i \in DOMAIN changes /\ Offered(i, f))
  BY <1>6, <1>7 DEF Offered
<1>12. \A i \in DOMAIN changes : ~Offered(i, x)
  BY <1>3 DEF FilesInv, OnePlace
<1>13. OnePlace'
  BY <1>2, <1>3, <1>9, <1>10, <1>11, <1>12 DEF FilesInv, OnePlace
<1>14. OneRow'
  BY <1>2, <1>7, Closing DEF FilesInv, OneRow, Involved
<1>15. ThereOrAway'
  <2>1. \A f \in Uploads : ~Away(f, u)
    BY <1>3, FilesAssumption DEF Away, Involved
  <2> QED
    BY <1>2, <1>3, <1>7, <2>1, Closing DEF FilesInv, ThereOrAway
<1> QED
  BY <1>8, <1>13, <1>14, <1>15 DEF FilesInv

(* A file on offer becomes a row, its first unless the change was decided   *)
(* before.                                                                  *)
LEMMA MediaDecided ==
  ASSUME FilesInv, NEW u \in Uploaders, NEW accepted \in BOOLEAN, DecideMedia(u, accepted)
  PROVE  FilesInv'
<1>1. task[u].kind = "review" /\ task[u].old = NoUpload /\ Involved(task[u]) = {}
      /\ task[u].req \in DOMAIN changes
  BY TaskType DEF DecideMedia, AtCall, TaskOK
<1>2. PICK n, x, r :
        /\ n = task[u].req /\ n \in DOMAIN changes
        /\ x = changes[n].file /\ r = [changes[n] EXCEPT !.pending = FALSE]
  BY <1>1
<1>3. /\ UNCHANGED <<stored, given, picture, lost>> /\ Closes(u)
      /\ offer' \in {"ACTIVE", "REJECTED"} /\ offer # "NONE"
      /\ media' \subseteq media \union {<<x, u>>}
      /\ changes' = [changes EXCEPT ![n] = r]
      /\ doubled' = IF changes[n].pending THEN doubled ELSE doubled \union {x}
  BY <1>2 DEF DecideMedia, Undecided
<1>4. changes \in Seq([file : given, pending : BOOLEAN])
  BY DEF FilesInv, FilesTables, FilesTypeOK
<1>5. changes[n] \in [file : given, pending : BOOLEAN] /\ n \in 1 .. Len(changes)
  <2>1. n \in DOMAIN changes
    BY <1>2
  <2>2. n \in 1 .. Len(changes)
    BY <1>4, <2>1, LenProperties
  <2> QED
    BY <1>4, <2>2, ElementOfSeq
<1>6. r \in [file : given, pending : BOOLEAN] /\ r.file = x /\ ~r.pending
      /\ x \in given /\ x \in Uploads
  BY <1>2, <1>5 DEF FilesInv, FilesTables, FilesTypeOK
<1>7. /\ changes' \in Seq([file : given, pending : BOOLEAN]) /\ DOMAIN changes' = DOMAIN changes
      /\ changes'[n] = r /\ \A k \in DOMAIN changes : k # n => changes'[k] = changes[k]
  <2>1. changes' \in Seq([file : given, pending : BOOLEAN])
    BY <1>3, <1>4, <1>5, <1>6, ExceptSeq
  <2> QED
    BY <1>3, <2>1
<1>8. FilesTables'
  <2>1. FilesTypeOK'
    BY <1>3, <1>6, <1>7 DEF FilesInv, FilesTables, FilesTypeOK
  <2> QED
    BY <1>3, <1>7, <2>1, Closing DEF FilesTables, Involved
<1>9. ~OnProfile(x) /\ \A v \in Uploaders : ~Held(v, x)
  <2>1. Offered(n, x) \/ WithMedia(x)
    BY <1>2 DEF Offered, WithMedia
  <2> QED
    BY <1>2, <1>6, <2>1 DEF FilesInv, OnePlace
<1>10. \A k \in DOMAIN changes, f \in Uploads :
         Offered(k, f)' => k # n /\ Offered(k, f) /\ f # x
  <2>1. ASSUME NEW k \in DOMAIN changes, NEW f \in Uploads, Offered(k, f)' 
        PROVE  k # n /\ Offered(k, f)
    BY <1>6, <1>7, <2>1 DEF Offered
  <2>2. Offered(n, x) \/ WithMedia(x)
    BY <1>2 DEF Offered, WithMedia
  <2> QED
    BY <1>2, <1>6, <2>1, <2>2 DEF FilesInv, OnePlace
<1>11. \A f \in Uploads : (OnProfile(f)' => OnProfile(f)) /\ (WithMedia(f)' => WithMedia(f) \/ f = x)
  <2>1. \A f \in Uploads : OnProfile(f)' => OnProfile(f)
    BY <1>3, <1>7, Closing DEF OnProfile
  <2>2. \A f \in Uploads : WithMedia(f)' => WithMedia(f) \/ f = x
    BY <1>3, <1>6, <1>7, Closing DEF WithMedia, Involved
  <2> QED
    BY <2>1, <2>2
<1>12. OnePlace'
  BY <1>3, <1>7, <1>9, <1>10, <1>11, Closing DEF FilesInv, OnePlace
<1>13. OneRow'
  <2>1. x \in doubled' \/ ~WithMedia(x)
    BY <1>2, <1>3, <1>6 DEF FilesInv, OnePlace, Offered
  <2>2. CASE x \in doubled'
    BY <1>3, <1>7, <2>2, Closing DEF FilesInv, OneRow, Involved
  <2>3. CASE ~WithMedia(x)
    <3>1. /\ \A k \in media : k[1] # x
          /\ \A v \in Uploaders : \A k \in Involved(task'[v]) : k[1] # x
      BY <1>3, <1>7, <2>3, Closing DEF WithMedia, Involved
    <3> QED
      BY <1>3, <1>7, <3>1, Closing DEF FilesInv, OneRow, Involved
  <2> QED
    BY <2>1, <2>2, <2>3
<1>14. ThereOrAway'
  <2>1. \A f \in Uploads : ~Away(f, u)
    BY <1>1, FilesAssumption DEF Away, Involved
  <2>2. x \in stored \/ x \in doubled'
    BY <1>2, <1>3, <1>6 DEF FilesInv, OnePlace, Offered
  <2>3. \A f \in Uploads : f = picture' \/ (\E m \in media' : m[1] = f) =>
          f = x \/ f = picture \/ \E m \in media : m[1] = f
    BY <1>3
  <2> QED
    BY <1>3, <1>7, <2>1, <2>2, <2>3, Closing DEF FilesInv, ThereOrAway
<1> QED
  BY <1>8, <1>12, <1>13, <1>14 DEF FilesInv

-----------------------------------------------------------------------------
LEMMA FilesKeep == FilesInv /\ [FilesNext]_fileVars => FilesInv'
<1> SUFFICES ASSUME FilesInv, [FilesNext]_fileVars PROVE FilesInv'
  OBVIOUS
<1>1. CASE UNCHANGED fileVars
  BY <1>1 DEF fileVars, fileRows, FilesInv, FilesTables, FilesTypeOK, OnePlace, OneRow, ThereOrAway,
              OnProfile, WithMedia, Held, Offered, Away, Replacing, TaskOK, Involved
<1>2. CASE FilesNext
  BY <1>2, Starts, Destroys, Ends, Uploaded, PictureWritten, RowDeleted, MediaRemoved, MediaAdded,
     MediaSubmitted, MediaDecided DEF FilesNext
<1> QED
  BY <1>1, <1>2

LEMMA FilesInvariance == ProviderSideSpec => []FilesInv
<1>1. ProviderSideInit => FilesInv
  BY FilesStart DEF ProviderSideInit
<1>2. [ProviderSideNext]_sideVars => [FilesNext]_fileVars
  BY DEF ProviderSideNext, sideVars
<1> QED
  BY <1>1, <1>2, FilesKeep, PTL DEF ProviderSideSpec

(* Every row keeps the shape of its table, through every review, update and *)
(* deletion; no sub-service outlives its service, and no media outlives its *)
(* sub-service.                                                             *)
THEOREM ProviderSideTypes == ProviderSideSpec => []ProviderSideTypeOK
<1>1. CatalogueInv /\ FilesInv => ProviderSideTypeOK
  BY DEF CatalogueInv, FilesInv, FilesTables, ProviderSideTypeOK
<1> QED
  BY <1>1, Invariance, FilesInvariance, PTL

(* A file that is shown is at Cloudinary, whatever requests are under way;  *)
(* the exceptions are a request that failed between the two and an update   *)
(* that was decided twice.                                                  *)
THEOREM ShownFilesAreThere == ProviderSideSpec => []FilesAreThere
BY ThereSuffices, FilesInvariance, PTL
=============================================================================
