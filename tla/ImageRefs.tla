------------------------------ MODULE ImageRefs ------------------------------
(* service/image_ref_river_service: which image is used where, derived     *)
(* from row events of four tables.  A row event replaces the references of *)
(* its owner by three statements outside a transaction; ImageRemoveView    *)
(* deletes images and their references in one.  No position is saved: each *)
(* start of the process dumps the tables again.                            *)
EXTENDS Naturals, Sequences, FiniteSets, SequencesExt

CONSTANTS
  Articles, Others,  \* rows of article_models, of the user, banner and favorite tables
  Keys,              \* object keys under the prefix of the configuration
  Foreign,           \* a URL that names no such key
  Contents,          \* the image URLs of an article's text, in order
  None,
  MaxImages,         \* bound: images ever confirmed
  MaxWrites,         \* bound: writes of rows
  MaxStops           \* bound: crashes, failed statements

VARIABLES
  rows,       \* the four tables: [deleted, content, cover]
  images,     \* image_models: id -> object key
  lastID,     \* ids given to images
  refs,       \* image_ref_models
  canal,      \* "on", "off"
  feed,       \* row events the canal has not handed out
  job,        \* the rebuild under way
  removing,   \* images that ImageRemoveView has found
  late,       \* history: owners one of whose images was confirmed after the rebuild
  writes, stops

refVars == <<rows, images, lastID, refs, canal, feed, job, removing, late, writes, stops>>

Owners == Articles \cup Others
Urls   == Keys \cup {Foreign}
Row(o) == [deleted : BOOLEAN,
           content : IF o \in Articles THEN Contents ELSE {<<>>},
           cover   : Urls \cup {None}]

(***************************************************************************)
(* What a row refers to: the pictures of the text, numbered, and the cover *)
(* (or the avatar).  URLs of other sites name no key.                      *)
(***************************************************************************)
ParseCandidates(row) ==
  {[field |-> "content", position |-> n, url |-> row.content[n]] : n \in DOMAIN row.content}
  \cup {[field |-> "cover", position |-> 0, url |-> u] : u \in {row.cover} \ {None}}

ObjectKeys(row) == {c.url : c \in ParseCandidates(row)} \ {Foreign}

RefsTo(o, row, found) ==           \* found: the images of the SELECT
  {[image |-> p[1], owner |-> o, field |-> p[2].field, position |-> p[2].position] :
     p \in {q \in (DOMAIN found) \X ParseCandidates(row) : found[q[1]] = q[2].url}}

(* Mutant: a changed cover alone is not noticed.                           *)
RebuildOnContentOnly(before, after) ==
  \/ before.deleted # after.deleted
  \/ ~after.deleted /\ before.content # after.content

ShouldRebuildOnUpdate(before, after) ==
  \/ before.deleted # after.deleted
  \/ ~after.deleted /\ (before.content # after.content \/ before.cover # after.cover)

NoJob == [at |-> "idle"]

Init ==
  /\ rows = [o \in Owners |-> None] /\ images = <<>> /\ lastID = 0 /\ refs = {}
  /\ canal = "off" /\ feed = <<>> /\ job = NoJob /\ removing = {}
  /\ late = {} /\ writes = 0 /\ stops = 0

(***************************************************************************)
(* The tables.  Every handler of the program deletes softly, a write of    *)
(* deleted; a row that disappears was taken out by hand.                   *)
(***************************************************************************)
Heard(e) == feed' = IF canal = "on" THEN Append(feed, e) ELSE feed

Write(o, row) ==
  /\ writes < MaxWrites /\ writes' = writes + 1
  /\ rows[o] # row /\ (rows[o] = None => ~row.deleted)
  /\ rows' = [rows EXCEPT ![o] = row]
  /\ Heard([owner |-> o, before |-> rows[o], after |-> row])
  /\ UNCHANGED <<images, lastID, refs, canal, job, removing, late, stops>>

Drop(o) ==
  /\ writes < MaxWrites /\ writes' = writes + 1
  /\ rows[o] # None
  /\ rows' = [rows EXCEPT ![o] = None]
  /\ Heard([owner |-> o, before |-> rows[o], after |-> None])
  /\ UNCHANGED <<images, lastID, refs, canal, job, removing, late, stops>>

(***************************************************************************)
(* Images are confirmed (ImageUpload) and removed.  Between its SELECT and *)
(* its transaction a removal deletes the objects of the images.            *)
(***************************************************************************)
Live == {o \in Owners : rows[o] # None}

Confirm(k) ==
  /\ lastID < MaxImages /\ \A i \in DOMAIN images : images[i] # k
  /\ lastID' = lastID + 1
  /\ images' = [i \in (DOMAIN images) \cup {lastID + 1} |-> IF i \in DOMAIN images THEN images[i] ELSE k]
  /\ late' = late \cup {o \in Live : k \in ObjectKeys(rows[o])}
  /\ UNCHANGED <<rows, refs, canal, feed, job, removing, writes, stops>>

RemoveFind(list) ==
  /\ removing = {} /\ list # {} /\ list \subseteq DOMAIN images
  /\ removing' = list
  /\ UNCHANGED <<rows, images, lastID, refs, canal, feed, job, late, writes, stops>>

RemoveFails ==                     \* an object, or the transaction
  /\ removing # {} /\ removing' = {}
  /\ stops < MaxStops /\ stops' = stops + 1
  /\ UNCHANGED <<rows, images, lastID, refs, canal, feed, job, late, writes>>

RemoveImages ==
  /\ removing # {} /\ removing' = {}
  /\ refs' = {r \in refs : r.image \notin removing}
  /\ images' = [i \in (DOMAIN images) \ removing |-> images[i]]
  /\ UNCHANGED <<rows, lastID, canal, feed, job, late, writes, stops>>

(***************************************************************************)
(* The canal.                                                              *)
(***************************************************************************)
Start ==                           \* a new process: NewRiver, Run; the dump, as inserts
  /\ canal = "off" /\ canal' = "on" /\ removing' = {}
  /\ \E order \in SetToSeqs(Live) :
       feed' = [n \in DOMAIN order |-> [owner |-> order[n], before |-> None, after |-> rows[order[n]]]]
  /\ UNCHANGED <<rows, images, lastID, refs, job, late, writes, stops>>

Stop ==                            \* a crash, or a statement of OnRow that fails
  /\ canal = "on" /\ canal' = "off" /\ feed' = <<>> /\ job' = NoJob
  /\ stops < MaxStops /\ stops' = stops + 1
  /\ UNCHANGED <<rows, images, lastID, refs, removing, late, writes>>

OwnRefs(o) == {r \in refs : r.owner = o}

Ignored(e) == e.before # None /\ e.after # None /\ ~ShouldRebuildOnUpdate(e.before, e.after)
Emptied(e) == e.after = None \/ (e.after # None /\ (e.after.deleted \/ ObjectKeys(e.after) = {}))

OnRow ==                           \* up to the DELETE of the owner's references
  /\ canal = "on" /\ job = NoJob /\ feed # <<>>
  /\ feed' = Tail(feed)
  /\ LET e == Head(feed) IN
       \/ Ignored(e) /\ UNCHANGED <<refs, job>>
       \/ /\ ~Ignored(e)
          /\ refs' = refs \ OwnRefs(e.owner)
          /\ job' = IF Emptied(e) THEN NoJob ELSE [at |-> "select", owner |-> e.owner, row |-> e.after]
  /\ UNCHANGED <<rows, images, lastID, canal, removing, late, writes, stops>>

ReplaceSelect ==
  /\ job.at = "select"
  /\ LET found == [i \in {j \in DOMAIN images : images[j] \in ObjectKeys(job.row)} |-> images[i]]
     IN job' = IF found = <<>> THEN NoJob
               ELSE [at |-> "create", owner |-> job.owner, row |-> job.row, found |-> found]
  /\ late' = late \ {job.owner}
  /\ UNCHANGED <<rows, images, lastID, refs, canal, feed, removing, writes, stops>>

ReplaceCreate ==
  /\ job.at = "create"
  /\ refs' = refs \cup RefsTo(job.owner, job.row, job.found)
  /\ job' = NoJob
  /\ UNCHANGED <<rows, images, lastID, canal, feed, removing, late, writes, stops>>

Next ==
  \/ \E o \in Owners : \E row \in Row(o) : Write(o, row)
  \/ \E o \in Owners : Drop(o)
  \/ \E k \in Keys : Confirm(k)
  \/ \E list \in SUBSET DOMAIN images : RemoveFind(list)
  \/ RemoveFails \/ RemoveImages
  \/ Start \/ Stop \/ OnRow \/ ReplaceSelect \/ ReplaceCreate

-----------------------------------------------------------------------------
TypeOK ==
  /\ \A o \in Owners : rows[o] \in Row(o) \cup {None}
  /\ DOMAIN images \subseteq 1 .. lastID /\ lastID \in 0 .. MaxImages
  /\ \A i \in DOMAIN images : images[i] \in Keys
  /\ \A r \in refs : r.image \in 1 .. lastID /\ r.owner \in Owners
  /\ canal \in {"on", "off"} /\ job.at \in {"idle", "select", "create"}
  /\ removing \subseteq 1 .. lastID /\ late \subseteq Owners

Quiet == canal = "on" /\ job = NoJob /\ feed = <<>>

(* Once the events are worked off, the references of a row are those of    *)
(* its latest version to the images there are, whatever writes, crashes,   *)
(* failed statements and restarts came between.  Left out are rows that    *)
(* mention an image before it is confirmed: nobody rebuilds them then.     *)
RefsFollowRows ==
  Quiet => \A o \in Live \ late :
    {r \in OwnRefs(o) : r.image \in DOMAIN images}
      = IF rows[o].deleted THEN {} ELSE RefsTo(o, rows[o], images)
=============================================================================
