------------------------------- MODULE Exclusions -------------------------------
(***************************************************************************)
(* How a tag that the user puts on a movie or a series keeps its torrent   *)
(* from being deleted.  The *arr poller (internal/pollers/arr_poller.go)   *)
(* copies each instance's media with their tags, their files and the       *)
(* imports into three tables, in as many steps, each of which may fail.    *)
(* The scorer joins the three from the torrent's hash back to the tags and *)
(* compares them with tags_exclude (evaluateExclusions).  Rows of what an  *)
(* *arr no longer has stay.                                                *)
(*                                                                         *)
(* The pages of the history are in Imports; here a sync is one step.       *)
(***************************************************************************)
EXTENDS Naturals, Sequences, FiniteSetsExt, SequencesExt

CONSTANTS Hashes,        \* the torrents
          Types,         \* the instances, in the order of the tick
          Ids,           \* of media; two instances may use the same
          Tags,          \* that a medium may have
          TagsExclude,   \* of the configuration, by instance
          TorrentTags, QbitExclude,   \* tags of the torrents; tags_exclude of the client
          Fold,          \* a tag without its case
          MaxEdits       \* bound on what users and imports change in the *arrs

VARIABLES
  \* the *arrs: tags by medium <<type, id>>; the media of the files there are, by
  \* <<type, file>>; per type the imports, [media, hash], whose number is also the
  \* number of the file
  library, onDisk, history, edits,
  media, mediaFiles, imports,      \* the tables, by the same keys
  pc, inst, items, todo,           \* the tick: where it is and in which instance
  spc, linked, hpc, hash, linkedOne,  \* a pass; a rescore of one torrent
  verdicts,                        \* exclusion_reasons, by hash
  \* history: no step of this tick has failed and nothing was edited since it
  \* began; nothing was edited since such a tick ended; what a pass, a rescore and
  \* a verdict have read was read then
  clean, settled, passFresh, oneFresh, fresh

arrs == <<library, onDisk, history, edits>>
tables == <<media, mediaFiles, imports>>
tick == <<pc, inst, items, todo>>
pass == <<spc, linked, passFresh>>
rescore == <<hpc, hash, linkedOne, oneFresh>>
verdict == <<verdicts, fresh>>
vars == <<arrs, tables, tick, pass, rescore, verdict, clean, settled>>

Media == ToSet(Types) \X Ids

\* An upsert: rows over others by the same keys.
Over(new, old) ==
  [k \in DOMAIN new \cup DOMAIN old |-> IF k \in DOMAIN new THEN new[k] ELSE old[k]]

NoHash == CHOOSE h \in Hashes : TRUE   \* between two rescores

Init ==
  /\ \E tags \in SUBSET Tags : library = [m \in Media |-> tags]
  /\ onDisk = <<>> /\ edits = 0
  /\ history = [t \in ToSet(Types) |-> <<>>]
  /\ media = <<>> /\ mediaFiles = <<>> /\ imports = <<>>
  /\ pc = "idle" /\ inst = 0 /\ items = <<>> /\ todo = {}
  /\ spc = "idle" /\ linked = <<>> /\ passFresh = FALSE
  /\ hpc = "idle" /\ hash = NoHash /\ linkedOne = {} /\ oneFresh = FALSE
  /\ verdicts = [h \in Hashes |-> {}] /\ fresh = [h \in Hashes |-> FALSE]
  /\ clean = FALSE /\ settled = FALSE
-----------------------------------------------------------------------------
\* What happens in the *arrs.
Edit ==
  /\ edits < MaxEdits /\ edits' = edits + 1
  /\ clean' = FALSE /\ settled' = FALSE /\ passFresh' = FALSE /\ oneFresh' = FALSE
  /\ fresh' = [h \in Hashes |-> FALSE]
  /\ UNCHANGED <<tables, tick, spc, linked, hpc, hash, linkedOne, verdicts>>

SetTags(m) ==
  /\ Edit /\ m \in DOMAIN library
  /\ \E tags \in SUBSET Tags : tags # library[m] /\ library' = [library EXCEPT ![m] = tags]
  /\ UNCHANGED <<onDisk, history>>

\* The file of a torrent takes the place of the one the medium had.
Import(m, h) ==
  /\ Edit /\ m \in DOMAIN library
  /\ history' = [history EXCEPT ![m[1]] = Append(@, [media |-> m[2], hash |-> h])]
  /\ LET others == {f \in DOMAIN onDisk : f[1] # m[1] \/ onDisk[f] # m[2]}
         its == {<<m[1], Len(history[m[1]]) + 1>>}
     IN  onDisk' = [f \in its \cup others |-> IF f \in its THEN m[2] ELSE onDisk[f]]
  /\ UNCHANGED library

Delete(m) ==
  /\ Edit /\ m \in DOMAIN library
  /\ library' = [n \in DOMAIN library \ {m} |-> library[n]]
  /\ LET others == {f \in DOMAIN onDisk : f[1] # m[1] \/ onDisk[f] # m[2]}
     IN  onDisk' = [f \in others |-> onDisk[f]]
  /\ UNCHANGED history
-----------------------------------------------------------------------------
world == <<arrs, pass, rescore, verdict>>

Begin ==
  /\ pc = "idle"
  /\ pc' = "list" /\ inst' = 1 /\ clean' = TRUE
  /\ UNCHANGED <<items, todo, tables, world, settled>>

\* pollOne returns and tick goes on with the next instance; at the last one the
\* tick ends, whatever has failed.
EndInstance(ok) ==
  /\ items' = <<>> /\ todo' = {}
  /\ IF inst < Len(Types) THEN pc' = "list" /\ inst' = inst + 1
                          ELSE pc' = "idle" /\ inst' = 0
  /\ clean' = (clean /\ ok /\ inst < Len(Types))
  /\ settled' = (settled \/ (clean /\ ok /\ inst = Len(Types)))

\* HealthCheck and ListMedia; a failure of either ends the instance.
ListMedia ==
  /\ pc = "list"
  /\ \/ /\ items' = [m \in {m \in DOMAIN library : m[1] = Types[inst]} |-> library[m]]
        /\ pc' = "media" /\ UNCHANGED <<inst, todo, clean, settled>>
     \/ EndInstance(FALSE)
  /\ UNCHANGED <<tables, world>>

\* Mutant of UpsertMediaItems: ON CONFLICT DO NOTHING.
InsertMediaItems ==
  /\ pc = "media" /\ pc' = "files" /\ todo' = DOMAIN items
  /\ \/ media' = Over(media, items) /\ UNCHANGED clean
     \/ UNCHANGED media /\ clean' = FALSE
  /\ UNCHANGED <<mediaFiles, imports, inst, items, world, settled>>

\* UpsertMediaItems; when it fails the tick goes on.
UpsertMediaItems ==
  /\ pc = "media" /\ pc' = "files" /\ todo' = DOMAIN items
  /\ \/ media' = Over(items, media) /\ UNCHANGED clean
     \/ UNCHANGED media /\ clean' = FALSE
  /\ UNCHANGED <<mediaFiles, imports, inst, items, world, settled>>

\* ListMediaFiles and UpsertMediaFiles of one medium; when one fails the loop goes on.
UpsertMediaFiles(m) ==
  /\ pc = "files" /\ m \in todo /\ todo' = todo \ {m}
  /\ LET its == {f \in DOMAIN onDisk : f[1] = m[1] /\ onDisk[f] = m[2]}
     IN  \/ mediaFiles' = Over([f \in its |-> onDisk[f]], mediaFiles) /\ UNCHANGED clean
         \/ UNCHANGED mediaFiles /\ clean' = FALSE
  /\ UNCHANGED <<media, imports, pc, inst, items, world, settled>>

\* syncImports, from the highest id that is stored; the end of pollOne.
SyncImports ==
  /\ pc = "files" /\ todo = {}
  /\ LET t == Types[inst]
         since == Max({0} \cup {f[2] : f \in {f \in DOMAIN imports : f[1] = t}})
         recs == {<<t, n>> : n \in since + 1 .. Len(history[t])}
     IN  \/ /\ imports' = Over([f \in recs |-> history[t][f[2]].hash], imports)
            /\ EndInstance(TRUE)
         \/ UNCHANGED imports /\ EndInstance(FALSE)
  /\ UNCHANGED <<media, mediaFiles, world>>
-----------------------------------------------------------------------------
\* The join of the three tables, from the hash.
LinkedMedia(h) ==
  LET files == {f \in DOMAIN imports \cap DOMAIN mediaFiles : imports[f] = h}
      keys == {<<f[1], mediaFiles[f]>> : f \in files} \cap DOMAIN media
  IN  {[type |-> m[1], tags |-> media[m]] : m \in keys}

ContainsFold(list, want) == \E s \in list : Fold[s] = Fold[want]

\* evaluateExclusions
EvaluateExclusions(h, of) ==
  {<<"client", t>> : t \in {t \in TorrentTags[h] : ContainsFold(QbitExclude, t)}}
    \cup UNION {{<<m.type, t>> : t \in {t \in m.tags : ContainsFold(TagsExclude[m.type], t)}}
                : m \in of}

\* A pass (ScoreAll): LinkedMediaAll, and the one write at the end.
LinkedMediaAll ==
  /\ spc = "idle"
  /\ spc' = "write" /\ linked' = [h \in Hashes |-> LinkedMedia(h)] /\ passFresh' = settled
  /\ UNCHANGED <<arrs, tables, tick, rescore, verdict, clean, settled>>

UpsertScores ==
  /\ spc = "write"
  /\ spc' = "idle" /\ linked' = <<>> /\ passFresh' = FALSE
  /\ \/ /\ verdicts' = [h \in Hashes |-> EvaluateExclusions(h, linked[h])]
        /\ fresh' = [h \in Hashes |-> passFresh]
     \/ UNCHANGED verdict
  /\ UNCHANGED <<arrs, tables, tick, rescore, clean, settled>>

\* A rescore of one torrent (ScoreOne).
LinkedMediaForHash(h) ==
  /\ hpc = "idle"
  /\ hpc' = "write" /\ hash' = h /\ linkedOne' = LinkedMedia(h) /\ oneFresh' = settled
  /\ UNCHANGED <<arrs, tables, tick, pass, verdict, clean, settled>>

Persist ==
  /\ hpc = "write"
  /\ hpc' = "idle" /\ linkedOne' = {} /\ oneFresh' = FALSE /\ hash' = NoHash
  /\ \/ /\ verdicts' = [verdicts EXCEPT ![hash] = EvaluateExclusions(hash, linkedOne)]
        /\ fresh' = [fresh EXCEPT ![hash] = oneFresh]
     \/ UNCHANGED verdict
  /\ UNCHANGED <<arrs, tables, tick, pass, clean, settled>>

Next ==
  \/ \E m \in Media : SetTags(m) \/ Delete(m) \/ (\E h \in Hashes : Import(m, h))
  \/ Begin \/ ListMedia \/ UpsertMediaItems \/ (\E m \in todo : UpsertMediaFiles(m))
  \/ SyncImports
  \/ LinkedMediaAll \/ UpsertScores \/ (\E h \in Hashes : LinkedMediaForHash(h)) \/ Persist

Spec == Init /\ [][Next]_vars
-----------------------------------------------------------------------------
\* A file, by its instance and the number of its import.
IsFile(f) ==
  f = <<f[1], f[2]>> /\ f[1] \in ToSet(Types) /\ f[2] \in 1..Len(history[f[1]])

\* Every variable has its type; of a file, the tables have what its import says.
TypeOK ==
  /\ DOMAIN library \subseteq Media /\ DOMAIN media \subseteq Media
  /\ history \in [ToSet(Types) -> Seq([media : Ids, hash : Hashes])]
  /\ \A f \in DOMAIN onDisk :
       /\ IsFile(f) /\ onDisk[f] = history[f[1]][f[2]].media
       /\ <<f[1], onDisk[f]>> \in DOMAIN library
  /\ \A f \in DOMAIN mediaFiles : IsFile(f) /\ mediaFiles[f] = history[f[1]][f[2]].media
  /\ \A f \in DOMAIN imports : IsFile(f) /\ imports[f] = history[f[1]][f[2]].hash
  /\ pc \in {"idle", "list", "media", "files"} /\ inst \in 0..Len(Types)
  /\ (pc = "idle" <=> inst = 0)
  /\ (pc # "files" => todo = {}) /\ todo \subseteq DOMAIN items
  /\ DOMAIN items \subseteq Media
  /\ {spc, hpc} \subseteq {"idle", "write"} /\ hash \in Hashes
  /\ DOMAIN verdicts = Hashes /\ fresh \in [Hashes -> BOOLEAN]
  /\ clean \in BOOLEAN /\ settled \in BOOLEAN
  /\ passFresh \in BOOLEAN /\ oneFresh \in BOOLEAN

\* The reasons of a torrent name every excluded tag of the media whose present file
\* came from it, and no tag of others.
TagsAreIn(h, reasons) ==
  /\ \A f \in DOMAIN onDisk :
       LET t == f[1] IN
       history[t][f[2]].hash = h =>
         \A tag \in library[<<t, onDisk[f]>>] :
           Fold[tag] \in {Fold[x] : x \in TagsExclude[t]} => <<t, tag>> \in reasons
  /\ \A r \in reasons : r[1] # "client" =>
       \E n \in DOMAIN history[r[1]] :
         LET m == <<r[1], history[r[1]][n].media>> IN
         /\ history[r[1]][n].hash = h
         /\ m \in DOMAIN library => r[2] \in library[m]

\* A tag protects.  Once a tick in which nothing failed has followed the last
\* change in an *arr, a torrent that is scored is excluded for every excluded tag
\* of every medium whose present file came from it; and a tag that was taken away
\* no longer excludes it, nor does the tag of the medium that has the same number
\* in another *arr.  (Only a medium that the *arr no longer has keeps its tags.)
TagsReachVerdicts == \A h \in Hashes : fresh[h] => TagsAreIn(h, verdicts[h])
-----------------------------------------------------------------------------
\* The imports of an instance are stored from the first on.
ImportsFromFirst ==
  \A f \in DOMAIN imports : \A n \in 1..f[2] : <<f[1], n>> \in DOMAIN imports

\* The tables have what an instance has.
MediaCopied(t) == \A m \in DOMAIN library : m[1] = t => m \in DOMAIN media /\ media[m] = library[m]
FilesCopied(t, but) ==
  \A f \in DOMAIN onDisk : f[1] = t /\ <<t, onDisk[f]>> \notin but => f \in DOMAIN mediaFiles
ImportsCopied(t) == \A n \in 1..Len(history[t]) : <<t, n>> \in DOMAIN imports
Copied(t) == MediaCopied(t) /\ FilesCopied(t, {}) /\ ImportsCopied(t)

\* After a clean tick they have it all; during one, that of the instances before,
\* and of the present one what the steps so far have copied.
TablesFollow ==
  /\ settled => \A t \in ToSet(Types) : Copied(t)
  /\ (clean \/ settled) /\ pc \in {"media", "files"} =>
       items = [m \in {m \in DOMAIN library : m[1] = Types[inst]} |-> library[m]]
  /\ clean =>
       /\ pc # "idle" /\ \A k \in 1 .. inst - 1 : Copied(Types[k])
       /\ pc = "files" => MediaCopied(Types[inst]) /\ FilesCopied(Types[inst], todo)

\* The media of a torrent, as the join should find them.
MediaAreIn(h, found) ==
  /\ \A f \in DOMAIN onDisk : history[f[1]][f[2]].hash = h =>
       [type |-> f[1], tags |-> library[<<f[1], onDisk[f]>>]] \in found
  /\ \A r \in found : \E n \in DOMAIN history[r.type] :
       LET m == <<r.type, history[r.type][n].media>> IN
       history[r.type][n].hash = h /\ (m \in DOMAIN library => r.tags = library[m])

\* What was read after a clean tick is what the *arrs have.
ReadsFollow ==
  /\ passFresh => spc = "write" /\ \A h \in Hashes : MediaAreIn(h, linked[h])
  /\ oneFresh => hpc = "write" /\ MediaAreIn(hash, linkedOne)

\* The inductive invariant behind TagsReachVerdicts.
IInv == TypeOK /\ ImportsFromFirst /\ TablesFollow /\ ReadsFollow /\ TagsReachVerdicts
=============================================================================
