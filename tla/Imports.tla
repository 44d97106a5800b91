-------------------------------- MODULE Imports --------------------------------
(***************************************************************************)
(* Which file of an *arr came from which torrent.  The *arr poller reads   *)
(* the history of imports page by page, newest first, down to the highest  *)
(* id that arr_imports has (internal/clients/arr/arrhistory, syncImports   *)
(* of internal/pollers/arr_poller.go), and stores what it got in one       *)
(* transaction.  Meanwhile the *arr imports more and may drop records.     *)
(* arr_imports loses no row: it is not among torrentCascadeTables.         *)
(***************************************************************************)
EXTENDS Integers, Sequences, FiniteSets, FiniteSetsExt

CONSTANTS Files,       \* fileId
          PageSize,
          MaxHistory   \* bound on the records of the *arr

VARIABLES
  \* the *arr: its records by id, [file, usable], and the ids it has kept
  records, listed,
  imports,    \* arr_imports: the history_id, by file; 0 without a row
  pc,         \* syncImports: "idle", "fetch", "store"
  since, pageNum,
  collected,  \* of what it has collected, the record of each file that is written last
  \* history: the last record when the first page was read, the records since the
  \* last page; the *arr has dropped records between two pages, or made more of them
  \* than a page has
  top, came, shifted

arr == <<records, listed>>
sync == <<pc, since, pageNum, collected>>
history == <<top, came, shifted>>
vars == <<arr, imports, sync, history>>

Nothing == [f \in Files |-> 0]

Init ==
  /\ records = <<>> /\ listed = {} /\ imports = Nothing
  /\ pc = "idle" /\ since = 0 /\ pageNum = 0 /\ collected = Nothing
  /\ top = 0 /\ came = 0 /\ shifted = FALSE
-----------------------------------------------------------------------------
BetweenPages == pc = "fetch" /\ pageNum > 1

\* An import: usable unless it has no downloadId or fileId, or another client's.
Import ==
  /\ Len(records) < MaxHistory
  /\ \E f \in Files, usable \in BOOLEAN :
       records' = Append(records, [file |-> f, usable |-> usable])
  /\ listed' = listed \cup {Len(records) + 1}
  /\ came' = (IF BetweenPages THEN came + 1 ELSE came)
  /\ shifted' = (shifted \/ came' > PageSize)
  /\ UNCHANGED <<imports, sync, top>>

\* The *arr drops the history of a series or a movie it no longer has.
DropHistory(f) ==
  /\ \E n \in listed : records[n].file = f
  /\ listed' = {n \in listed : records[n].file # f}
  /\ shifted' = (shifted \/ BetweenPages)
  /\ UNCHANGED <<records, imports, sync, top, came>>

\* MaxHistoryID; an error ends the sync.
Cursor == Max({imports[f] : f \in Files} \cup {0})

MaxHistoryID ==
  /\ pc = "idle"
  /\ pc' = "fetch" /\ since' = Cursor /\ pageNum' = 1
  /\ UNCHANGED <<arr, imports, collected, history>>

EndSync ==
  /\ pc' = "idle" /\ since' = 0 /\ pageNum' = 0 /\ collected' = Nothing
  /\ top' = 0 /\ came' = 0

\* sortKey=date, sortDirection=descending: what comes before a record.
Rank(n) == Cardinality({m \in listed : m > n})
Page == {n \in listed : (pageNum - 1) * PageSize <= Rank(n) /\ Rank(n) < pageNum * PageSize}
ShortPage == Cardinality(listed) < pageNum * PageSize

\* Mutant of PageFails: Fetch returns what it has collected so far.
PageEndsFetch ==
  /\ pc = "fetch"
  /\ pc' = "store" /\ UNCHANGED <<since, pageNum, collected>>
  /\ UNCHANGED <<arr, imports, history>>

\* Fetch: a request that fails fails the sync.
PageFails ==
  /\ pc = "fetch" /\ EndSync
  /\ UNCHANGED <<arr, imports, shifted>>

\* Fetch, one page: it ends at a record that is known or at a short page.  What
\* was collected is written in the opposite order, and the last record of a file
\* overwrites the others: the one that was collected first.
FetchPage ==
  /\ pc = "fetch"
  /\ LET fresh(f) == {n \in Page : n > since /\ records[n] = [file |-> f, usable |-> TRUE]}
     IN  collected' = [f \in Files |-> IF collected[f] # 0 \/ fresh(f) = {} THEN collected[f]
                                       ELSE Max(fresh(f))]
  /\ IF ShortPage \/ \E n \in Page : n <= since
     THEN pc' = "store" /\ UNCHANGED pageNum
     ELSE pageNum' = pageNum + 1 /\ UNCHANGED pc
  /\ top' = (IF pageNum = 1 THEN Len(records) ELSE top) /\ came' = 0
  /\ UNCHANGED <<arr, imports, since, shifted>>

\* UpsertArrImports, a transaction.
UpsertArrImports ==
  /\ pc = "store" /\ EndSync
  /\ imports' \in {imports, [f \in Files |-> IF collected[f] # 0 THEN collected[f]
                                             ELSE imports[f]]}
  /\ UNCHANGED <<arr, shifted>>

Next ==
  \/ Import \/ \E f \in Files : DropHistory(f)
  \/ MaxHistoryID \/ FetchPage \/ PageFails \/ UpsertArrImports

Spec == Init /\ [][Next]_vars
-----------------------------------------------------------------------------
\* What is written for a file is a record of it.
OfTheirFiles(rows) ==
  \A f \in Files : rows[f] # 0 =>
    rows[f] \in DOMAIN records /\ records[rows[f]] = [file |-> f, usable |-> TRUE]

\* Every variable has its type; a row is of a record of its file.
TypeOK ==
  /\ records \in Seq([file : Files, usable : BOOLEAN]) /\ listed \subseteq DOMAIN records
  /\ imports \in [Files -> Nat] /\ collected \in [Files -> Nat]
  /\ OfTheirFiles(imports) /\ OfTheirFiles(collected)
  /\ pc \in {"idle", "fetch", "store"} /\ since \in Nat /\ pageNum \in Nat
  /\ pc # "idle" => pageNum > 0 /\ since = Cursor
  /\ ~BetweenPages => came = 0
  /\ pc = "idle" \/ (pc = "fetch" /\ pageNum = 1) => collected = Nothing /\ top = 0
  /\ top \in 0..Len(records) /\ came \in Nat /\ shifted \in BOOLEAN

\* The cursor passes no import by: of every usable record up to the highest id
\* that is stored, the file has a row, of that import or of a later one, whatever
\* pages or writes failed, and whatever was imported while they were read.  A
\* record that is passed would never be asked for again, and its file would not
\* be linked to the torrent.  (The pages shift when the *arr drops history while
\* they are read: one that moved up is not seen.  And when more is imported between
\* two pages than a page has, the next one has newer records than the last: the
\* older ones overwrite them, and may be below a cursor that passes the newer.)
NoImportIsSkipped ==
  ~shifted =>
    \A n \in listed : records[n].usable /\ n <= Cursor => imports[records[n].file] >= n
-----------------------------------------------------------------------------
\* What the pages so far have shown, if none was shifted: the records that were
\* there at the first, down to a rank that grows with what came in since.
Shown(n) ==
  n <= top /\ (pc = "fetch" => Rank(n) < (pageNum - 1) * PageSize + came)

\* Of every usable record that was shown and is not known, that one or a later one
\* of its file is collected, and nothing else is.
CollectedOK ==
  /\ \A n \in listed :
       records[n].usable /\ n > since /\ Shown(n) => collected[records[n].file] >= n
  /\ \A f \in Files : collected[f] # 0 =>
       /\ since < collected[f] /\ collected[f] <= top
       /\ pc = "fetch" => collected[f] \in listed /\ Shown(collected[f])

\* No record that came in after the first page is on one that is still to be read.
NewerAreBefore ==
  /\ came <= PageSize
  /\ BetweenPages => Rank(top) <= (pageNum - 2) * PageSize + came

\* The inductive invariant behind NoImportIsSkipped.
IInv ==
  /\ TypeOK /\ NoImportIsSkipped
  /\ ~shifted /\ pc # "idle" => CollectedOK /\ NewerAreBefore
=============================================================================
