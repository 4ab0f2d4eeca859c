----------------------------- MODULE ForumDigest -----------------------------
(***************************************************************************)
(* The digest of a board: entries, which name a post or a thread, filed    *)
(* under paths of a kind ("digest", "announcement", "recommended"), and    *)
(* directories, which name a path.  An entry's key is its board, target,   *)
(* kind and path, a directory's its board, kind and path; both are unique. *)
(* A path is a sequence of numbers, in the order of their names; <<>> is   *)
(* the root, which the code writes "".  Titles, notes and the audit tables *)
(* of removals and path mutations, which only answer a command that is     *)
(* decided again, are left out.                                            *)
(***************************************************************************)
EXTENDS ForumFavorites

CONSTANTS
    AnnouncementBoard,  \* the system board that mirrors announcements
    RecommendBoard      \* the system board that mirrors recommendations

DigestEvent(k, b, row, by, ts) == [k |-> k, board |-> b, row |-> row, by |-> by, ts |-> ts]
DigestEntryUpserted(id, row, by, ts) ==
    DigestEvent("digestUpserted", row.board, [id |-> id, entry |-> row], by, ts)
DigestEntryRemoved(id, b, by, ts) == DigestEvent("digestRemoved", b, [id |-> id], by, ts)
DigestEntryUpdated(id, b, path, by, ts) ==
    DigestEvent("digestUpdated", b, [id |-> id, path |-> path], by, ts)
DigestEntryBodySet(id, b, body, by, ts) ==
    DigestEvent("digestBodySet", b, [id |-> id, body |-> body], by, ts)
DigestDirectorySet(id, b, kind, path, by, ts) ==
    DigestEvent("digestDirectorySet", b, [id |-> id, kind |-> kind, path |-> path], by, ts)
DigestPathMoved(b, kind, from, to, by, ts) ==
    DigestEvent("digestMoved", b, [kind |-> kind, from |-> from, to |-> to], by, ts)
DigestPathCopied(b, kind, from, to, entryIDs, dirIDs, by, ts) ==
    DigestEvent("digestCopied", b, [kind |-> kind, from |-> from, to |-> to,
                                    entryIDs |-> entryIDs, dirIDs |-> dirIDs], by, ts)
DigestPathDeleted(b, kind, path, by, ts) ==
    DigestEvent("digestDeleted", b, [kind |-> kind, path |-> path], by, ts)

---------------------------------------------------------------------------
\* Rows and paths.

\* body is "" until an editor sets one.
DigestEntry(b, target, kind, path) ==
    [board |-> b, target |-> target, kind |-> kind, path |-> path, body |-> ""]
DigestDirectory(b, kind, path) == [board |-> b, kind |-> kind, path |-> path]

EntryKey(row) == [row EXCEPT !.body = ""]
EntriesWithKey(db, row) == {i \in DOMAIN db.entries : EntryKey(db.entries[i]) = EntryKey(row)}
DirsWithKey(db, row) == {i \in DOMAIN db.dirs : db.dirs[i] = row}

ActorCanCurateBoardKind(db, a, b, kind) ==
    \/ ActorCanCurateBoard(db, a, b)
    \/ kind = "announcement" /\ ActorHasBoardCapability(db, a, b, "announce")

DigestPathContains(parent, path) == IF parent = <<>> THEN path = <<>> ELSE IsPrefix(parent, path)
RemapDigestPath(path, from, to) == to \o SubSeq(path, Len(from) + 1, Len(path))

PathBefore(p, q) ==
    \/ IsPrefix(p, q)
    \/ \E i \in DOMAIN p \cap DOMAIN q : p[i] < q[i] /\ \A j \in 1..(i - 1) : p[j] = q[j]

\* The rows under a path, by path and then by id.
RowsUnder(rows, b, kind, path) ==
    LET under == {i \in DOMAIN rows : rows[i].board = b /\ rows[i].kind = kind
                                      /\ DigestPathContains(path, rows[i].path)}
        before(i, j) == IF rows[i].path = rows[j].path
                        THEN i[2] < j[2] \/ (i[2] = j[2] /\ i[3] < j[3])
                        ELSE PathBefore(rows[i].path, rows[j].path)
    IN SetToSortSeq(under, before)
DigestPathEntries(db, b, kind, path) == RowsUnder(db.entries, b, kind, path)
DigestPathDirectories(db, b, kind, path) == RowsUnder(db.dirs, b, kind, path)

\* The row at a path, and whether another row than those of ignored has its key.
AtPath(row, path) == [row EXCEPT !.path = path]
DigestPathEntryConflictExists(db, row, path, ignored) ==
    EntriesWithKey(db, AtPath(row, path)) \ ignored # {}
DigestPathDirectoryConflictExists(db, row, path, ignored) ==
    DirsWithKey(db, AtPath(row, path)) \ ignored # {}

---------------------------------------------------------------------------
\* Mutations.

\* The key exists: the row stays.  The id exists under another key: an error.
UpsertDigestEntryOK(db, id, row) == EntriesWithKey(db, row) # {} \/ id \notin DOMAIN db.entries
UpsertDigestEntryTx(db, id, row) ==
    IF EntriesWithKey(db, row) # {} THEN db ELSE [db EXCEPT !.entries = Put(@, id, row)]
DigestEntryID(db, id, row) ==
    IF EntriesWithKey(db, row) = {} THEN id ELSE CHOOSE i \in EntriesWithKey(db, row) : TRUE

RemoveDigestEntryFinalTx(db, id) == [db EXCEPT !.entries = Drop(@, {id})]

UpdateDigestEntryOK(db, id, path) ==
    id \in DOMAIN db.entries => ~DigestPathEntryConflictExists(db, db.entries[id], path, {id})
UpdateDigestEntryTx(db, id, path) ==
    [db EXCEPT !.entries = Change(@, id, LAMBDA r : AtPath(r, path))]

SetDigestEntryBodyTx(db, id, body) ==
    [db EXCEPT !.entries = Change(@, id, LAMBDA r : [r EXCEPT !.body = body])]

UpsertDigestDirectoryTx(db, id, row) ==
    IF DirsWithKey(db, row) # {} THEN db ELSE [db EXCEPT !.dirs = Put(@, id, row)]

\* No row outside the subtree is in the way of one that moves.
MoveIsFree(db, b, kind, from, to) ==
    LET entries == ToSet(DigestPathEntries(db, b, kind, from))
        dirs == ToSet(DigestPathDirectories(db, b, kind, from))
        at(row) == RemapDigestPath(row.path, from, to)
    IN /\ \A i \in entries :
             ~DigestPathEntryConflictExists(db, db.entries[i], at(db.entries[i]), entries)
       /\ \A i \in dirs : ~DigestPathDirectoryConflictExists(db, db.dirs[i], at(db.dirs[i]), dirs)

\* The rows move one after the other.  Each UPDATE must leave the keys unique:
\* a row of the subtree that has yet to move may be in the way.
MoveDigestPathTx(db, b, kind, from, to) ==
    LET at(row) == AtPath(row, RemapDigestPath(row.path, from, to))
        entry(acc, i) ==
            [ok |-> acc.ok /\ EntriesWithKey(acc.db, at(db.entries[i])) \ {i} = {},
             db |-> [acc.db EXCEPT !.entries[i] = at(@)]]
        dir(acc, i) ==
            [ok |-> acc.ok /\ DirsWithKey(acc.db, at(db.dirs[i])) \ {i} = {},
             db |-> [acc.db EXCEPT !.dirs[i] = at(@)]]
        moved == FoldLeft(entry, [ok |-> MoveIsFree(db, b, kind, from, to), db |-> db],
                          DigestPathEntries(db, b, kind, from))
    IN FoldLeft(dir, moved, DigestPathDirectories(db, b, kind, from))

\* Every copy needs a free key, and an id.
CopyDigestPathOK(db, b, kind, from, to, entryIDs, dirIDs) ==
    LET entries == DigestPathEntries(db, b, kind, from)
        dirs == DigestPathDirectories(db, b, kind, from)
        at(row) == RemapDigestPath(row.path, from, to)
    IN /\ Len(entries) <= Len(entryIDs) /\ Len(dirs) <= Len(dirIDs)
       /\ \A i \in ToSet(entries) :
             ~DigestPathEntryConflictExists(db, db.entries[i], at(db.entries[i]), {})
       /\ \A i \in ToSet(dirs) :
             ~DigestPathDirectoryConflictExists(db, db.dirs[i], at(db.dirs[i]), {})

CopyDigestPathTx(db, b, kind, from, to, entryIDs, dirIDs) ==
    LET copies(rows, order, ids) ==
            [x \in DOMAIN rows \cup {ids[i] : i \in DOMAIN order} |->
                IF x \in DOMAIN rows THEN rows[x]
                ELSE LET row == rows[order[CHOOSE i \in DOMAIN order : ids[i] = x]]
                     IN AtPath(row, RemapDigestPath(row.path, from, to))]
    IN [db EXCEPT !.entries = copies(@, DigestPathEntries(db, b, kind, from), entryIDs),
                  !.dirs = copies(@, DigestPathDirectories(db, b, kind, from), dirIDs)]

DeleteDigestPathTx(db, b, kind, path) ==
    [db EXCEPT !.entries = Drop(@, ToSet(DigestPathEntries(db, b, kind, path))),
               !.dirs = Drop(@, ToSet(DigestPathDirectories(db, b, kind, path)))]

---------------------------------------------------------------------------
\* curatePost(post, kind, path), curateThread(thread, kind, path)

CurateTargetOK(db, p) ==
    IF p.target \in DOMAIN db.threads THEN TRUE
    ELSE PostExists(db, p.target) /\ ~db.posts[p.target].redacted
CuratedBoard(db, p) ==
    IF p.target \in DOMAIN db.threads THEN db.threads[p.target].board ELSE PostBoard(db, p.target)

curateAllowed(db, a, p) ==
    CurateTargetOK(db, p) /\ ActorCanCurateBoardKind(db, a, CuratedBoard(db, p), p.kind)

NewDigestID(db, i) == <<"dig", db.cmd, i>>
NewDirectoryID(db, i) == <<"dir", db.cmd, i>>
CuratedRow(db, p) == DigestEntry(CuratedBoard(db, p), p.target, p.kind, p.path)

DigestMirrorSystemBoardForKind(kind) == IF kind = "announcement" THEN AnnouncementBoard ELSE RecommendBoard
MirrorThread(kind, id) == <<"mirthr", kind, id>>
MirrorPost(kind, id) == <<"mirpst", kind, id>>
DigestMirrorDue(db, id, row) ==
    /\ row.kind \in {"announcement", "recommended"}
    /\ row.board # DigestMirrorSystemBoardForKind(row.kind)
    /\ BoardAllowsPublicSystemPost(db, row.board)
    /\ MirrorThread(row.kind, id) \notin DOMAIN db.threads

ensureDigestMirrorSystemPost(db, a, id, row) ==
    IF DigestMirrorDue(db, id, row)
    THEN appendGeneratedSystemPostTx(db, a, DigestMirrorSystemBoardForKind(row.kind),
                                     MirrorThread(row.kind, id), MirrorPost(row.kind, id))
    ELSE db

nativeDigestMirrorSystemLogEvents(db, a, id, row) ==
    IF DigestMirrorDue(db, id, row)
    THEN nativeGeneratedSystemPostEvents(db, a, DigestMirrorSystemBoardForKind(row.kind),
                                         MirrorThread(row.kind, id), MirrorPost(row.kind, id), FALSE)
    ELSE <<>>

curate(db, a, p) ==
    LET row == CuratedRow(db, p)
        id == DigestEntryID(db, NewDigestID(db, 0), row)
        d1 == appendEvent(UpsertDigestEntryTx(db, id, row), DigestEntryUpserted(id, row, a, db.now))
    IN IF curateAllowed(db, a, p) THEN Ack(ensureDigestMirrorSystemPost(d1, a, id, row)) ELSE Refused(db)

curatePost(db, a, p) == curate(db, a, p)
curateThread(db, a, p) == curate(db, a, p)

decideDigestCuration(db, a, p) ==
    LET row == CuratedRow(db, p)
        id == DigestEntryID(db, NewDigestID(db, 0), row)
    IN IF curateAllowed(db, a, p)
       THEN Decide(<<DigestEntryUpserted(id, row, a, db.now)>> \o nativeDigestMirrorSystemLogEvents(db, a, id, row))
       ELSE Refuse

decideCuratePost(db, a, p) == decideDigestCuration(db, a, p)
decideCurateThread(db, a, p) == decideDigestCuration(db, a, p)

---------------------------------------------------------------------------
\* removeDigestEntry(entry), updateDigestEntry(entry, path),
\* setDigestEntryBody(entry, body)

DigestEntryForCuration(db, a, id) ==
    /\ id \in DOMAIN db.entries
    /\ ActorCanCurateBoardKind(db, a, db.entries[id].board, db.entries[id].kind)
EntryBoard(db, p) == db.entries[p.entry].board

removeDigestEntry(db, a, p) ==
    IF DigestEntryForCuration(db, a, p.entry)
    THEN Ack(appendEvent(RemoveDigestEntryFinalTx(db, p.entry),
                         DigestEntryRemoved(p.entry, EntryBoard(db, p), a, db.now)))
    ELSE Refused(db)

decideRemoveDigestEntry(db, a, p) ==
    IF DigestEntryForCuration(db, a, p.entry)
    THEN Decide(<<DigestEntryRemoved(p.entry, EntryBoard(db, p), a, db.now)>>) ELSE Refuse

RequireDigestEntryPathAvailable(db, id, path) ==
    path # db.entries[id].path => ~DigestPathEntryConflictExists(db, db.entries[id], path, {id})
updateDigestEntryAllowed(db, a, p) ==
    DigestEntryForCuration(db, a, p.entry) /\ RequireDigestEntryPathAvailable(db, p.entry, p.path)

updateDigestEntry(db, a, p) ==
    IF updateDigestEntryAllowed(db, a, p)
    THEN Ack(appendEvent(UpdateDigestEntryTx(db, p.entry, p.path),
                         DigestEntryUpdated(p.entry, EntryBoard(db, p), p.path, a, db.now)))
    ELSE Refused(db)

decideUpdateDigestEntry(db, a, p) ==
    IF updateDigestEntryAllowed(db, a, p)
    THEN Decide(<<DigestEntryUpdated(p.entry, EntryBoard(db, p), p.path, a, db.now)>>) ELSE Refuse

setDigestEntryBody(db, a, p) ==
    IF DigestEntryForCuration(db, a, p.entry)
    THEN Ack(appendEvent(SetDigestEntryBodyTx(db, p.entry, p.body),
                         DigestEntryBodySet(p.entry, EntryBoard(db, p), p.body, a, db.now)))
    ELSE Refused(db)

decideSetDigestEntryBody(db, a, p) ==
    IF DigestEntryForCuration(db, a, p.entry)
    THEN Decide(<<DigestEntryBodySet(p.entry, EntryBoard(db, p), p.body, a, db.now)>>) ELSE Refuse

---------------------------------------------------------------------------
\* createDigestDirectory(board, kind, path), moveDigestPath(board, kind, from,
\* to), copyDigestPath(board, kind, from, to), deleteDigestPath(board, kind,
\* path)

prepareDigestPathMutation(db, a, p) ==
    p.board \in DOMAIN db.boards /\ ActorCanCurateBoardKind(db, a, p.board, p.kind)

DirectoryID(db, p) ==
    LET there == DirsWithKey(db, DigestDirectory(p.board, p.kind, p.path)) IN
    IF there = {} THEN NewDirectoryID(db, 0) ELSE CHOOSE i \in there : TRUE

createDigestDirectory(db, a, p) ==
    LET id == DirectoryID(db, p) IN
    IF prepareDigestPathMutation(db, a, p) /\ p.path # <<>>
    THEN Ack(appendEvent(UpsertDigestDirectoryTx(db, id, DigestDirectory(p.board, p.kind, p.path)),
                         DigestDirectorySet(id, p.board, p.kind, p.path, a, db.now)))
    ELSE Refused(db)

decideCreateDigestDirectory(db, a, p) ==
    IF prepareDigestPathMutation(db, a, p) /\ p.path # <<>>
    THEN Decide(<<DigestDirectorySet(DirectoryID(db, p), p.board, p.kind, p.path, a, db.now)>>)
    ELSE Refuse

moveDigestPathAllowed(db, a, p) ==
    /\ prepareDigestPathMutation(db, a, p)
    /\ p.from # <<>> /\ ~IsPrefix(p.from, p.to)

moveDigestPath(db, a, p) ==
    LET moved == MoveDigestPathTx(db, p.board, p.kind, p.from, p.to) IN
    IF moveDigestPathAllowed(db, a, p) /\ moved.ok
    THEN Ack(appendEvent(moved.db, DigestPathMoved(p.board, p.kind, p.from, p.to, a, db.now)))
    ELSE Refused(db)

\* The decider looks for rows outside the subtree only.
decideMoveDigestPath(db, a, p) ==
    IF moveDigestPathAllowed(db, a, p) /\ MoveIsFree(db, p.board, p.kind, p.from, p.to)
    THEN Decide(<<DigestPathMoved(p.board, p.kind, p.from, p.to, a, db.now)>>) ELSE Refuse

CopyEntryIDs(db, p) ==
    [i \in DOMAIN DigestPathEntries(db, p.board, p.kind, p.from) |-> NewDigestID(db, i)]
CopyDirectoryIDs(db, p) ==
    [i \in DOMAIN DigestPathDirectories(db, p.board, p.kind, p.from) |-> NewDirectoryID(db, i)]

copyDigestPathAllowed(db, a, p) ==
    /\ prepareDigestPathMutation(db, a, p)
    /\ p.from # <<>> /\ p.from # p.to
    /\ CopyDigestPathOK(db, p.board, p.kind, p.from, p.to, CopyEntryIDs(db, p), CopyDirectoryIDs(db, p))

CopyEvent(db, a, p) ==
    DigestPathCopied(p.board, p.kind, p.from, p.to, CopyEntryIDs(db, p), CopyDirectoryIDs(db, p), a, db.now)

copyDigestPath(db, a, p) ==
    IF copyDigestPathAllowed(db, a, p)
    THEN Ack(appendEvent(CopyDigestPathTx(db, p.board, p.kind, p.from, p.to, CopyEntryIDs(db, p),
                                          CopyDirectoryIDs(db, p)), CopyEvent(db, a, p)))
    ELSE Refused(db)

decideCopyDigestPath(db, a, p) ==
    IF copyDigestPathAllowed(db, a, p) THEN Decide(<<CopyEvent(db, a, p)>>) ELSE Refuse

deleteDigestPathAllowed(db, a, p) == prepareDigestPathMutation(db, a, p) /\ p.path # <<>>

deleteDigestPath(db, a, p) ==
    IF deleteDigestPathAllowed(db, a, p)
    THEN Ack(appendEvent(DeleteDigestPathTx(db, p.board, p.kind, p.path),
                         DigestPathDeleted(p.board, p.kind, p.path, a, db.now)))
    ELSE Refused(db)

decideDeleteDigestPath(db, a, p) ==
    IF deleteDigestPathAllowed(db, a, p)
    THEN Decide(<<DigestPathDeleted(p.board, p.kind, p.path, a, db.now)>>) ELSE Refuse

---------------------------------------------------------------------------
\* What the events do to the projection.

ApplyDigestUpsertedOK(db, e) == UpsertDigestEntryOK(db, e.row.id, e.row.entry)
applyDigestUpserted(db, e) == UpsertDigestEntryTx(db, e.row.id, e.row.entry)
applyDigestRemoved(db, e) == RemoveDigestEntryFinalTx(db, e.row.id)
ApplyDigestUpdatedOK(db, e) == UpdateDigestEntryOK(db, e.row.id, e.row.path)
applyDigestUpdated(db, e) == UpdateDigestEntryTx(db, e.row.id, e.row.path)
applyDigestBodySet(db, e) == SetDigestEntryBodyTx(db, e.row.id, e.row.body)
applyDigestDirectorySet(db, e) ==
    UpsertDigestDirectoryTx(db, e.row.id, DigestDirectory(e.board, e.row.kind, e.row.path))
ApplyDigestMovedOK(db, e) == MoveDigestPathTx(db, e.board, e.row.kind, e.row.from, e.row.to).ok
applyDigestMoved(db, e) == MoveDigestPathTx(db, e.board, e.row.kind, e.row.from, e.row.to).db
ApplyDigestCopiedOK(db, e) ==
    CopyDigestPathOK(db, e.board, e.row.kind, e.row.from, e.row.to, e.row.entryIDs, e.row.dirIDs)
applyDigestCopied(db, e) ==
    CopyDigestPathTx(db, e.board, e.row.kind, e.row.from, e.row.to, e.row.entryIDs, e.row.dirIDs)
applyDigestDeleted(db, e) == DeleteDigestPathTx(db, e.board, e.row.kind, e.row.path)
=============================================================================
