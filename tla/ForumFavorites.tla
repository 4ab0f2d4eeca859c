--------------------------- MODULE ForumFavorites ---------------------------
(***************************************************************************)
(* The favorite boards of a user, filed in a tree of folders.  NoId is the *)
(* root.  As in ForumBoards, the handlers append no events.  Names and     *)
(* positions are left out.                                                 *)
(***************************************************************************)
EXTENDS ForumBoards

CONSTANT MaxFavoriteImportFolders

FavoriteEvent(k, u, row, ts) == [k |-> k, user |-> u, row |-> row, ts |-> ts]
BoardFavoriteSet(u, b, folder, on, ts) ==
    [k |-> "boardFavoriteSet", board |-> b, user |-> u, row |-> [folder |-> folder, on |-> on], ts |-> ts]
FavoriteFolderCreated(u, id, parent, ts) ==
    FavoriteEvent("folderCreated", u, [id |-> id, parent |-> parent], ts)
FavoriteFolderUpdated(u, id, parent, ts) ==
    FavoriteEvent("folderUpdated", u, [id |-> id, parent |-> parent], ts)
FavoriteFolderDeleted(u, id, parent, ts) ==
    FavoriteEvent("folderDeleted", u, [id |-> id, parent |-> parent], ts)
FavoriteTreeImported(u, folders, boards, replace, ts) ==
    FavoriteEvent("treeImported", u, [folders |-> folders, boards |-> boards, replace |-> replace], ts)

UserFolders(db, u) == {f \in DOMAIN db.folders : db.folders[f].user = u}
FavoriteFolderExists(db, u, f) == f = NoId \/ f \in UserFolders(db, u)

\* The folders that a walk from f to the root passes, f included.  The walk
\* never ends when they form a cycle.
FolderPath(db, u, f) ==
    LET up[n \in 0..Cardinality(UserFolders(db, u))] ==
            IF n = 0 THEN {f}
            ELSE up[n - 1] \cup {db.folders[g].parent : g \in up[n - 1] \cap UserFolders(db, u)}
    IN up[Cardinality(UserFolders(db, u))]

WalkEnds(db, u, f) == ~(FolderPath(db, u, f) \subseteq UserFolders(db, u))
FavoriteFolderContains(db, u, ancestor, f) == ancestor \in FolderPath(db, u, f)

---------------------------------------------------------------------------
\* Mutations.

SetBoardFavorite(db, u, b, folder, on) ==
    [db EXCEPT !.favs = IF on THEN Put(@, <<u, b>>, folder) ELSE Drop(@, {<<u, b>>})]

CreateFavoriteFolder(db, id, u, parent) ==
    [db EXCEPT !.folders = Put(@, id, [user |-> u, parent |-> parent])]

updateFavoriteFolderFinalState(db, id, parent) == [db EXCEPT !.folders[id].parent = parent]

\* What was in the folder goes to parent.
deleteFavoriteFolderWithParent(db, u, id, parent) ==
    [db EXCEPT
        !.favs = [x \in DOMAIN @ |-> IF x[1] = u /\ @[x] = id THEN parent ELSE @[x]],
        !.folders = [f \in DOMAIN @ \ {id} |->
                        IF @[f].user = u /\ @[f].parent = id THEN [@[f] EXCEPT !.parent = parent]
                        ELSE @[f]]]

ImportFavoriteTreeTx(db, u, folders, boards, replace) ==
    LET d1 == IF replace
              THEN [db EXCEPT !.favs = Drop(@, {x \in DOMAIN @ : x[1] = u}),
                              !.folders = Drop(@, UserFolders(db, u))]
              ELSE db
        d2 == FoldSet(LAMBDA f, d : CreateFavoriteFolder(d, f, u, folders[f]), d1, DOMAIN folders)
    IN FoldSet(LAMBDA b, d : SetBoardFavorite(d, u, b, boards[b], TRUE), d2, DOMAIN boards)

\* A tree that can be imported: its parents and folders are its own, it has
\* no cycle, and its boards exist.
planFavoriteTreeImport(db, folders, boards) ==
    LET tree == [db EXCEPT !.folders = [f \in DOMAIN folders |-> [user |-> "", parent |-> folders[f]]]]
    IN /\ Cardinality(DOMAIN folders) <= MaxFavoriteImportFolders
       /\ \A f \in DOMAIN folders : folders[f] \in DOMAIN folders \cup {NoId}
       /\ \A f \in DOMAIN folders : NoId \in FolderPath(tree, "", f)
       /\ \A b \in DOMAIN boards : b \in DOMAIN db.boards /\ boards[b] \in DOMAIN folders \cup {NoId}

---------------------------------------------------------------------------
\* setBoardFavorite(board, folder, on), moveBoardFavorite(board, folder)

setBoardFavoriteAllowed(db, a, p) ==
    p.board \in DOMAIN db.boards /\ (p.on => FavoriteFolderExists(db, a, p.folder))

setBoardFavorite(db, a, p) ==
    IF setBoardFavoriteAllowed(db, a, p) THEN Ack(SetBoardFavorite(db, a, p.board, p.folder, p.on))
    ELSE Refused(db)

decideSetBoardFavorite(db, a, p) ==
    IF setBoardFavoriteAllowed(db, a, p)
    THEN Decide(<<BoardFavoriteSet(a, p.board, p.folder, p.on, db.now)>>) ELSE Refuse

MovedFavorite(p) == [board |-> p.board, folder |-> p.folder, on |-> TRUE]
moveBoardFavorite(db, a, p) == setBoardFavorite(db, a, MovedFavorite(p))
decideMoveBoardFavorite(db, a, p) == decideSetBoardFavorite(db, a, MovedFavorite(p))

---------------------------------------------------------------------------
\* createFavoriteFolder(parent), updateFavoriteFolder(folder, parent),
\* deleteFavoriteFolder(folder)

createFavoriteFolder(db, a, p) ==
    IF FavoriteFolderExists(db, a, p.parent)
    THEN Ack(CreateFavoriteFolder(db, <<"fav", db.cmd, 0>>, a, p.parent)) ELSE Refused(db)

decideCreateFavoriteFolder(db, a, p) ==
    IF FavoriteFolderExists(db, a, p.parent)
    THEN Decide(<<FavoriteFolderCreated(a, <<"fav", db.cmd, 0>>, p.parent, db.now)>>) ELSE Refuse

\* A walk that does not end leaves the command without an answer.
updateFavoriteFolderAllowed(db, a, p) ==
    /\ p.folder \in UserFolders(db, a)
    /\ p.parent # p.folder
    /\ FavoriteFolderExists(db, a, p.parent)
    /\ ~FavoriteFolderContains(db, a, p.folder, p.parent)
    /\ WalkEnds(db, a, p.parent)

updateFavoriteFolder(db, a, p) ==
    IF updateFavoriteFolderAllowed(db, a, p)
    THEN Ack(updateFavoriteFolderFinalState(db, p.folder, p.parent)) ELSE Refused(db)

decideUpdateFavoriteFolder(db, a, p) ==
    IF updateFavoriteFolderAllowed(db, a, p)
    THEN Decide(<<FavoriteFolderUpdated(a, p.folder, p.parent, db.now)>>) ELSE Refuse

deleteFavoriteFolder(db, a, p) ==
    IF p.folder \in UserFolders(db, a)
    THEN Ack(deleteFavoriteFolderWithParent(db, a, p.folder, db.folders[p.folder].parent))
    ELSE Refused(db)

\* The event names the parent as it was when the command was decided.
decideDeleteFavoriteFolder(db, a, p) ==
    IF p.folder \in UserFolders(db, a)
    THEN Decide(<<FavoriteFolderDeleted(a, p.folder, db.folders[p.folder].parent, db.now)>>)
    ELSE Refuse

---------------------------------------------------------------------------
\* importFavoriteTree(folders, boards, replace): folders maps the numbers of
\* the payload's folders to their parents, boards its boards to folders; 0 is
\* the root.

ImportedID(db, i) == IF i = 0 THEN NoId ELSE <<"fav", db.cmd, i>>
ImportedFolders(db, p) ==
    [f \in {ImportedID(db, i) : i \in DOMAIN p.folders} |-> ImportedID(db, p.folders[f[3]])]
ImportedBoards(db, p) == [b \in DOMAIN p.boards |-> ImportedID(db, p.boards[b])]

importFavoriteTree(db, a, p) ==
    IF planFavoriteTreeImport(db, ImportedFolders(db, p), ImportedBoards(db, p))
    THEN Ack(ImportFavoriteTreeTx(db, a, ImportedFolders(db, p), ImportedBoards(db, p), p.replace))
    ELSE Refused(db)

decideImportFavoriteTree(db, a, p) ==
    IF planFavoriteTreeImport(db, ImportedFolders(db, p), ImportedBoards(db, p))
    THEN Decide(<<FavoriteTreeImported(a, ImportedFolders(db, p), ImportedBoards(db, p), p.replace, db.now)>>)
    ELSE Refuse

---------------------------------------------------------------------------
\* What the events do to the projection.

applyBoardFavoriteSet(db, e) == SetBoardFavorite(db, e.user, e.board, e.row.folder, e.row.on)

ApplyFolderCreatedOK(db, e) == e.row.id \notin DOMAIN db.folders
applyFolderCreated(db, e) == CreateFavoriteFolder(db, e.row.id, e.user, e.row.parent)

ApplyFolderUpdatedOK(db, e) == e.row.id \in UserFolders(db, e.user)
applyFolderUpdated(db, e) == updateFavoriteFolderFinalState(db, e.row.id, e.row.parent)

applyFolderDeleted(db, e) == deleteFavoriteFolderWithParent(db, e.user, e.row.id, e.row.parent)

ApplyTreeImportedOK(db, e) == planFavoriteTreeImport(db, e.row.folders, e.row.boards)
applyTreeImported(db, e) ==
    ImportFavoriteTreeTx(db, e.user, e.row.folders, e.row.boards, e.row.replace)
=============================================================================
