------------------------------- MODULE RootWalk -------------------------------
(***************************************************************************)
(* How a file below the document root is opened (RootDir::open_file of     *)
(* src/fs.rs): one openat for each component of the path, each relative to *)
(* the directory opened before it, and never through a symbolic link.      *)
(* Between two of them whoever owns the document root replaces entries: a  *)
(* directory by a link, a file by a fifo.                                  *)
(*                                                                         *)
(* The name of a directory entry leads to an inode.  What is inside the    *)
(* document root stays inside: no directory is moved across its border, so *)
(* that only a link leads from inside to outside.  The components are      *)
(* those of decode_target: neither "." nor ".." is a name here.            *)
(*                                                                         *)
(* An operator named Bad... is a mutant of the one after it.               *)
(***************************************************************************)
EXTENDS Naturals, Sequences

CONSTANTS
  Dirs, Regulars,              \* the inodes: directories and regular files,
  Links, Fifos,                \* symbolic links and fifos
  LinkTarget,                  \* where each link leads
  NoAccess,                    \* the inodes that may not be opened
  Inside,                      \* the inodes inside the document root
  Root,                        \* the directory RootDir holds open
  Names,                       \* the names of entries
  Paths,                       \* sequences of components
  Initial,                     \* the trees to begin with
  Scopes,                      \* sets of directories in which entries are replaced
  MaxChanges,                  \* bound: replacements during one call
  None                         \* no entry

Inodes == Dirs \cup Regulars \cup Links \cup Fifos

\* The trees whose entries, inside the document root, are inside and below it.
IsTree(tree) ==
  /\ tree \in [Dirs -> [Names -> Inodes \cup {None}]]
  /\ \A d \in Dirs \cap Inside, n \in Names : tree[d][n] \in (Inside \ {Root}) \cup {None}

ASSUME RootAssumption ==
  /\ Dirs \cap Regulars = {} /\ Links \cap (Dirs \cup Regulars) = {}
  /\ Fifos \cap (Dirs \cup Regulars \cup Links) = {}
  /\ None \notin Inodes
  /\ LinkTarget \in [Links -> Inodes]
  /\ Inside \subseteq Inodes
  /\ Root \in (Dirs \cap Inside) \ NoAccess
  /\ Paths \subseteq Seq(Names)
  /\ \A tree \in Initial : IsTree(tree)
  /\ \A scope \in Scopes : scope \subseteq Dirs \cap Inside
  /\ MaxChanges \in Nat

VARIABLES
  tree,       \* what each entry of each directory leads to
  changing,   \* the directories in which entries are replaced
  stage,      \* "idle", "walk", or how open_file ended
  path,       \* its components
  index,      \* how many of them are opened
  current,    \* the inode that is open
  changes     \* replacements since the call

walkVars == <<tree, changing, stage, path, index, current, changes>>

Ends == {"opened", "notFound", "failed"}

WalkTypeOK ==
  /\ IsTree(tree)
  /\ changing \in Scopes
  /\ stage \in {"idle", "walk", "blocked"} \cup Ends
  /\ path \in Seq(Names)
  /\ index \in 0..Len(path)
  /\ current \in Inodes
  /\ stage = "walk" => index < Len(path) /\ current \in Dirs
  /\ changes \in 0..MaxChanges

WalkInit ==
  /\ tree \in Initial
  /\ changing \in Scopes
  /\ stage = "idle"
  /\ path = <<>>
  /\ index = 0
  /\ current = Root
  /\ changes = 0

-----------------------------------------------------------------------------
(* open_file. *)

\* An empty path; or the root is duplicated, which may fail.  A call leaves
\* nothing behind for the next: one is looked at.
StartWalk(p) ==
  /\ stage = "idle"
  /\ path' = p
  /\ index' = 0
  /\ current' = Root
  /\ stage' \in IF p = <<>> THEN {"notFound"} ELSE {"walk", "failed"}
  /\ changes' = 0
  /\ UNCHANGED <<tree, changing>>

BadLedTo == LET inode == tree[current][path[index + 1]]    \* no O_NOFOLLOW
            IN IF inode \in Links THEN LinkTarget[inode] ELSE inode

\* The inode the next openat finds.
LedTo == tree[current][path[index + 1]]

IsLast == index + 1 = Len(path)

\* O_DIRECTORY
IsDirectory(inode) == inode \in Dirs \ NoAccess

StepDown ==
  /\ stage = "walk" /\ ~IsLast
  /\ IsDirectory(LedTo)
  /\ current' = LedTo
  /\ index' = index + 1
  /\ UNCHANGED <<tree, changing, stage, path, changes>>

BadBlocks(inode) == inode \in Fifos    \* no O_NONBLOCK: until somebody writes

Blocks(inode) == FALSE

BadIsFile(inode) == inode \in Regulars \cup Fifos    \* whatever can be read

\* metadata().is_file(), of the open descriptor
IsFile(inode) == inode \in Regulars

OpenLast ==
  /\ stage = "walk" /\ IsLast
  /\ LedTo \in Inodes \ (Links \cup NoAccess)
  /\ current' = LedTo
  /\ index' = index + 1
  /\ stage' = IF Blocks(LedTo) THEN "blocked" ELSE IF IsFile(LedTo) THEN "opened" ELSE "notFound"
  /\ UNCHANGED <<tree, changing, path, changes>>

\* ENOENT, EACCES, ELOOP, ENOTDIR: all of them what is_not_found accepts.
OpenMissing ==
  /\ stage = "walk"
  /\ IF IsLast THEN LedTo \notin Inodes \ (Links \cup NoAccess) ELSE ~IsDirectory(LedTo)
  /\ stage' = "notFound"
  /\ UNCHANGED <<tree, changing, path, index, current, changes>>

\* Any other error: no descriptor left, no memory, the disk.
OpenFails ==
  /\ stage = "walk"
  /\ stage' = "failed"
  /\ UNCHANGED <<tree, changing, path, index, current, changes>>

\* Somebody replaces, adds or removes an entry.
Replace(d, n, inode) ==
  /\ stage = "walk"
  /\ changes < MaxChanges
  /\ tree' = [tree EXCEPT ![d][n] = inode]
  /\ changes' = changes + 1
  /\ UNCHANGED <<changing, stage, path, index, current>>

WalkStep == StepDown \/ OpenLast \/ OpenMissing \/ OpenFails

\* open_file has returned, or never will.
Done == stage \in Ends \cup {"blocked"} /\ UNCHANGED walkVars

WalkNext ==
  \/ \E p \in Paths : StartWalk(p)
  \/ WalkStep
  \/ Done
  \/ \E d \in changing, n \in Names, inode \in (Inside \ {Root}) \cup {None} : Replace(d, n, inode)

WalkSpec == WalkInit /\ [][WalkNext]_walkVars

\* A system call returns; blocked is the one that does not.
FairWalkSpec == WalkSpec /\ WF_walkVars(WalkStep)

-----------------------------------------------------------------------------
(* The path as it is in one tree. *)

Down(t, inode, n) == IF inode \in Dirs \ NoAccess THEN t[inode][n] ELSE None

\* The regular file that the components of p after the i-th lead to from d.
LookupFrom(t, d, p, i) ==
  LET reached[j \in i..Len(p)] == IF j = i THEN d ELSE Down(t, reached[j-1], p[j])
      inode == reached[Len(p)]
  IN IF inode \in Regulars \ NoAccess THEN inode ELSE None

Lookup(t, p) == LookupFrom(t, Root, p, 0)

-----------------------------------------------------------------------------
(* Properties. *)

\* README.md:21: whatever links are put into the document root, and whenever,
\* the walk never leaves it, and what it opens is a regular file in it.
Confined ==
  /\ stage = "walk" => current \in Inside
  /\ stage = "opened" => current \in Inside \cap Regulars

\* Whatever is put in its way, a fifo included, the walk ends.
WalkEnds == stage = "walk" ~> stage \in Ends

\* What the walk has seen of the tree, if only entries of the root are replaced,
\* as when a release is put in place by renaming: it looks but once, as it opens
\* the first component.
Seen ==
  IF stage = "opened" THEN {current}
  ELSE IF stage = "notFound" THEN {None}
  ELSE IF index = 0 THEN {} ELSE {LookupFrom(tree, current, path, index)}

AtOnce == changing \subseteq {Root}

Atomic == INSTANCE AtomicOpen WITH
            Trees  <- {t \in [Dirs -> [Names -> Inodes \cup {None}]] : IsTree(t)},
            Absent <- None,
            asked  <- IF AtOnce THEN path ELSE <<>>,
            seen   <- IF AtOnce THEN Seen ELSE {},
            answer <- IF ~AtOnce THEN "idle" ELSE IF stage = "walk" THEN "pending" ELSE stage

\* Then the answer is that of one tree: the file that was at the path in it, or
\* the truth that there was none; a link, a fifo and a directory are none.  If
\* directories further down change, no single tree need have it.
OpensAtomically == Atomic!OpenSpec
=============================================================================
