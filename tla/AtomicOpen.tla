------------------------------ MODULE AtomicOpen ------------------------------
(***************************************************************************)
(* What opening a file below the document root promises: it takes one look *)
(* at the whole tree and returns the regular file that it saw at the path, *)
(* if there was one, or gives up because of an error.  StaticFiles is      *)
(* written in these terms.                                                 *)
(***************************************************************************)
CONSTANTS
  Paths,          \* what may be opened
  Trees,          \* what the document root may contain
  Lookup(_, _),   \* the file a tree has at a path, or Absent
  Absent

VARIABLES
  tree,           \* the document root now
  asked,          \* the path that is being opened, or was opened last
  seen,           \* the set of what was seen there: nothing until it has looked
  answer          \* "idle", "pending", or how the call ended

openVars == <<tree, asked, seen, answer>>

OpenInit ==
  /\ tree \in Trees
  /\ asked = <<>>
  /\ seen = {}
  /\ answer = "idle"

Ask(path) ==
  /\ answer # "pending"
  /\ answer' = "pending"
  /\ asked' = path
  /\ seen' = {}
  /\ UNCHANGED tree

Look ==
  /\ answer = "pending" /\ seen = {}
  /\ seen' = {Lookup(tree, asked)}
  /\ UNCHANGED <<tree, asked, answer>>

Return ==
  /\ answer = "pending" /\ seen # {}
  /\ answer' = IF seen = {Absent} THEN "notFound" ELSE "opened"
  /\ UNCHANGED <<tree, asked, seen>>

\* The last look, and the answer.
LookAndReturn ==
  /\ answer = "pending" /\ seen = {}
  /\ seen' = {Lookup(tree, asked)}
  /\ answer' = IF seen' = {Absent} THEN "notFound" ELSE "opened"
  /\ UNCHANGED <<tree, asked>>

GiveUp ==
  /\ answer = "pending"
  /\ answer' = "failed"
  /\ UNCHANGED <<tree, asked, seen>>

\* The call that fails at once, and the one whose path is empty.
AskInVain(path) ==
  /\ answer # "pending"
  /\ asked' = path
  /\ \/ seen' = {} /\ answer' = "failed"
     \/ Lookup(tree, path) = Absent /\ seen' = {Absent} /\ answer' = "notFound"
  /\ UNCHANGED tree

ChangeTree ==
  /\ tree' \in Trees
  /\ UNCHANGED <<asked, seen, answer>>

OpenNext ==
  \/ \E path \in Paths : Ask(path) \/ AskInVain(path)
  \/ Look \/ Return \/ LookAndReturn \/ GiveUp \/ ChangeTree

OpenSpec == OpenInit /\ [][OpenNext]_openVars
=============================================================================
