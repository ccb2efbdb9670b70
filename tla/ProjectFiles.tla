----------------------------- MODULE ProjectFiles -----------------------------
(***************************************************************************)
(* The files of one project: the tree on disk and the table file_ownership *)
(* are written in separate steps, by two kinds of actors.  Uploads and the *)
(* agents' writes run on the event loop, one at a time and without a pause *)
(* of their own; the user's deletions and sharing run in the thread pool   *)
(* and can be anywhere between their steps meanwhile.  Deleting the whole  *)
(* project moves its tree away, removes the row and then the tree.         *)
(***************************************************************************)
EXTENDS Integers

CONSTANTS
  NumAgents,    \* agents are numbered in the order they speak
  Paths,        \* files directly in the project's folder
  Contents,     \* what a file may contain
  Threads,      \* threads of the pool
  MaxRequests,  \* bound: requests of the user
  User, None

Agents == 1..NumAgents

VARIABLES
  \* durable
  project,   \* the row of the project is there
  root,      \* its folder is there
  file,      \* what each file in the folder contains, None if it does not exist
  owner,     \* rows of file_ownership
  stranded,  \* a deletion has left files behind in a folder of its own
  \* volatile
  writer,    \* the write in progress on the event loop
  thread,    \* the requests in the thread pool
  deleting,  \* what the deletion of the project does next, None if there is none
  aside,     \* the files that it has moved away (durable), None before
  asked,     \* requests of the user so far
  \* for the properties
  maker,     \* who created the file that is there now: an agent, or the user
             \* once told so
  consent    \* the agent whose file the user last allowed others to edit

content == <<file, maker>>
files == <<content, owner, consent>>
deletion == <<project, stranded, deleting, aside>>
fileVars == <<files, root, deletion, writer, thread, asked>>

Owners == Agents \cup {User}
Rows == [who : Owners, shared : BOOLEAN]
Writes == [who : Owners, path : Paths, content : Contents, existed : BOOLEAN, at : {"put", "own"}]
Requests == [op : {"delete"}, path : Paths, at : {"unlink", "forget"}]
              \cup [op : {"share"}, path : Paths, allowed : BOOLEAN]
Trees == [file : [Paths -> Contents \cup {None}], maker : [Paths -> Owners \cup {None}]]

ASSUME ProjectFilesAssumption ==
  /\ NumAgents \in Nat \ {0}
  /\ MaxRequests \in Nat
  /\ User \notin Agents
  /\ None \notin Agents \cup {User} \cup Contents
  /\ None \notin {"commit", "remove"} \cup Writes \cup Requests \cup Trees

FilesTypeOK ==
  /\ project \in BOOLEAN /\ root \in BOOLEAN /\ stranded \in BOOLEAN
  /\ file \in [Paths -> Contents \cup {None}]
  /\ owner \in [Paths -> Rows \cup {None}]
  /\ writer \in Writes \cup {None}
  /\ thread \in [Threads -> Requests \cup {None}]
  /\ deleting \in {None, "commit", "remove"}
  /\ (aside = None) <=> (deleting = None)
  /\ asked \in 0..MaxRequests
  /\ maker \in [Paths -> Owners \cup {None}]
  /\ consent \in [Paths -> Agents \cup {None}]

\* A project that has been used before: each file there has a row that tells
\* who created it, and the sharing the user has chosen.
FilesInit ==
  /\ project = TRUE /\ root = TRUE /\ stranded = FALSE
  /\ file \in [Paths -> Contents \cup {None}]
  /\ owner \in [Paths -> Rows \cup {None}]
  /\ \A p \in Paths : /\ (file[p] = None) <=> (owner[p] = None)
                      /\ owner[p] # None /\ owner[p].who = User => ~owner[p].shared
  /\ maker = [p \in Paths |-> IF owner[p] = None THEN None ELSE owner[p].who]
  /\ consent = [p \in Paths |-> IF owner[p] # None /\ owner[p].shared THEN owner[p].who ELSE None]
  /\ writer = None
  /\ thread = [t \in Threads |-> None]
  /\ deleting = None /\ aside = None
  /\ asked = 0

\* path.exists() for a path in the project's folder.
Exists(p) == file[p] # None

\* The event loop is neither in a write nor in the deletion of the project.
LoopIsFree == writer = None /\ deleting = None

Ask == project /\ asked < MaxRequests /\ asked' = asked + 1

-----------------------------------------------------------------------------
(* write_file and save_upload, on the event loop.                          *)

\* Mutant of Permitted: uploads are not told from files of agents.
PermittedByPath(a, p) == owner[p] # None

\* An agent may replace a file that it created itself, or one of another
\* agent that is shared.
Permitted(a, p) ==
  /\ owner[p] # None
  /\ owner[p].who \in Agents
  /\ owner[p].who = a \/ owner[p].shared

StartWrite(who, p, c) ==
  writer' = [who |-> who, path |-> p, content |-> c, existed |-> Exists(p), at |-> "put"]

\* The upload of a file; one that exists is refused.
Upload(p, c) ==
  /\ LoopIsFree
  /\ Ask
  /\ IF Exists(p) THEN UNCHANGED writer ELSE StartWrite(User, p, c)
  /\ root' = TRUE
  /\ UNCHANGED <<files, deletion, thread>>

\* The temporary file takes the place of the file, at once.
PutFile ==
  /\ writer # None /\ writer.at = "put"
  /\ LET p == writer.path IN
     /\ file' = [file EXCEPT ![p] = writer.content]
     /\ maker' = IF file[p] # None THEN maker
                 ELSE [maker EXCEPT ![p] = IF writer.who = User THEN None ELSE writer.who]
  /\ writer' = [writer EXCEPT !.at = "own"]
  /\ UNCHANGED <<owner, consent, root, deletion, thread, asked>>

\* The disk or the database refuses: what was done before stays.
AbandonWrite ==
  /\ writer # None
  /\ writer' = None
  /\ UNCHANGED <<files, root, deletion, thread, asked>>

\* The row of a new file is written over one that is already there, but for
\* the column shared_agent_edit; the row of a file that existed is touched.
RecordOwner ==
  /\ writer # None /\ writer.at = "own"
  /\ LET p == writer.path IN
     /\ owner' = IF writer.existed THEN owner
                 ELSE [owner EXCEPT ![p] = [who |-> writer.who, shared |-> @ # None /\ @.shared]]
     /\ maker' = IF writer.who = User /\ file[p] # None THEN [maker EXCEPT ![p] = User] ELSE maker
  /\ writer' = None
  /\ UNCHANGED <<file, consent, root, deletion, thread, asked>>

-----------------------------------------------------------------------------
(* Requests in the thread pool.                                            *)

Free(t) == thread[t] = None

\* Every request looks up the project and makes its folder if need be; one
\* for a file that does not exist ends there.
Arrive(t, p, request) ==
  /\ Free(t)
  /\ Ask
  /\ root' = TRUE
  /\ thread' = [thread EXCEPT ![t] = IF Exists(p) THEN request ELSE None]
  /\ UNCHANGED <<files, deletion, writer>>

BeginDelete(t, p) == Arrive(t, p, [op |-> "delete", path |-> p, at |-> "unlink"])

\* unlink raises when the file has gone meanwhile.
Unlink(t) ==
  /\ thread[t] # None /\ thread[t].op = "delete" /\ thread[t].at = "unlink"
  /\ LET p == thread[t].path IN
     IF Exists(p)
     THEN /\ file' = [file EXCEPT ![p] = None]
          /\ maker' = [maker EXCEPT ![p] = None]
          /\ thread' = [thread EXCEPT ![t].at = "forget"]
     ELSE /\ thread' = [thread EXCEPT ![t] = None]
          /\ UNCHANGED content
  /\ UNCHANGED <<owner, consent, root, deletion, writer, asked>>

RemoveOwner(t) ==
  /\ thread[t] # None /\ thread[t].op = "delete" /\ thread[t].at = "forget"
  /\ owner' = [owner EXCEPT ![thread[t].path] = None]
  /\ thread' = [thread EXCEPT ![t] = None]
  /\ UNCHANGED <<content, consent, root, deletion, writer, asked>>

\* Only what an agent created can be shared.
BeginShare(t, p, allowed) ==
  Arrive(t, p, IF owner[p] # None /\ owner[p].who \in Agents
               THEN [op |-> "share", path |-> p, allowed |-> allowed] ELSE None)

\* The row that is there by now, if any, is updated.
SetSharing(t) ==
  /\ thread[t] # None /\ thread[t].op = "share"
  /\ LET p == thread[t].path IN
     IF owner[p] = None THEN UNCHANGED <<owner, consent>>
     ELSE /\ owner' = [owner EXCEPT ![p].shared = thread[t].allowed]
          /\ consent' = [consent EXCEPT ![p] = IF thread[t].allowed /\ owner[p].who \in Agents
                                               THEN owner[p].who ELSE None]
  /\ thread' = [thread EXCEPT ![t] = None]
  /\ UNCHANGED <<content, root, deletion, writer, asked>>

-----------------------------------------------------------------------------
(* Deletion of the project, on the event loop and under the chat lock.     *)

\* The files in the folder become the ones of tree, and their makers with them.
Hold(tree) ==
  /\ file' = tree.file
  /\ maker' = tree.maker

NoFiles == [file |-> [p \in Paths |-> None], maker |-> [p \in Paths |-> None]]

\* The folder, if it is there, gets another name.
BeginDeleteProject ==
  /\ LoopIsFree
  /\ Ask
  /\ aside' = [file |-> file, maker |-> maker]
  /\ Hold(NoFiles)
  /\ root' = FALSE
  /\ deleting' = "commit"
  /\ UNCHANGED <<project, stranded, owner, consent, writer, thread>>

\* Mutant of CommitDeletion: the rows of the files do not go with it.
CommitDeletionOnly ==
  /\ deleting = "commit"
  /\ project' = FALSE
  /\ deleting' = "remove"
  /\ UNCHANGED <<files, root, stranded, aside, writer, thread, asked>>

\* The row goes, and the rows of the files with it.
CommitDeletion ==
  /\ deleting = "commit"
  /\ project' = FALSE
  /\ owner' = [p \in Paths |-> None]
  /\ deleting' = "remove"
  /\ UNCHANGED <<content, consent, root, stranded, aside, writer, thread, asked>>

\* What the deletion had moved away stays where it is.
Strand ==
  /\ stranded' = (stranded \/ (aside # None /\ aside.file # NoFiles.file))
  /\ deleting' = None
  /\ aside' = None

\* The database fails; the tree is moved back unless a folder is in its place.
AbortDeletion ==
  /\ deleting = "commit"
  /\ root' = TRUE
  /\ IF root THEN Strand /\ UNCHANGED content
     ELSE /\ Hold(aside)
          /\ deleting' = None
          /\ aside' = None
          /\ UNCHANGED stranded
  /\ UNCHANGED <<project, owner, consent, writer, thread, asked>>

RemoveTree ==
  /\ deleting = "remove"
  /\ deleting' = None
  /\ aside' = None
  /\ UNCHANGED <<project, stranded, files, root, writer, thread, asked>>

DeletionStep == CommitDeletion \/ AbortDeletion \/ RemoveTree

ThreadStep ==
  \E t \in Threads : Unlink(t) \/ RemoveOwner(t) \/ SetSharing(t)

\* The process dies: what it was doing is forgotten.
LoseProcess ==
  /\ writer' = None
  /\ thread' = [t \in Threads |-> None]
  /\ Strand
  /\ UNCHANGED <<files, root, project, asked>>

-----------------------------------------------------------------------------
(* Properties.                                                             *)

\* An upload whose success the user was told belongs to no agent, and no agent
\* is about to replace it, whatever deletions, sharing, writes and crashes
\* come before and after it (README.md, "Agents cannot overwrite uploaded user
\* files").
UploadsStayTheUsers ==
  /\ \A p \in Paths : maker[p] = User => owner[p] = None \/ owner[p].who = User
  /\ writer # None /\ writer.who \in Agents => maker[writer.path] # User

\* Once the row of a project has gone, neither its files nor rows about them
\* can be reached.
DeletedIsUnreachable ==
  ~project => \A p \in Paths : file[p] = None /\ owner[p] = None

\* When nothing is being written or deleted, a file of an agent that others
\* may edit is one for which the user has enabled it (SECURITY.md, "Editing
\* another agent's file requires the user to enable sharing for that file").
SharingIsTheUsersChoice ==
  writer = None /\ (\A t \in Threads : thread[t] = None) =>
    \A p \in Paths :
      maker[p] \in Agents /\ owner[p] = [who |-> maker[p], shared |-> TRUE]
        => consent[p] = maker[p]
===============================================================================
