--------------------------- MODULE ToolLoopProofs ---------------------------
(***************************************************************************)
(* That uploads stay the user's and that nothing of a deleted project can  *)
(* be reached, for any agents, files, calls, limits and threads.  The      *)
(* first is about steps that different actors take one at a time: a write  *)
(* looks at the row of the owner before it puts the file, and a thread of  *)
(* the pool may remove either in between.  What saves it is that a row of  *)
(* an agent can only appear where no upload has been, and that only the    *)
(* event loop makes rows appear.                                           *)
(***************************************************************************)
EXTENDS ToolLoop, TLAPS

Deleting == deleting \in {"commit", "remove"}

\* The tree, the rows and the requests in progress.
FileTypes ==
  /\ file \in [Paths -> Contents \cup {None}]
  /\ maker \in [Paths -> Owners \cup {None}]
  /\ owner \in [Paths -> Rows \cup {None}]
  /\ writer \in Writes \cup {None}
  /\ thread \in [Threads -> Requests \cup {None}]
  /\ deleting = "commit" => aside \in Trees

\* While the project is being deleted, and after that, its folder is empty
\* and the event loop writes nothing.
Emptied ==
  /\ Deleting \/ ~project => writer = None /\ \A p \in Paths : file[p] = None
  /\ deleting = "commit" => project
  /\ ~project => \A p \in Paths : owner[p] = None

\* An upload's row is the user's or missing, in the folder and in what is
\* moved away; where there is no file, there is no upload.
Kept(tree) ==
  \A p \in Paths : tree.maker[p] = User =>
    /\ tree.file[p] # None
    /\ owner[p] = None \/ owner[p].who = User

UploadsKept ==
  /\ Kept([file |-> file, maker |-> maker])
  /\ deleting = "commit" => Kept(aside)
  /\ writer # None /\ writer.who \in Agents => maker[writer.path] # User
  /\ writer # None /\ writer.who = User => ~writer.existed

FileInv == FileTypes /\ Emptied /\ UploadsKept

Loops ==
  [at : Places, agent : Agents, round : Int, left : Int, index : Int, total : Int,
   retries : Int, acted : BOOLEAN, call : Calls \cup {None}, fresh : BOOLEAN,
   result : Outcomes \cup {"ok", "error", None}]

\* The turn is idle while its project is deleted, and asks participants only.
LoopInv ==
  /\ loop \in Loops
  /\ loop.at \in {"recover", "run", "writing", "settle"} => loop.call \in Calls
  /\ Deleting \/ ~project => loop.at = "idle"

IInv == FileInv /\ LoopInv

USE ProjectFilesAssumption, ToolLoopAssumption
-----------------------------------------------------------------------------
\* The invariant gives the two properties.
LEMMA IInvImplies == IInv => UploadsStayTheUsers /\ DeletedIsUnreachable
BY DEF IInv, FileInv, FileTypes, Emptied, UploadsKept, Kept, UploadsStayTheUsers, DeletedIsUnreachable

LEMMA InitIInv == Init => IInv
<1> SUFFICES ASSUME Init PROVE IInv
  OBVIOUS
<1>1. FileTypes
  BY DEF Init, FilesInit, FileTypes, Owners, Rows
<1>2. Emptied
  BY DEF Init, FilesInit, Emptied, Deleting
<1>3. UploadsKept
  BY DEF Init, FilesInit, UploadsKept, Kept, Rows, Owners
<1>4. LoopInv
  BY DEF Init, FilesInit, LoopInv, Loops, Idle, Places, Outcomes, Deleting, Agents
<1> QED BY <1>1, <1>2, <1>3, <1>4 DEF IInv, FileInv
-----------------------------------------------------------------------------
(* The steps on files.                                                     *)

\* Whatever leaves the files, their rows and the deletion alone.
LEMMA SameFiles == FileInv /\ UNCHANGED <<file, maker, owner, project, deleting, aside, writer, thread>>
                   => FileInv'
BY DEF FileInv, FileTypes, Emptied, UploadsKept, Kept, Deleting, Trees

\* A write begins where the writer may write.
LEMMA StartWriteKeeps ==
  ASSUME FileInv, project, ~Deleting, NEW who \in Owners, NEW p \in Paths, NEW c \in Contents,
         who \in Agents => (Exists(p) => Permitted(who, p)),
         who = User => ~Exists(p),
         StartWrite(who, p, c),
         UNCHANGED <<file, maker, owner, project, deleting, aside, thread>>
  PROVE  FileInv'
<1>1. FileTypes'
  BY DEF FileInv, FileTypes, StartWrite, Writes, Exists, Trees
<1>2. Emptied'
  BY DEF FileInv, Emptied, Deleting
<1>3. writer' # None => writer'.who = who /\ writer'.path = p /\ writer'.existed = Exists(p)
  BY DEF StartWrite
<1>4. who \in Agents => maker[p] # User
  BY DEF FileInv, UploadsKept, Kept, Exists, Permitted
<1>5. UploadsKept'
  BY <1>3, <1>4 DEF FileInv, UploadsKept, Kept
<1> QED BY <1>1, <1>2, <1>5 DEF FileInv

LEMMA PutFileKeeps == FileInv /\ PutFile => FileInv'
<1> SUFFICES ASSUME FileInv, PutFile PROVE FileInv'
  OBVIOUS
<1> DEFINE p == writer.path
<1>1. writer \in Writes /\ p \in Paths
  BY DEF PutFile, FileInv, FileTypes, Writes
<1>2. ~Deleting /\ project
  BY DEF PutFile, FileInv, Emptied
<1>3. FileTypes'
  BY <1>1, <1>2 DEF PutFile, FileInv, FileTypes, Writes, Owners, deletion, Deleting
<1>4. Emptied'
  BY <1>2 DEF PutFile, Emptied, Deleting, deletion
<1>5. /\ writer'.who = writer.who /\ writer'.path = p /\ writer'.existed = writer.existed
      /\ file'[p] = writer.content /\ writer.content # None
      /\ \A q \in Paths : q # p => file'[q] = file[q] /\ maker'[q] = maker[q]
      /\ maker'[p] = User => maker[p] = User
  BY <1>1 DEF PutFile, FileInv, FileTypes, Writes
<1>6. UploadsKept'
  BY <1>1, <1>2, <1>5 DEF PutFile, FileInv, UploadsKept, Kept, Deleting, deletion
<1> QED BY <1>3, <1>4, <1>6 DEF FileInv

LEMMA RecordOwnerKeeps == FileInv /\ RecordOwner => FileInv'
<1> SUFFICES ASSUME FileInv, RecordOwner PROVE FileInv'
  OBVIOUS
<1> DEFINE p == writer.path
<1>1. writer \in Writes /\ p \in Paths
  BY DEF RecordOwner, FileInv, FileTypes, Writes
<1>2. ~Deleting /\ project
  BY DEF RecordOwner, FileInv, Emptied
<1>3. FileTypes'
  BY <1>1, <1>2 DEF RecordOwner, FileInv, FileTypes, Writes, Rows, Owners, deletion, Deleting
<1>4. Emptied'
  BY <1>2 DEF RecordOwner, Emptied, Deleting, deletion
<1>5. /\ writer' = None /\ file' = file
      /\ \A q \in Paths : q # p => owner'[q] = owner[q] /\ maker'[q] = maker[q]
  BY <1>1 DEF RecordOwner, FileInv, FileTypes
<1>6. maker'[p] = User => file[p] # None /\ (owner'[p] = None \/ owner'[p].who = User)
  <2>1. CASE writer.who = User
    BY <1>1, <2>1 DEF RecordOwner, FileInv, FileTypes, UploadsKept, Kept
  <2>2. CASE writer.who # User
    BY <1>1, <2>2 DEF RecordOwner, FileInv, FileTypes, UploadsKept, Kept, Writes, Owners
  <2> QED BY <2>1, <2>2
<1>7. UploadsKept'
  BY <1>1, <1>2, <1>5, <1>6 DEF RecordOwner, FileInv, UploadsKept, Kept, Deleting, deletion
<1> QED BY <1>3, <1>4, <1>7 DEF FileInv

LEMMA AbandonWriteKeeps == FileInv /\ AbandonWrite => FileInv'
BY DEF AbandonWrite, FileInv, FileTypes, Emptied, UploadsKept, Kept, Deleting, deletion, files, content, Trees

\* The requests in the thread pool take rows away or leave their owner.
LEMMA ThreadKeeps == FileInv /\ ThreadStep => FileInv'
<1> SUFFICES ASSUME FileInv, NEW t \in Threads, Unlink(t) \/ RemoveOwner(t) \/ SetSharing(t)
             PROVE FileInv'
  BY DEF ThreadStep
<1> DEFINE p == thread[t].path
<1>1. thread[t] \in Requests /\ p \in Paths
  BY DEF FileInv, FileTypes, Requests, Unlink, RemoveOwner, SetSharing
<1>2. UNCHANGED <<project, deleting, aside, writer>>
  BY DEF Unlink, RemoveOwner, SetSharing, deletion
<1>3. CASE Unlink(t)
  <2>1. FileTypes'
    BY <1>1, <1>2, <1>3 DEF Unlink, FileInv, FileTypes, Requests, content, Trees
  <2>2. /\ owner' = owner
        /\ \A q \in Paths : \/ file'[q] = file[q] /\ maker'[q] = maker[q]
                            \/ file'[q] = None /\ maker'[q] = None
    BY <1>1, <1>3 DEF Unlink, FileInv, FileTypes, content
  <2>3. Emptied'
    BY <1>2, <2>2 DEF FileInv, Emptied, Deleting
  <2>4. writer # None => writer.path \in Paths
    BY DEF FileInv, FileTypes, Writes
  <2>5. UploadsKept'
    BY <1>2, <2>2, <2>4 DEF FileInv, UploadsKept, Kept
  <2> QED BY <2>1, <2>3, <2>5 DEF FileInv
<1>4. CASE RemoveOwner(t)
  <2>1. FileTypes'
    BY <1>1, <1>2, <1>4 DEF RemoveOwner, FileInv, FileTypes, Requests, content, Trees
  <2>2. Emptied' /\ UploadsKept'
    BY <1>1, <1>2, <1>4 DEF RemoveOwner, FileInv, FileTypes, Emptied, UploadsKept, Kept, content, Deleting
  <2> QED BY <2>1, <2>2 DEF FileInv
<1>5. CASE SetSharing(t)
  <2>1. /\ owner' \in [Paths -> Rows \cup {None}]
        /\ \A q \in Paths : owner[q] = None => owner'[q] = None
        /\ \A q \in Paths : owner[q] # None => owner'[q] = None \/ owner'[q].who = owner[q].who
    BY <1>1, <1>5 DEF SetSharing, FileInv, FileTypes, Requests, Rows
  <2>2. FileTypes'
    BY <1>1, <1>2, <1>5, <2>1 DEF SetSharing, FileInv, FileTypes, Requests, content, Trees
  <2>3. Emptied' /\ UploadsKept'
    BY <1>2, <1>5, <2>1 DEF SetSharing, FileInv, Emptied, UploadsKept, Kept, content, Deleting
  <2> QED BY <2>2, <2>3 DEF FileInv
<1> QED BY <1>3, <1>4, <1>5

LEMMA BeginDeleteProjectKeeps == FileInv /\ BeginDeleteProject => FileInv'
<1> SUFFICES ASSUME FileInv, BeginDeleteProject PROVE FileInv'
  OBVIOUS
<1>1. aside' \in Trees /\ aside'.file = file /\ aside'.maker = maker
  BY DEF BeginDeleteProject, FileInv, FileTypes, Trees
<1>2. FileTypes'
  BY <1>1 DEF BeginDeleteProject, Hold, NoFiles, FileInv, FileTypes
<1>3. Emptied'
  BY DEF BeginDeleteProject, LoopIsFree, Ask, Hold, NoFiles, FileInv, Emptied, Deleting
<1>4. UploadsKept'
  BY <1>1 DEF BeginDeleteProject, LoopIsFree, Hold, NoFiles, FileInv, UploadsKept, Kept
<1> QED BY <1>2, <1>3, <1>4 DEF FileInv

LEMMA DeletionKeeps == FileInv /\ DeletionStep => FileInv'
<1> SUFFICES ASSUME FileInv, DeletionStep PROVE FileInv'
  OBVIOUS
<1>1. CASE CommitDeletion
  BY <1>1 DEF CommitDeletion, FileInv, FileTypes, Emptied, UploadsKept, Kept, Deleting, content
<1>2. CASE AbortDeletion
  <2>1. project /\ writer = None /\ aside \in Trees /\ deleting' = None
    BY <1>2 DEF AbortDeletion, Strand, FileInv, FileTypes, Emptied, Deleting
  <2>2. UNCHANGED <<file, maker>> \/ (file' = aside.file /\ maker' = aside.maker)
    BY <1>2 DEF AbortDeletion, Hold, content
  <2>3. FileTypes'
    BY <1>2, <2>1, <2>2 DEF AbortDeletion, FileInv, FileTypes, Trees
  <2>4. Emptied'
    BY <1>2, <2>1 DEF AbortDeletion, Emptied, Deleting
  <2>5. UploadsKept'
    BY <1>2, <2>1, <2>2 DEF AbortDeletion, FileInv, UploadsKept, Kept
  <2> QED BY <2>3, <2>4, <2>5 DEF FileInv
<1>3. CASE RemoveTree
  BY <1>3 DEF RemoveTree, FileInv, FileTypes, Emptied, UploadsKept, Kept, Deleting, files, content
<1> QED BY <1>1, <1>2, <1>3 DEF DeletionStep

LEMMA LoseProcessKeeps == FileInv /\ LoseProcess => FileInv'
BY DEF LoseProcess, Strand, FileInv, FileTypes, Emptied, UploadsKept, Kept, Deleting, files, content

LEMMA ArriveKeeps ==
  ASSUME FileInv, NEW t \in Threads, NEW p \in Paths, NEW request \in Requests \cup {None},
         Arrive(t, p, request)
  PROVE  FileInv'
BY DEF Arrive, FileInv, FileTypes, Emptied, UploadsKept, Kept, Deleting, files, content, deletion, Trees
-----------------------------------------------------------------------------
(* The steps of the turn.                                                  *)

\* Where the event loop is free and the turn under way, the project is there.
LEMMA TurnHasProject == IInv /\ loop.at # "idle" => project /\ ~Deleting
BY DEF IInv, LoopInv

LEMMA IdleType == Idle \in Loops
BY DEF Idle, Loops, Places, Outcomes, Agents

LEMMA EndTypes == ASSUME LoopInv, NEW r \in Outcomes, End(r), UNCHANGED <<deleting, project>>,
                         project, ~Deleting
                  PROVE  LoopInv'
BY DEF LoopInv, Loops, End, Places, Deleting

\* What becomes of the counts after a call, and after the last one.
LEMMA CallsLeftType ==
  ASSUME NEW l \in Loops, NEW i \in Int, NEW j \in Int, "tool" \in Places
  PROVE  /\ [l EXCEPT !.at = "tool", !.left = i, !.index = j] \in Loops
         /\ [l EXCEPT !.at = "tool", !.left = i, !.index = j].at = "tool"
BY DEF Loops

LEMMA NextRoundType ==
  ASSUME NEW l \in Loops, NEW i \in Int, NEW j \in Int, "asking" \in Places
  PROVE  /\ [l EXCEPT !.at = "asking", !.round = i, !.left = j] \in Loops
         /\ [l EXCEPT !.at = "asking", !.round = i, !.left = j].at = "asking"
BY DEF Loops

LEMMA AfterCallTypes ==
  ASSUME LoopInv, NEW call \in Calls, NEW ok \in BOOLEAN, AfterCall(call, ok),
         UNCHANGED <<deleting, project>>, project, ~Deleting
  PROVE  LoopInv'
<1> DEFINE acts == ok /\ call.tool # "record_motif_observations"
           told == [loop EXCEPT !.acted = @ \/ acts, !.call = None, !.fresh = FALSE,
                                !.result = None]
<1> HIDE DEF acts
<1>1. told \in Loops
  BY DEF LoopInv, Loops
<1>2. \/ loop' = [told EXCEPT !.at = "asking", !.round = @ + 1, !.left = 0]
      \/ loop' = [told EXCEPT !.at = "tool", !.left = @ - 1, !.index = @ + 1]
  BY DEF AfterCall, acts
<1> HIDE DEF told
<1>3. /\ 0 \in Int /\ told.round + 1 \in Int /\ told.left - 1 \in Int /\ told.index + 1 \in Int
      /\ "asking" \in Places /\ "tool" \in Places
  BY <1>1 DEF Loops, Places
<1>4. CASE loop' = [told EXCEPT !.at = "asking", !.round = @ + 1, !.left = 0]
  <2>1. loop' \in Loops /\ loop'.at = "asking"
    BY <1>1, <1>3, <1>4, NextRoundType, Zenon
  <2> QED BY <2>1 DEF LoopInv, Deleting
<1>5. CASE loop' = [told EXCEPT !.at = "tool", !.left = @ - 1, !.index = @ + 1]
  <2>1. loop' \in Loops /\ loop'.at = "tool"
    BY <1>1, <1>3, <1>5, CallsLeftType
  <2> QED BY <2>1 DEF LoopInv, Deleting
<1> QED BY <1>2, <1>4, <1>5

LEMMA ResultTypes ==
  ASSUME LoopInv, NEW r \in {"ok", "error"}, Result(r), loop.call \in Calls,
         UNCHANGED <<deleting, project>>, project, ~Deleting
  PROVE  LoopInv'
BY DEF LoopInv, Loops, Result, Places, Deleting

\* The places of the turn at which the event loop is free.
LEMMA AtPlace == ASSUME IInv, NEW place, place # "idle", At(place)
                 PROVE  loop.at = place /\ LoopIsFree /\ project /\ ~Deleting
BY TurnHasProject DEF At

LEMMA CallTypes == ASSUME NEW call \in Calls, call.tool = "write_project_file"
                   PROVE  call.path \in Paths /\ call.content \in Contents
OBVIOUS

\* What leaves the files alone.
LEMMA LoopStep == IInv /\ UNCHANGED fileVars /\ LoopInv' => IInv'
BY SameFiles DEF IInv, fileVars, files, content, deletion

\* The turn starts, asks and is answered.
LEMMA RequestKeeps ==
  ASSUME IInv, StartTurn \/ NextAgent \/ ProviderAnswers \/ SearchAnswers \/ ProviderFails \/ Checkpoint
  PROVE  IInv'
<1>1. LoopInv
  BY DEF IInv
<1>2. UNCHANGED fileVars /\ UNCHANGED <<deleting, project>>
  BY DEF StartTurn, NextAgent, ProviderAnswers, SearchAnswers, ProviderFails, Checkpoint, fileVars, deletion
<1>3. project /\ ~Deleting
  BY AtPlace DEF StartTurn, NextAgent, ProviderAnswers, SearchAnswers, ProviderFails, Checkpoint,
                 At, LoopIsFree, Deleting
<1>4. CASE StartTurn
  <2>1. LoopInv'
    BY <1>1, <1>2, <1>3, <1>4 DEF StartTurn, LoopInv, Loops, Places, Deleting
  <2> QED BY <1>2, <2>1, LoopStep
<1>5. CASE NextAgent
  <2>1. LoopInv'
    <3>1. CASE loop' = Idle
      BY <1>2, <1>3, <3>1, IdleType DEF LoopInv, Idle, Deleting
    <3>2. ASSUME NEW a \in Participants, NEW at \in {"asking", "searching"},
                 loop' = [Idle EXCEPT !.at = at, !.agent = a]
          PROVE  LoopInv'
      <4>1. loop' \in Loops /\ loop'.at = at
        BY <3>2, IdleType DEF Loops, Places
      <4> QED BY <1>2, <1>3, <4>1 DEF LoopInv, Deleting
    <3> QED BY <1>5, <3>1, <3>2 DEF NextAgent
  <2> QED BY <1>2, <2>1, LoopStep
<1>6. CASE ProviderAnswers
  <2>1. CASE End("answer")
    BY <1>1, <1>2, <1>3, <2>1, LoopStep, EndTypes DEF Outcomes
  <2>2. CASE FinishSilently
    <3>1. \/ End("fallback") \/ End("failed")
          \/ loop' = [loop EXCEPT !.round = @ + 1, !.retries = @ + 1]
      BY <2>2 DEF FinishSilently
    <3>2. CASE loop' = [loop EXCEPT !.round = @ + 1, !.retries = @ + 1]
      <4>1. loop.round + 1 \in Int /\ loop.retries + 1 \in Int
        BY <1>1 DEF LoopInv, Loops
      <4>2. loop' \in Loops /\ loop'.at = loop.at /\ loop'.call = loop.call
        BY <1>1, <3>2, <4>1 DEF LoopInv, Loops
      <4>3. LoopInv'
        BY <1>1, <1>2, <4>2 DEF LoopInv, Deleting
      <4> QED BY <1>2, <4>3, LoopStep
    <3>3. CASE End("fallback") \/ End("failed")
      BY <1>1, <1>2, <1>3, <3>3, LoopStep, EndTypes DEF Outcomes
    <3> QED BY <3>1, <3>2, <3>3
  <2>3. ASSUME NEW n \in 1..CallsPerResponse + 1, TakeCalls(n) PROVE IInv'
    <3>1. CASE End("failed")
      BY <1>1, <1>2, <1>3, <3>1, LoopStep, EndTypes DEF Outcomes
    <3>2. CASE loop' = [loop EXCEPT !.at = "tool", !.left = n, !.index = 1, !.total = @ + n]
      <4>1. loop \in Loops /\ 1 \in Int /\ n \in Int /\ loop.total + n \in Int /\ "tool" \in Places
        BY <1>1 DEF LoopInv, Loops, Places
      <4>2. loop' \in Loops /\ loop'.at = "tool"
        <5> DEFINE one == 1
                   sum == loop.total + n
        <5>1. one \in Int /\ sum \in Int
          BY <4>1
        <5>2. loop' = [loop EXCEPT !.at = "tool", !.left = n, !.index = one, !.total = sum]
          BY <3>2
        <5> HIDE DEF one, sum
        <5>3. /\ [loop EXCEPT !.at = "tool", !.left = n, !.index = one, !.total = sum] \in Loops
              /\ [loop EXCEPT !.at = "tool", !.left = n, !.index = one, !.total = sum].at = "tool"
          BY <4>1, <5>1 DEF Loops
        <5> QED BY <5>2, <5>3, Zenon
      <4>3. LoopInv'
        BY <1>2, <1>3, <4>2 DEF LoopInv, Deleting
      <4> QED BY <1>2, <4>3, LoopStep
    <3> QED BY <2>3, <3>1, <3>2 DEF TakeCalls
  <2> QED BY <1>6, <2>1, <2>2, <2>3 DEF ProviderAnswers
<1>7. CASE SearchAnswers \/ ProviderFails
  BY <1>1, <1>2, <1>3, <1>7, LoopStep, EndTypes DEF SearchAnswers, ProviderFails, Outcomes
<1>8. CASE Checkpoint
  <2>1. LoopInv'
    BY <1>1, <1>2, <1>3, <1>8 DEF Checkpoint, LoopInv, Loops, Places, Deleting
  <2> QED BY <1>2, <2>1, LoopStep
<1> QED BY <1>4, <1>5, <1>6, <1>7, <1>8

\* A call is begun, recovered, run and completed.
LEMMA ToolKeeps == IInv /\ ToolStep => IInv'
<1> SUFFICES ASSUME IInv, ToolStep PROVE IInv'
  OBVIOUS
<1>1. FileInv /\ LoopInv
  BY DEF IInv
<1>2. LoopIsFree /\ project /\ ~Deleting
  BY AtPlace DEF ToolStep, CallReader, CallChanger, RecoverWrite, RecoverPersona, RecoverMotifs,
                 RunWrite, RunPersona, RunMotifs, CompleteOperation, FailOperation
<1>3. loop.at \in {"recover", "run", "writing", "settle"} => loop.call \in Calls
  BY <1>1 DEF LoopInv
<1>4. UNCHANGED <<deleting, project>>
  BY DEF ToolStep, CallReader, CallChanger, RecoverWrite, RecoverPersona, RecoverMotifs,
         RunWrite, RunPersona, RunMotifs, CompleteOperation, FailOperation, fileVars, deletion
<1>5. ASSUME RunIt, loop.call \in Calls PROVE LoopInv'
  BY <1>1, <1>2, <1>4, <1>5 DEF RunIt, LoopInv, Loops, Places, Deleting
<1>6. CASE CallReader
  <2>1. LoopInv'
    BY <1>1, <1>2, <1>4, <1>6, AfterCallTypes DEF CallReader
  <2> QED BY <1>6, <2>1, LoopStep DEF CallReader
<1>7. CASE CallChanger
  <2>1. PICK call \in Calls : BeginOperation(call)
    BY <1>7 DEF CallChanger
  <2>2. \/ \E fresh \in BOOLEAN, at \in {"run", "recover"} :
             loop' = [loop EXCEPT !.at = at, !.call = call, !.fresh = fresh]
        \/ \E ok \in BOOLEAN : AfterCall(call, ok)
    BY <2>1 DEF BeginOperation
  <2>3. ASSUME NEW fresh \in BOOLEAN, NEW at \in {"run", "recover"},
               loop' = [loop EXCEPT !.at = at, !.call = call, !.fresh = fresh]
        PROVE  LoopInv'
    BY <1>1, <1>2, <1>4, <2>3 DEF LoopInv, Loops, Places, Deleting
  <2>4. LoopInv'
    BY <1>1, <1>2, <1>4, <2>2, <2>3, AfterCallTypes
  <2> QED BY <1>7, <2>4, LoopStep DEF CallChanger
<1>8. CASE RecoverWrite \/ RecoverPersona \/ RecoverMotifs
  <2>1. LoopInv'
    BY <1>1, <1>2, <1>3, <1>4, <1>5, <1>8, ResultTypes
    DEF RecoverWrite, RecoverPersona, RecoverMotifs, At
  <2> QED BY <1>8, <2>1, LoopStep DEF RecoverWrite, RecoverPersona, RecoverMotifs
<1>9. CASE RunWrite
  <2>1. /\ loop.call.path \in Paths /\ loop.call.content \in Contents
        /\ loop.agent \in Agents /\ loop.call \in Calls
    BY <1>1, <1>3, <1>9, CallTypes DEF RunWrite, At, LoopInv, Loops
  <2>2. CASE Result("error") /\ UNCHANGED writer
    <3>1. LoopInv'
      BY <1>1, <1>2, <1>4, <2>1, <2>2, ResultTypes
    <3> QED BY <1>1, <1>9, <2>2, <3>1, SameFiles DEF RunWrite, IInv, files, content, deletion
  <2>3. CASE /\ Exists(loop.call.path) => Permitted(loop.agent, loop.call.path)
             /\ StartWrite(loop.agent, loop.call.path, loop.call.content)
             /\ loop' = [loop EXCEPT !.at = "writing"]
    <3>1. LoopInv'
      BY <1>1, <1>2, <1>4, <2>1, <2>3 DEF LoopInv, Loops, Places, Deleting
    <3>2. FileInv'
      BY <1>1, <1>2, <1>9, <2>1, <2>3, StartWriteKeeps
      DEF RunWrite, files, content, deletion, Owners
    <3> QED BY <3>1, <3>2 DEF IInv
  <2> QED BY <1>9, <2>2, <2>3 DEF RunWrite
<1>10. CASE RunPersona \/ RunMotifs
  <2>1. LoopInv'
    BY <1>1, <1>2, <1>3, <1>4, <1>10, ResultTypes DEF RunPersona, RunMotifs, At
  <2> QED BY <1>10, <2>1, LoopStep DEF RunPersona, RunMotifs
<1>11. CASE CompleteOperation
  <2>1. LoopInv'
    BY <1>1, <1>2, <1>3, <1>4, <1>11, AfterCallTypes DEF CompleteOperation, At
  <2> QED BY <1>11, <2>1, LoopStep DEF CompleteOperation
<1>12. CASE FailOperation
  <2>1. LoopInv'
    BY <1>2, <1>4, <1>12 DEF FailOperation, LoopInv, Loops, Idle, Places, Outcomes, Agents
  <2> QED BY <1>12, <2>1, LoopStep DEF FailOperation
<1> QED BY <1>6, <1>7, <1>8, <1>9, <1>10, <1>11, <1>12 DEF ToolStep

\* An upload is asked for, a request arrives in the pool, or the deletion of the
\* project begins.
LEMMA UserKeeps == IInv /\ (UserUploads \/ UserRequests \/ UserDeletesProject) => IInv'
<1> SUFFICES ASSUME IInv, UserUploads \/ UserRequests \/ UserDeletesProject PROVE IInv'
  OBVIOUS
<1>1. FileInv /\ LoopInv /\ UNCHANGED loop
  BY DEF IInv, UserUploads, UserRequests, UserDeletesProject, loopVars
<1>2. CASE UserUploads
  <2>1. PICK p \in Paths, c \in Contents : Upload(p, c)
    BY <1>2 DEF UserUploads
  <2>2. project /\ ~Deleting /\ UNCHANGED <<file, maker, owner, project, deleting, aside, thread>>
    BY <2>1 DEF Upload, Ask, LoopIsFree, Deleting, files, content, deletion
  <2>3. FileInv'
    <3>1. CASE Exists(p)
      BY <1>1, <2>1, <2>2, <3>1, SameFiles DEF Upload
    <3>2. CASE ~Exists(p)
      BY <1>1, <2>1, <2>2, <3>2, StartWriteKeeps DEF Upload, Owners
    <3> QED BY <3>1, <3>2
  <2> QED BY <1>1, <2>2, <2>3 DEF IInv, LoopInv, Deleting
<1>3. CASE UserRequests
  <2>1. PICK t \in Threads, p \in Paths :
          BeginDelete(t, p) \/ \E allowed \in BOOLEAN : BeginShare(t, p, allowed)
    BY <1>3 DEF UserRequests
  <2>2. PICK request \in Requests \cup {None} : Arrive(t, p, request)
    BY <2>1 DEF BeginDelete, BeginShare, Requests
  <2>3. FileInv'
    BY <1>1, <2>2, ArriveKeeps
  <2> QED BY <1>1, <2>2, <2>3 DEF IInv, LoopInv, Deleting, Arrive, deletion
<1>4. CASE UserDeletesProject
  BY <1>1, <1>4, BeginDeleteProjectKeeps
  DEF UserDeletesProject, BeginDeleteProject, At, IInv, LoopInv
<1> QED BY <1>2, <1>3, <1>4

\* The writer, the deletion of the project and the threads go on.
LEMMA FilesKeep == IInv /\ (WriterStep \/ ProjectGoes \/ ThreadGoes) => IInv'
<1> SUFFICES ASSUME IInv, WriterStep \/ ProjectGoes \/ ThreadGoes PROVE IInv'
  OBVIOUS
<1>1. FileInv /\ LoopInv
  BY DEF IInv
<1>2. CASE WriterStep
  <2>1. project /\ ~Deleting /\ UNCHANGED <<deleting, project>>
    BY <1>1, <1>2 DEF WriterStep, Write, FinishWrite, FailWrite, PutFile, RecordOwner, AbandonWrite,
                     FileInv, Emptied, deletion
  <2>2. FileInv'
    BY <1>1, <1>2, PutFileKeeps, RecordOwnerKeeps, AbandonWriteKeeps
    DEF WriterStep, Write, FinishWrite, FailWrite
  <2>3. UNCHANGED loop \/ loop' = Idle \/ (Writing /\ Result("ok"))
    BY <1>2 DEF WriterStep, Write, FinishWrite, FailWrite
  <2>4. LoopInv'
    <3>1. CASE UNCHANGED loop
      BY <1>1, <2>1, <3>1 DEF LoopInv, Deleting
    <3>2. CASE loop' = Idle
      BY <2>1, <3>2, IdleType DEF LoopInv, Idle, Deleting
    <3>3. CASE Writing /\ Result("ok")
      <4>1. loop.call \in Calls
        BY <1>1, <3>3 DEF LoopInv, Writing
      <4> QED BY <1>1, <2>1, <3>3, <4>1, ResultTypes
    <3> QED BY <2>3, <3>1, <3>2, <3>3
  <2> QED BY <2>2, <2>4 DEF IInv
<1>3. CASE ProjectGoes
  <2>1. loop.at = "idle" /\ UNCHANGED loop
    BY <1>1, <1>3 DEF ProjectGoes, DeletionStep, CommitDeletion, AbortDeletion, RemoveTree, LoopInv,
                     Deleting, loopVars
  <2> QED BY <1>1, <1>3, <2>1, DeletionKeeps DEF ProjectGoes, IInv, LoopInv
<1>4. CASE ThreadGoes
  <2>1. UNCHANGED <<deleting, project, loop>>
    BY <1>4 DEF ThreadGoes, ThreadStep, Unlink, RemoveOwner, SetSharing, deletion, loopVars
  <2> QED BY <1>1, <1>4, <2>1, ThreadKeeps DEF ThreadGoes, IInv, LoopInv, Deleting
<1> QED BY <1>2, <1>3, <1>4

\* The turn is interrupted, the process dies, or nothing happens.
LEMMA StopKeeps == IInv /\ (InterruptTurn \/ Crash \/ UNCHANGED vars) => IInv'
<1> SUFFICES ASSUME IInv, InterruptTurn \/ Crash \/ UNCHANGED vars PROVE IInv'
  OBVIOUS
<1>1. FileInv /\ LoopInv
  BY DEF IInv
<1>2. CASE InterruptTurn
  <2>1. LoopInv'
    BY <1>2, IdleType DEF InterruptTurn, LoopInv, Idle
  <2> QED BY <1>2, <2>1, LoopStep DEF InterruptTurn
<1>3. CASE Crash
  <2>1. LoopInv'
    BY <1>3, IdleType DEF Crash, LoopInv, Idle
  <2> QED BY <1>1, <1>3, <2>1, LoseProcessKeeps DEF Crash, IInv
<1>4. CASE UNCHANGED vars
  <2>1. LoopInv'
    BY <1>1, <1>4 DEF vars, fileVars, loopVars, deletion, LoopInv, Deleting
  <2> QED BY <1>4, <2>1, LoopStep DEF vars
<1> QED BY <1>2, <1>3, <1>4

LEMMA NextKeeps == IInv /\ [Next]_vars => IInv'
BY RequestKeeps, ToolKeeps, UserKeeps, FilesKeep, StopKeeps DEF Next, TurnStep
-----------------------------------------------------------------------------
\* The tree, the rows and the turn are always as described above.
THEOREM Invariance == Spec => []IInv
BY InitIInv, NextKeeps, PTL DEF Spec

\* An upload whose success the user was told belongs to no agent and is not
\* about to be replaced by one, whatever the user, the agents, the threads and
\* crashes do before and after it.
THEOREM UploadsAreProtected == Spec => []UploadsStayTheUsers
BY Invariance, IInvImplies, PTL

\* Once the row of a project has gone, none of its files and no row about them
\* can be reached, wherever its deletion was cut off.
THEOREM DeletedProjectsAreGone == Spec => []DeletedIsUnreachable
BY Invariance, IInvImplies, PTL
-----------------------------------------------------------------------------
(***************************************************************************)
(* What the room is told of the operations of tools is true, and each has  *)
(* its effect once, for any agents, calls, limits and number of attempts.  *)
(* An operation is begun, takes effect and is completed in three steps,    *)
(* and what an attempt leaves in between another one finds in the ledger   *)
(* only as "started".  The invariant says at each place of a call what the *)
(* attempt may still rely on: a fresh operation has had no effect, a file  *)
(* that is about to be written again is not there yet, and whatever the    *)
(* loop has passed in this attempt it doesn't come back to.                *)
(***************************************************************************)

\* The rest of the types: what the files' proofs do not need.
FileRest ==
  /\ project \in BOOLEAN /\ root \in BOOLEAN /\ stranded \in BOOLEAN
  /\ deleting \in {None, "commit", "remove"}
  /\ aside \in Trees \cup {None}
  /\ (aside = None) <=> (deleting = None)
  /\ asked \in 0..MaxRequests
  /\ consent \in [Paths -> Agents \cup {None}]

TurnRest ==
  /\ ledger \in [Operations -> {"absent", "started", "ok", "error"}]
  /\ effects \in [Operations -> Nat]
  /\ outcome \in [Participants -> Outcomes \cup {None}]
  /\ attempts \in 0..MaxAttempts

\* The counters of the loop, and at a call one that is still left.
Counters ==
  /\ loop.round \in 1..MaxRounds + 1
  /\ loop.left \in 0..CallsPerResponse
  /\ loop.index \in 1..CallsPerResponse + 1
  /\ loop.total \in 0..CallsPerTurn
  /\ loop.retries \in 0..Retries

CallsLeft ==
  /\ loop.at \notin {"idle", "next"} => loop.agent \in Participants /\ outcome[loop.agent] = None
  /\ loop.at = "tool" \/ InCall => /\ loop.round <= MaxRounds
                                   /\ loop.left >= 1
                                   /\ loop.index + loop.left <= CallsPerResponse + 1
  /\ loop.at = "settle" => loop.result \in {"ok", "error"}
  /\ loop.at = "ended" => loop.result \in Outcomes

\* A call under way is the one begun in the ledger.
CallInv ==
  /\ InCall => Changing(loop.call) /\ ledger[Current] = "started"
  /\ loop.at \in {"recover", "run", "settle"} => writer = None
  /\ loop.at = "recover" => ~loop.fresh
  /\ loop.at = "run" /\ ~loop.fresh => loop.call.tool # "propose_persona_update"

\* The write of the event loop is the one the call asked for.
WriteInv ==
  Writing =>
    /\ loop.call.tool = "write_project_file"
    /\ writer # None
    /\ writer.path = loop.call.path /\ writer.content = loop.call.content

\* What is written for an interrupted operation is not there yet.
MissingInv ==
  /\ loop.at = "run" /\ ~loop.fresh /\ loop.call.tool = "write_project_file"
       => file[loop.call.path] # loop.call.content
  /\ RewritesAreChecked

\* How often the operation of the call has taken effect.
EffectInv ==
  /\ loop.fresh /\ (loop.at = "run" \/ (Writing /\ writer.at = "put")) => effects[Current] = 0
  /\ loop.at = "run" /\ loop.call.tool = "record_motif_observations" => effects[Current] = 0
  /\ loop.at = "settle" /\ loop.result = "ok" /\ loop.call.tool # "write_project_file" => effects[Current] > 0
  /\ loop.at = "settle" /\ loop.result = "error"
       /\ (loop.fresh \/ loop.call.tool = "record_motif_observations") => effects[Current] = 0

\* What the ledger says of the effects.
EffectsTold ==
  \A o \in Operations :
    /\ ledger[o] = "ok" => effects[o] > 0 \/ o.call.tool = "write_project_file"
    /\ effects[o] > 0 /\ ledger[o] = "error" => o.call.tool # "record_motif_observations"
    /\ effects[o] > 0 => ledger[o] # "absent"

\* The operation may still take effect in this execution of the turn.
Ahead(o) ==
  \/ o.round > loop.round
  \/ /\ o.round = loop.round
     /\ \/ loop.at \in {"asking", "searching"}
        \/ o.index > loop.index
        \/ /\ o.index = loop.index
           /\ \/ loop.at = "tool"
              \/ /\ o.call = loop.call
                 /\ \/ loop.at \in {"recover", "run"}
                    \/ Writing /\ writer.at = "put"

Pending(o) ==
  /\ loop.at # "idle"
  /\ outcome[o.agent] = None
  /\ loop.at # "next" /\ o.agent = loop.agent => loop.at # "ended" /\ Ahead(o)

\* In each execution of the turn an operation takes effect once at most.
OnceAnExecution ==
  \A o \in Operations : effects[o] <= attempts /\ (Pending(o) => effects[o] < attempts)

\* The inductive invariant.
OInv == /\ IInv /\ FileRest /\ TurnRest /\ Counters /\ CallsLeft /\ CallInv /\ WriteInv
        /\ MissingInv /\ EffectsTold /\ EffectInv /\ OnceAnExecution

USE ProjectFilesAssumption, ToolLoopAssumption
-----------------------------------------------------------------------------
\* The invariant holds before the first execution.
LEMMA InitOInv == Init => OInv
<1> SUFFICES ASSUME Init PROVE OInv
  OBVIOUS
<1>1. loop = Idle /\ Idle.at = "idle" /\ ~loop.fresh
  BY DEF Init, Idle
<1>2. FileRest
  <2>1. \A q \in Paths : owner[q] # None /\ owner[q].shared => owner[q].who \in Agents
    BY DEF Init, FilesInit, Rows, Owners
  <2>2. consent \in [Paths -> Agents \cup {None}]
    BY <2>1 DEF Init, FilesInit
  <2>3. /\ project = TRUE /\ root = TRUE /\ stranded = FALSE
        /\ deleting = None /\ aside = None /\ asked = 0
    BY DEF Init, FilesInit
  <2>4. project \in BOOLEAN /\ root \in BOOLEAN /\ stranded \in BOOLEAN
    BY <2>3
  <2>5. deleting \in {None, "commit", "remove"} /\ aside \in Trees \cup {None}
    BY <2>3
  <2>6. (aside = None) <=> (deleting = None)
    BY <2>3
  <2>7. asked \in 0..MaxRequests
    BY <2>3
  <2> QED BY <2>2, <2>4, <2>5, <2>6, <2>7 DEF FileRest
<1>3. TurnRest
  BY DEF Init, TurnRest
<1>4. Counters
  BY <1>1 DEF Counters, Idle
<1>5. CallsLeft /\ CallInv /\ WriteInv /\ MissingInv /\ EffectInv
  BY <1>1 DEF CallsLeft, CallInv, WriteInv, MissingInv, EffectInv, InCall, Writing, RewritesAreChecked
<1>6. EffectsTold
  BY DEF Init, EffectsTold
<1>7. OnceAnExecution
  BY <1>1 DEF Init, OnceAnExecution, Pending
<1> QED BY <1>2, <1>3, <1>4, <1>5, <1>6, <1>7, InitIInv DEF OInv

-----------------------------------------------------------------------------
(* Steps of the turn that leave the files alone.                           *)

\* Where no call is under way, nothing is said about one.
LEMMA NoCall ==
  loop'.at \notin {"recover", "run", "writing", "settle"}
    => CallInv' /\ WriteInv' /\ MissingInv' /\ EffectInv'
BY DEF CallInv, WriteInv, MissingInv, EffectInv, InCall, Writing, RewritesAreChecked

\* What leaves the files alone leaves their types.
LEMMA SameRest == FileRest /\ UNCHANGED fileVars => FileRest'
BY DEF FileRest, fileVars, files, content, deletion

\* An execution in which no operation comes within reach again.
LEMMA PendingShrinks ==
  ASSUME OnceAnExecution, UNCHANGED <<effects, attempts>>,
         \A o \in Operations : Pending(o)' => Pending(o)
  PROVE  OnceAnExecution'
BY DEF OnceAnExecution

\* A step that leaves the ledger and the effects.
LEMMA SameResults == EffectsTold /\ UNCHANGED <<ledger, effects>> => EffectsTold'
BY DEF EffectsTold

LEMMA OperationTypes ==
  ASSUME NEW o \in Operations
  PROVE  o.agent \in Participants /\ o.round \in Int /\ o.index \in Int /\ o.call \in Calls
BY DEF Operations

\* What the fields of the loop become, action by action.
LEMMA EndFields ==
  ASSUME loop \in Loops, NEW r, End(r)
  PROVE  /\ loop'.at = "ended" /\ loop'.result = r
         /\ UNCHANGED <<loop.agent, loop.round, loop.left, loop.index, loop.total, loop.retries>>
BY DEF End, Loops

LEMMA TakeFields ==
  ASSUME loop \in Loops, NEW n \in Int,
         loop' = [loop EXCEPT !.at = "tool", !.left = n, !.index = 1, !.total = @ + n]
  PROVE  /\ loop'.at = "tool" /\ loop'.left = n /\ loop'.index = 1
         /\ loop'.total = loop.total + n
         /\ UNCHANGED <<loop.agent, loop.round, loop.retries>>
BY DEF Loops

LEMMA AgainFields ==
  ASSUME loop \in Loops, loop' = [loop EXCEPT !.round = @ + 1, !.retries = @ + 1]
  PROVE  /\ loop'.round = loop.round + 1 /\ loop'.retries = loop.retries + 1
         /\ UNCHANGED <<loop.at, loop.agent, loop.left, loop.index, loop.total>>
BY DEF Loops

LEMMA AfterCallFields ==
  ASSUME loop \in Loops, NEW call, NEW ok, AfterCall(call, ok)
  PROVE  /\ UNCHANGED <<loop.agent, loop.total, loop.retries>>
         /\ \/ /\ loop.left = 1 /\ loop'.at = "asking" /\ loop'.left = 0
               /\ loop'.round = loop.round + 1 /\ loop'.index = loop.index
            \/ /\ loop.left # 1 /\ loop'.at = "tool" /\ loop'.left = loop.left - 1
               /\ loop'.round = loop.round /\ loop'.index = loop.index + 1
BY DEF AfterCall, Loops

\* The answers of providers.
LEMMA AnswersKeep ==
  ASSUME OInv, IInv', ProviderAnswers \/ SearchAnswers \/ ProviderFails
  PROVE  OInv'
<1>1. loop \in Loops /\ loop' \in Loops
  BY DEF OInv, IInv, LoopInv
<1>2. UNCHANGED <<fileVars, ledger, effects, outcome, attempts>>
  BY DEF ProviderAnswers, SearchAnswers, ProviderFails
<1>3. loop.at \in {"asking", "searching"} /\ loop.agent \in Participants
  BY DEF ProviderAnswers, SearchAnswers, ProviderFails, At, OInv, CallsLeft
<1>4. \/ \E r \in Outcomes : End(r)
      \/ loop' = [loop EXCEPT !.round = @ + 1, !.retries = @ + 1]
           /\ loop.retries < Retries /\ loop.round <= MaxRounds
      \/ \E n \in 1..CallsPerResponse :
           /\ loop' = [loop EXCEPT !.at = "tool", !.left = n, !.index = 1, !.total = @ + n]
           /\ loop.total + n <= CallsPerTurn /\ loop.round <= MaxRounds
  <2>1. CASE ProviderAnswers
    <3>1. CASE End("answer")
      BY <3>1 DEF Outcomes
    <3>2. CASE FinishSilently
      BY <3>2 DEF FinishSilently, Outcomes
    <3>3. ASSUME NEW n \in 1..CallsPerResponse + 1, TakeCalls(n)
          PROVE  \/ End("failed")
                 \/ /\ n \in 1..CallsPerResponse
                    /\ loop' = [loop EXCEPT !.at = "tool", !.left = n, !.index = 1, !.total = @ + n]
                    /\ loop.total + n <= CallsPerTurn /\ loop.round <= MaxRounds
      <4>1. loop.total \in Int /\ loop.round \in Int /\ n \in Int
        BY <1>1 DEF Loops
      <4> QED BY <3>3, <4>1 DEF TakeCalls
    <3>4. "failed" \in Outcomes
      BY DEF Outcomes
    <3> QED BY <2>1, <3>1, <3>2, <3>3, <3>4 DEF ProviderAnswers
  <2>2. CASE SearchAnswers \/ ProviderFails
    BY <2>2 DEF SearchAnswers, ProviderFails, Outcomes
  <2> QED BY <2>1, <2>2
<1>5. Counters /\ CallsLeft
  BY DEF OInv
<1>6. ASSUME NEW r \in Outcomes, End(r) 
      PROVE  /\ Counters' /\ CallsLeft' /\ loop'.at = "ended"
             /\ \A o \in Operations : Pending(o)' => Pending(o)
  <2>1. /\ loop'.at = "ended" /\ loop'.result = r
        /\ UNCHANGED <<loop.agent, loop.round, loop.left, loop.index, loop.total, loop.retries>>
    BY <1>1, <1>6, EndFields
  <2>2. Counters' /\ CallsLeft'
    BY <1>2, <1>3, <1>5, <2>1 DEF Counters, CallsLeft, InCall
  <2>3. \A o \in Operations : Pending(o)' => Pending(o)
    BY <1>2, <1>3, <2>1 DEF Pending
  <2> QED BY <2>1, <2>2, <2>3
<1>7. ASSUME loop' = [loop EXCEPT !.round = @ + 1, !.retries = @ + 1],
             loop.retries < Retries, loop.round <= MaxRounds
      PROVE  /\ Counters' /\ CallsLeft' /\ loop'.at \in {"asking", "searching"}
             /\ \A o \in Operations : Pending(o)' => Pending(o)
  <2>1. /\ loop'.round = loop.round + 1 /\ loop'.retries = loop.retries + 1
        /\ UNCHANGED <<loop.at, loop.agent, loop.left, loop.index, loop.total>>
    BY <1>1, <1>7, AgainFields
  <2>2. Counters' /\ CallsLeft'
    BY <1>2, <1>3, <1>5, <1>7, <2>1 DEF Counters, CallsLeft, InCall
  <2>3. ASSUME NEW o \in Operations, Pending(o)' PROVE Pending(o)
    <3>1. o.round \in Int /\ loop.round \in Int
      BY <1>1, OperationTypes DEF Loops
    <3> QED BY <1>2, <1>3, <2>1, <2>3, <3>1 DEF Pending, Ahead, Writing
  <2> QED BY <1>3, <2>1, <2>2, <2>3
<1>8. ASSUME NEW n \in 1..CallsPerResponse,
             loop' = [loop EXCEPT !.at = "tool", !.left = n, !.index = 1, !.total = @ + n],
             loop.total + n <= CallsPerTurn, loop.round <= MaxRounds
      PROVE  /\ Counters' /\ CallsLeft' /\ loop'.at = "tool"
             /\ \A o \in Operations : Pending(o)' => Pending(o)
  <2>1. /\ loop'.at = "tool" /\ loop'.left = n /\ loop'.index = 1
        /\ loop'.total = loop.total + n
        /\ UNCHANGED <<loop.agent, loop.round, loop.retries>>
    <3>1. n \in Int
      OBVIOUS
    <3> QED BY <1>1, <1>8, <3>1, TakeFields
  <2>2. Counters' /\ CallsLeft'
    BY <1>2, <1>3, <1>5, <1>8, <2>1 DEF Counters, CallsLeft, InCall
  <2>3. ASSUME NEW o \in Operations, Pending(o)' PROVE Pending(o)
    BY <1>2, <1>3, <2>1, <2>3 DEF Pending, Ahead, Writing
  <2> QED BY <2>1, <2>2, <2>3
<1>9. /\ Counters' /\ CallsLeft' /\ loop'.at \in {"ended", "asking", "searching", "tool"}
      /\ \A o \in Operations : Pending(o)' => Pending(o)
  BY <1>4, <1>6, <1>7, <1>8
<1>10. TurnRest'
  BY <1>2 DEF OInv, TurnRest
<1> QED BY <1>2, <1>9, <1>10, NoCall, SameRest, PendingShrinks, SameResults DEF OInv

\* The turn starts, chooses who is asked and stores what came of it.
LEMMA BeatsKeep ==
  ASSUME OInv, IInv', StartTurn \/ NextAgent \/ Checkpoint
  PROVE  OInv'
<1>1. loop \in Loops /\ loop' \in Loops
  BY DEF OInv, IInv, LoopInv
<1>2. UNCHANGED <<fileVars, ledger, effects>>
  BY DEF StartTurn, NextAgent, Checkpoint
<1>3. Counters /\ CallsLeft /\ TurnRest /\ OnceAnExecution
  BY DEF OInv
<1>4. CASE StartTurn
  <2>1. /\ loop'.at = "next" /\ attempts' = attempts + 1 /\ outcome' = outcome
        /\ UNCHANGED <<loop.round, loop.left, loop.index, loop.total, loop.retries>>
    BY <1>1, <1>4 DEF StartTurn, Loops
  <2>2. Counters' /\ CallsLeft'
    BY <1>3, <2>1 DEF Counters, CallsLeft, InCall
  <2>3. TurnRest'
    BY <1>2, <1>3, <1>4, <2>1 DEF TurnRest, StartTurn
  <2>4. OnceAnExecution'
    BY <1>2, <1>3, <2>1 DEF TurnRest, OnceAnExecution
  <2> QED BY <1>2, <2>1, <2>2, <2>3, <2>4, NoCall, SameRest, SameResults DEF OInv
<1>5. CASE NextAgent
  <2>1. UNCHANGED <<outcome, attempts>> /\ loop.at = "next"
    BY <1>5 DEF NextAgent, At
  <2>2. \/ loop' = Idle
        \/ \E a \in Participants, at \in {"asking", "searching"} :
             loop' = [Idle EXCEPT !.at = at, !.agent = a] /\ outcome[a] = None
    BY <1>5 DEF NextAgent
  <2>3. /\ loop'.at \in {"idle", "asking", "searching"}
        /\ loop'.at # "idle" => loop'.agent \in Participants /\ outcome[loop'.agent] = None
        /\ loop'.round = 1 /\ loop'.left = 0 /\ loop'.index = 1 /\ loop'.total = 0 /\ loop'.retries = 0
    <3>1. CASE loop' = Idle
      BY <3>1 DEF Idle
    <3>2. ASSUME NEW a \in Participants, NEW at \in {"asking", "searching"},
                 loop' = [Idle EXCEPT !.at = at, !.agent = a]
          PROVE  /\ loop'.at = at /\ loop'.agent = a
                 /\ loop'.round = Idle.round /\ loop'.left = Idle.left /\ loop'.index = Idle.index
                 /\ loop'.total = Idle.total /\ loop'.retries = Idle.retries
      BY <3>2, IdleType DEF Loops
    <3>3. Idle.round = 1 /\ Idle.left = 0 /\ Idle.index = 1 /\ Idle.total = 0 /\ Idle.retries = 0
      BY DEF Idle
    <3> QED BY <2>2, <3>1, <3>2, <3>3
  <2>4. Counters' /\ CallsLeft'
    BY <2>1, <2>3 DEF Counters, CallsLeft, InCall
  <2>5. \A o \in Operations : Pending(o)' => Pending(o)
    BY <2>1 DEF Pending
  <2>6. TurnRest'
    BY <1>2, <1>3, <2>1 DEF TurnRest
  <2> QED BY <1>2, <2>1, <2>3, <2>4, <2>5, <2>6, NoCall, SameRest, SameResults, PendingShrinks DEF OInv
<1>6. CASE Checkpoint
  <2>1. /\ outcome' = [outcome EXCEPT ![loop.agent] = loop.result] /\ attempts' = attempts
        /\ loop.agent \in Participants /\ loop.result \in Outcomes /\ loop.at = "ended"
    BY <1>3, <1>6 DEF Checkpoint, At, CallsLeft
  <2>2. /\ loop'.at = "next"
        /\ UNCHANGED <<loop.agent, loop.round, loop.left, loop.index, loop.total, loop.retries>>
    BY <1>1, <1>6 DEF Checkpoint, Loops
  <2>3. Counters' /\ CallsLeft'
    BY <1>3, <2>2 DEF Counters, CallsLeft, InCall
  <2>4. TurnRest'
    BY <1>2, <1>3, <2>1 DEF TurnRest
  <2>5. ASSUME NEW o \in Operations, Pending(o)' PROVE Pending(o)
    <3>1. o.agent \in Participants
      BY OperationTypes
    <3>2. outcome' \in [Participants -> Outcomes \cup {None}] /\ outcome \in [Participants -> Outcomes \cup {None}]
      BY <1>3, <2>4 DEF TurnRest
    <3>3. outcome'[o.agent] = None
      BY <2>5 DEF Pending
    <3>4. o.agent # loop.agent /\ outcome[o.agent] = None
      BY <2>1, <3>1, <3>2, <3>3
    <3> QED BY <2>1, <3>4 DEF Pending
  <2> QED BY <1>2, <2>1, <2>2, <2>3, <2>4, <2>5, NoCall, SameRest, SameResults, PendingShrinks DEF OInv
<1> QED BY <1>4, <1>5, <1>6

-----------------------------------------------------------------------------
(* The steps of a call.                                                    *)

\* The call under way has a place in the ledger.
LEMMA CurrentIsOperation == OInv /\ InCall => Current \in Operations
<1> SUFFICES ASSUME OInv, InCall PROVE Current \in Operations
  OBVIOUS
<1>1. loop.agent \in Participants /\ loop.call \in Calls /\ Changing(loop.call)
  BY DEF OInv, CallsLeft, InCall, IInv, LoopInv, CallInv
<1>2. loop.round \in 1..MaxRounds /\ loop.index \in 1..CallsPerResponse
  BY DEF OInv, Counters, CallsLeft
<1> QED BY <1>1, <1>2 DEF Current, Operation, Operations

\* The result of a call is told and the loop goes on to the next.
LEMMA AfterCallKeeps ==
  ASSUME OInv, NEW call, NEW ok, AfterCall(call, ok), loop.at \in {"tool", "settle"}, outcome' = outcome
  PROVE  /\ Counters' /\ CallsLeft' /\ loop'.at \in {"asking", "tool"}
         /\ \A o \in Operations : Pending(o)' => Pending(o)
<1>1. loop \in Loops /\ Counters /\ CallsLeft
  BY DEF OInv, IInv, LoopInv
<1>2. /\ UNCHANGED <<loop.agent, loop.total, loop.retries>>
      /\ \/ /\ loop.left = 1 /\ loop'.at = "asking" /\ loop'.left = 0
            /\ loop'.round = loop.round + 1 /\ loop'.index = loop.index
         \/ /\ loop.left # 1 /\ loop'.at = "tool" /\ loop'.left = loop.left - 1
            /\ loop'.round = loop.round /\ loop'.index = loop.index + 1
  BY <1>1, AfterCallFields
<1>3. Counters' /\ CallsLeft'
  BY <1>1, <1>2 DEF Counters, CallsLeft, InCall
<1>4. ASSUME NEW o \in Operations, Pending(o)' PROVE Pending(o)
  <2>1. o.round \in Int /\ loop.round \in Int /\ o.index \in Int /\ loop.index \in Int
    BY <1>1, OperationTypes DEF Loops
  <2> QED BY <1>2, <1>4, <2>1 DEF Pending, Ahead, Writing
<1> QED BY <1>2, <1>3, <1>4

\* A call under way comes to another place.
LEMMA PlaceFields ==
  ASSUME loop \in Loops, NEW at, loop' = [loop EXCEPT !.at = at]
  PROVE  /\ loop'.at = at
         /\ UNCHANGED <<loop.agent, loop.round, loop.left, loop.index, loop.total, loop.retries,
                        loop.call, loop.fresh, loop.result>>
BY DEF Loops

LEMMA ResultFields ==
  ASSUME loop \in Loops, NEW r, Result(r)
  PROVE  /\ loop'.at = "settle" /\ loop'.result = r
         /\ UNCHANGED <<loop.agent, loop.round, loop.left, loop.index, loop.total, loop.retries,
                        loop.call, loop.fresh>>
BY DEF Result, Loops

\* The call has its result, and takes effect no more.
LEMMA ResultKeeps ==
  ASSUME OInv, NEW r \in {"ok", "error"}, Result(r), loop.at \in {"recover", "run", "writing"},
         writer' = None, UNCHANGED <<ledger, outcome>>
  PROVE  /\ Counters' /\ CallsLeft' /\ CallInv' /\ WriteInv' /\ MissingInv'
         /\ loop'.at = "settle" /\ loop'.result = r /\ loop'.call = loop.call /\ Current' = Current
         /\ loop'.fresh = loop.fresh
         /\ \A o \in Operations : Pending(o)' => Pending(o) /\ o # Current
<1>1. loop \in Loops /\ Counters /\ CallsLeft /\ CallInv
  BY DEF OInv, IInv, LoopInv
<1>2. /\ loop'.at = "settle" /\ loop'.result = r
      /\ UNCHANGED <<loop.agent, loop.round, loop.left, loop.index, loop.total, loop.retries,
                     loop.call, loop.fresh>>
  BY <1>1, ResultFields
<1>3. Counters' /\ CallsLeft'
  BY <1>1, <1>2 DEF Counters, CallsLeft, InCall
<1>4. Current' = Current
  BY <1>2 DEF Current, Operation
<1>5. CallInv' /\ WriteInv' /\ MissingInv'
  BY <1>1, <1>2, <1>4 DEF CallInv, InCall, WriteInv, MissingInv, RewritesAreChecked, Writing, Changing
<1>6. ASSUME NEW o \in Operations, Pending(o)' PROVE Pending(o) /\ o # Current
  <2>1. o.round \in Int /\ loop.round \in Int /\ o.index \in Int /\ loop.index \in Int
    BY <1>1, OperationTypes DEF Loops
  <2>2. Pending(o)
    BY <1>2, <1>6, <2>1 DEF Pending, Ahead, Writing
  <2>3. o # Current
    BY <1>2, <1>6, <2>1 DEF Pending, Ahead, Writing, Current, Operation
  <2> QED BY <2>2, <2>3
<1> QED BY <1>2, <1>3, <1>4, <1>5, <1>6

\* The operation of the call takes effect, for the first time in this execution.
LEMMA EffectKeeps ==
  ASSUME OInv, InCall, TakesEffect, Pending(Current), UNCHANGED <<ledger, outcome, attempts>>,
         \A o \in Operations : Pending(o)' => Pending(o) /\ o # Current
  PROVE  /\ TurnRest' /\ EffectsTold' /\ OnceAnExecution'
         /\ effects'[Current] = effects[Current] + 1 /\ effects[Current] \in Nat
<1>1. Current \in Operations /\ TurnRest /\ EffectsTold /\ OnceAnExecution /\ ledger[Current] = "started"
  BY CurrentIsOperation DEF OInv, CallInv
<1>2. effects' \in [Operations -> Nat] /\ effects'[Current] = effects[Current] + 1 /\ effects[Current] \in Nat
      /\ \A o \in Operations : o # Current => effects'[o] = effects[o]
  BY <1>1 DEF TakesEffect, TurnRest
<1>3. TurnRest'
  BY <1>1, <1>2 DEF TurnRest
<1>4. EffectsTold'
  BY <1>1, <1>2 DEF EffectsTold, TurnRest
<1>5. OnceAnExecution'
  BY <1>1, <1>2 DEF OnceAnExecution, TurnRest
<1> QED BY <1>2, <1>3, <1>4, <1>5

\* A call that is about to take effect has not done so in this execution.
LEMMA CurrentPends == ASSUME OInv, loop.at \in {"recover", "run"} \/ (Writing /\ writer.at = "put")
                      PROVE  Pending(Current)
BY DEF OInv, CallsLeft, Pending, Ahead, Current, Operation, Writing

\* What a step of the turn says when the files and the effects stay.
LEMMA QuietStep ==
  ASSUME OInv, IInv', UNCHANGED <<fileVars, effects, outcome, attempts>>,
         Counters', CallsLeft', CallInv', WriteInv', MissingInv', EffectInv', EffectsTold',
         ledger' \in [Operations -> {"absent", "started", "ok", "error"}],
         \A o \in Operations : Pending(o)' => Pending(o)
  PROVE  OInv'
BY SameRest, PendingShrinks DEF OInv, TurnRest

\* A tool that only reads.
LEMMA ReaderKeeps == ASSUME OInv, IInv', CallReader PROVE OInv'
<1>1. UNCHANGED <<fileVars, ledger, effects, outcome, attempts>> /\ loop.at = "tool"
  BY DEF CallReader, At
<1>2. /\ Counters' /\ CallsLeft' /\ loop'.at \in {"asking", "tool"}
      /\ \A o \in Operations : Pending(o)' => Pending(o)
  BY <1>1, AfterCallKeeps DEF CallReader
<1>3. ledger' \in [Operations -> {"absent", "started", "ok", "error"}] /\ EffectsTold'
  BY <1>1, SameResults DEF OInv, TurnRest
<1> QED BY <1>1, <1>2, <1>3, NoCall, QuietStep

\* A call is begun, recovered or answered from the ledger.
LEMMA ChangerKeeps == ASSUME OInv, IInv', CallChanger PROVE OInv'
<1>1. UNCHANGED <<fileVars, effects, outcome, attempts>> /\ loop.at = "tool" /\ writer = None
  BY DEF CallChanger, At, LoopIsFree
<1>2. loop \in Loops /\ Counters /\ CallsLeft /\ TurnRest /\ EffectsTold
  BY DEF OInv, IInv, LoopInv
<1>3. PICK call \in Calls : Changing(call) /\ BeginOperation(call)
  BY DEF CallChanger
<1> DEFINE o == Operation(call)
<1>4. o \in Operations /\ o.call = call
  BY <1>1, <1>2, <1>3 DEF Operation, Operations, Counters, CallsLeft
<1>5. ASSUME NEW at \in {"run", "recover"}, NEW fresh \in BOOLEAN,
             loop' = [loop EXCEPT !.at = at, !.call = call, !.fresh = fresh],
             ledger'[o] = "started", at = "run" <=> fresh, at = "run" => effects[o] = 0
      PROVE  /\ Counters' /\ CallsLeft' /\ CallInv' /\ WriteInv' /\ MissingInv' /\ EffectInv'
             /\ \A p \in Operations : Pending(p)' => Pending(p)
  <2>1. /\ loop'.at = at /\ loop'.call = call /\ loop'.fresh = fresh
        /\ UNCHANGED <<loop.agent, loop.round, loop.left, loop.index, loop.total, loop.retries>>
    BY <1>2, <1>5 DEF Loops
  <2>2. Current' = o
    BY <2>1 DEF Current, Operation
  <2>3. Counters' /\ CallsLeft'
    BY <1>1, <1>2, <2>1 DEF Counters, CallsLeft, InCall
  <2>4. writer' = None
    BY <1>1 DEF fileVars
  <2>5. CallInv' /\ WriteInv' /\ MissingInv'
    BY <1>3, <1>5, <2>1, <2>2, <2>4 DEF CallInv, InCall, WriteInv, MissingInv, RewritesAreChecked, Writing, Changing
  <2>6. EffectInv'
    BY <1>1, <1>5, <2>1, <2>2 DEF EffectInv, Writing
  <2>7. ASSUME NEW p \in Operations, Pending(p)' PROVE Pending(p)
    BY <1>1, <2>1, <2>7 DEF Pending, Ahead, Writing
  <2> QED BY <2>3, <2>5, <2>6, <2>7
<1>6. CASE ledger[o] = "absent"
  <2>1. /\ ledger' = [ledger EXCEPT ![o] = "started"]
        /\ loop' = [loop EXCEPT !.at = "run", !.call = call, !.fresh = TRUE]
    BY <1>3, <1>6 DEF BeginOperation
  <2>2. effects[o] = 0
    BY <1>2, <1>4, <1>6 DEF EffectsTold, TurnRest
  <2>3. ledger' \in [Operations -> {"absent", "started", "ok", "error"}] /\ ledger'[o] = "started"
        /\ \A p \in Operations : p # o => ledger'[p] = ledger[p]
    BY <1>2, <1>4, <2>1 DEF TurnRest
  <2>4. EffectsTold'
    BY <1>1, <1>2, <2>2, <2>3 DEF EffectsTold
  <2> QED BY <1>1, <1>5, <2>1, <2>2, <2>3, <2>4, QuietStep
<1>7. CASE ledger[o] = "started"
  <2>1. ledger' = ledger /\ loop' = [loop EXCEPT !.at = "recover", !.call = call, !.fresh = FALSE]
    BY <1>3, <1>7 DEF BeginOperation
  <2>2. ledger' \in [Operations -> {"absent", "started", "ok", "error"}] /\ EffectsTold'
    BY <1>1, <1>2, <2>1, SameResults DEF TurnRest
  <2> QED BY <1>1, <1>5, <1>7, <2>1, <2>2, QuietStep
<1>8. CASE ledger[o] \notin {"absent", "started"}
  <2>1. AfterCall(call, ledger[o] = "ok") /\ ledger' = ledger
    BY <1>3, <1>8 DEF BeginOperation
  <2>2. /\ Counters' /\ CallsLeft' /\ loop'.at \in {"asking", "tool"}
        /\ \A p \in Operations : Pending(p)' => Pending(p)
    BY <1>1, <2>1, AfterCallKeeps
  <2>3. ledger' \in [Operations -> {"absent", "started", "ok", "error"}] /\ EffectsTold'
    BY <1>1, <1>2, <2>1, SameResults DEF TurnRest
  <2> QED BY <1>1, <2>2, <2>3, NoCall, QuietStep
<1> QED BY <1>6, <1>7, <1>8

\* A recovered call is run, and a call that runs begins to write.
LEMMA MoveKeeps ==
  ASSUME OInv, NEW at \in {"run", "writing"}, loop' = [loop EXCEPT !.at = at],
         \/ loop.at = "recover" /\ at = "run"
         \/ loop.at = "run" /\ at = "writing" /\ writer'.at = "put",
         UNCHANGED <<ledger, outcome, effects>>
  PROVE  /\ Counters' /\ CallsLeft' /\ Current' = Current
         /\ loop'.at = at /\ loop'.call = loop.call /\ loop'.fresh = loop.fresh
         /\ ledger'[Current] = "started" /\ Changing(loop.call)
         /\ \A o \in Operations : Pending(o)' => Pending(o)
<1>1. loop \in Loops /\ Counters /\ CallsLeft /\ CallInv
  BY DEF OInv, IInv, LoopInv
<1>2. /\ loop'.at = at
      /\ UNCHANGED <<loop.agent, loop.round, loop.left, loop.index, loop.total, loop.retries,
                     loop.call, loop.fresh, loop.result>>
  BY <1>1, PlaceFields
<1>3. Counters' /\ CallsLeft'
  BY <1>1, <1>2 DEF Counters, CallsLeft, InCall
<1>4. Current' = Current
  BY <1>2 DEF Current, Operation
<1>5. ledger'[Current] = "started" /\ Changing(loop.call)
  BY <1>1 DEF CallInv, InCall
<1>6. ASSUME NEW o \in Operations, Pending(o)' PROVE Pending(o)
  BY <1>2, <1>6 DEF Pending, Ahead, Writing
<1> QED BY <1>2, <1>3, <1>4, <1>5, <1>6

\* An interrupted operation is told from one that never ran.
LEMMA RecoverKeeps ==
  ASSUME OInv, IInv', RecoverWrite \/ RecoverPersona \/ RecoverMotifs
  PROVE  OInv'
<1>1. /\ UNCHANGED <<fileVars, ledger, effects, outcome, attempts>> /\ loop.at = "recover"
      /\ UNCHANGED <<file, writer>>
  BY DEF RecoverWrite, RecoverPersona, RecoverMotifs, At, fileVars, files, content
<1>2. CallInv /\ ~loop.fresh /\ writer = None /\ Current \in Operations /\ effects \in [Operations -> Nat]
  BY <1>1, CurrentIsOperation DEF OInv, CallInv, InCall, TurnRest
<1>3. EffectsTold' /\ ledger' \in [Operations -> {"absent", "started", "ok", "error"}]
  BY <1>1, SameResults DEF OInv, TurnRest
<1>4. \/ \E r \in {"ok", "error"} :
            /\ Result(r)
            /\ r = "ok" => loop.call.tool = "write_project_file" \/ effects[Current] > 0
            /\ r = "error" => loop.call.tool = "propose_persona_update"
      \/ /\ RunIt
         /\ loop.call.tool # "propose_persona_update"
         /\ loop.call.tool = "write_project_file" => file[loop.call.path] # loop.call.content
         /\ loop.call.tool = "record_motif_observations" => effects[Current] = 0
  BY <1>2 DEF RecoverWrite, RecoverPersona, RecoverMotifs
<1>5. ASSUME NEW r \in {"ok", "error"}, Result(r),
             r = "ok" => loop.call.tool = "write_project_file" \/ effects[Current] > 0,
             r = "error" => loop.call.tool = "propose_persona_update"
      PROVE  OInv'
  <2>1. /\ Counters' /\ CallsLeft' /\ CallInv' /\ WriteInv' /\ MissingInv'
        /\ loop'.at = "settle" /\ loop'.result = r /\ loop'.call = loop.call /\ Current' = Current
        /\ loop'.fresh = loop.fresh
        /\ \A o \in Operations : Pending(o)' => Pending(o)
    BY <1>1, <1>2, <1>5, ResultKeeps
  <2>2. EffectInv'
    BY <1>1, <1>2, <1>5, <2>1 DEF EffectInv, Writing
  <2> QED BY <1>1, <1>3, <2>1, <2>2, QuietStep
<1>6. ASSUME RunIt, loop.call.tool # "propose_persona_update",
             loop.call.tool = "write_project_file" => file[loop.call.path] # loop.call.content,
             loop.call.tool = "record_motif_observations" => effects[Current] = 0
      PROVE  OInv'
  <2>1. /\ Counters' /\ CallsLeft' /\ Current' = Current
        /\ loop'.at = "run" /\ loop'.call = loop.call /\ loop'.fresh = loop.fresh
        /\ ledger'[Current] = "started" /\ Changing(loop.call)
        /\ \A o \in Operations : Pending(o)' => Pending(o)
    BY <1>1, <1>6, MoveKeeps DEF RunIt
  <2>2. CallInv'
    BY <1>1, <1>2, <1>6, <2>1 DEF CallInv, InCall, Changing
  <2>3. WriteInv' /\ MissingInv' /\ EffectInv'
    BY <1>1, <1>2, <1>6, <2>1 DEF WriteInv, MissingInv, RewritesAreChecked, EffectInv, Writing
  <2> QED BY <1>1, <1>3, <2>1, <2>2, <2>3, QuietStep
<1> QED BY <1>4, <1>5, <1>6

\* An update of a persona or a batch of motifs: it takes effect or is refused.
LEMMA RunKeeps ==
  ASSUME OInv, IInv', RunPersona \/ RunMotifs
  PROVE  OInv'
<1>1. /\ UNCHANGED <<fileVars, ledger, outcome, attempts>> /\ loop.at = "run"
      /\ UNCHANGED <<file, writer>> /\ loop.call.tool # "write_project_file"
  BY DEF RunPersona, RunMotifs, At, fileVars, files, content
<1>2. CallInv /\ EffectInv /\ writer = None /\ Current \in Operations /\ effects \in [Operations -> Nat] /\ InCall
  BY <1>1, CurrentIsOperation DEF OInv, CallInv, InCall, TurnRest
<1>3. \/ TakesEffect /\ Result("ok")
      \/ Result("error") /\ UNCHANGED effects
  BY DEF RunPersona, RunMotifs
<1>4. PICK r \in {"ok", "error"} : Result(r)
  BY <1>3
<1>5. /\ Counters' /\ CallsLeft' /\ CallInv' /\ WriteInv' /\ MissingInv'
      /\ loop'.at = "settle" /\ loop'.result = r /\ loop'.call = loop.call /\ Current' = Current
      /\ loop'.fresh = loop.fresh
      /\ \A o \in Operations : Pending(o)' => Pending(o) /\ o # Current
  BY <1>1, <1>2, <1>4, ResultKeeps
<1>6. CASE TakesEffect /\ Result("ok")
  <2>1. /\ TurnRest' /\ EffectsTold' /\ OnceAnExecution'
        /\ effects'[Current] = effects[Current] + 1 /\ effects[Current] \in Nat
    BY <1>1, <1>2, <1>5, <1>6, EffectKeeps, CurrentPends
  <2>2. r = "ok"
    BY <1>4, <1>5, <1>6, ResultFields DEF OInv, IInv, LoopInv
  <2>3. EffectInv'
    BY <1>5, <2>1, <2>2 DEF EffectInv, Writing
  <2> QED BY <1>1, <1>5, <2>1, <2>3, SameRest DEF OInv
<1>7. CASE Result("error") /\ UNCHANGED effects
  <2>1. r = "error"
    BY <1>4, <1>5, <1>7, ResultFields DEF OInv, IInv, LoopInv
  <2>2. EffectInv'
    BY <1>1, <1>2, <1>5, <1>7, <2>1 DEF EffectInv, Writing
  <2>3. EffectsTold' /\ ledger' \in [Operations -> {"absent", "started", "ok", "error"}]
    BY <1>1, <1>7, SameResults DEF OInv, TurnRest
  <2> QED BY <1>1, <1>5, <1>7, <2>2, <2>3, QuietStep
<1> QED BY <1>3, <1>6, <1>7

\* A write is refused or begins.
LEMMA RunWriteKeeps == ASSUME OInv, IInv', RunWrite PROVE OInv'
<1>1. /\ UNCHANGED <<file, consent, project, stranded, deleting, aside, asked>>
      /\ UNCHANGED <<ledger, effects, outcome, attempts>>
      /\ loop.at = "run" /\ loop.call.tool = "write_project_file" /\ root' \in {TRUE, root}
  BY DEF RunWrite, At, files, content, deletion
<1>2. CallInv /\ EffectInv /\ MissingInv /\ writer = None /\ InCall /\ loop.call \in Calls /\ loop.agent \in Agents
  BY <1>1 DEF OInv, CallInv, InCall, IInv, LoopInv, Loops
<1>3. FileRest'
  BY <1>1 DEF OInv, FileRest
<1>4. TurnRest' /\ EffectsTold'
  BY <1>1, SameResults DEF OInv, TurnRest
<1>5. CASE Result("error") /\ UNCHANGED writer
  <2>1. /\ Counters' /\ CallsLeft' /\ CallInv' /\ WriteInv' /\ MissingInv'
        /\ loop'.at = "settle" /\ loop'.result = "error" /\ loop'.call = loop.call /\ Current' = Current
        /\ loop'.fresh = loop.fresh
        /\ \A o \in Operations : Pending(o)' => Pending(o)
    BY <1>1, <1>2, <1>5, ResultKeeps
  <2>2. EffectInv'
    BY <1>1, <1>2, <2>1 DEF EffectInv, Writing
  <2> QED BY <1>1, <1>3, <1>4, <2>1, <2>2, PendingShrinks DEF OInv
<1>6. CASE /\ StartWrite(loop.agent, loop.call.path, loop.call.content)
           /\ loop' = [loop EXCEPT !.at = "writing"]
  <2>1. writer' \in Writes /\ writer'.at = "put" /\ writer'.path = loop.call.path
          /\ writer'.content = loop.call.content
    <3>1. loop.call.path \in Paths /\ loop.call.content \in Contents
      BY <1>1, <1>2, CallTypes
    <3> QED BY <1>2, <1>6, <3>1 DEF StartWrite, Writes, Owners, Exists
  <2>2. /\ Counters' /\ CallsLeft' /\ Current' = Current
        /\ loop'.at = "writing" /\ loop'.call = loop.call /\ loop'.fresh = loop.fresh
        /\ ledger'[Current] = "started" /\ Changing(loop.call)
        /\ \A o \in Operations : Pending(o)' => Pending(o)
    BY <1>1, <1>6, <2>1, MoveKeeps
  <2>3. CallInv' /\ EffectInv'
    BY <1>1, <1>2, <2>2 DEF CallInv, EffectInv, InCall, Writing, Changing
  <2>4. WriteInv' /\ MissingInv'
    BY <1>1, <1>2, <2>1, <2>2 DEF WriteInv, MissingInv, RewritesAreChecked, Writing
  <2> QED BY <1>1, <1>3, <1>4, <2>2, <2>3, <2>4, PendingShrinks DEF OInv
<1> QED BY <1>5, <1>6 DEF RunWrite

\* The result is stored in the ledger and told.
LEMMA CompleteKeeps == ASSUME OInv, IInv', CompleteOperation PROVE OInv'
<1>1. /\ UNCHANGED <<fileVars, effects, outcome, attempts>> /\ loop.at = "settle"
      /\ ledger' = [ledger EXCEPT ![Current] = loop.result]
      /\ AfterCall(loop.call, loop.result = "ok")
  BY DEF CompleteOperation, At
<1>2. /\ Current \in Operations /\ TurnRest /\ EffectsTold /\ EffectInv
      /\ loop.result \in {"ok", "error"}
  BY <1>1, CurrentIsOperation DEF OInv, InCall, CallsLeft
<1>3. /\ Counters' /\ CallsLeft' /\ loop'.at \in {"asking", "tool"}
      /\ \A o \in Operations : Pending(o)' => Pending(o)
  BY <1>1, AfterCallKeeps
<1>4. /\ ledger' \in [Operations -> {"absent", "started", "ok", "error"}] /\ ledger'[Current] = loop.result
      /\ \A o \in Operations : o # Current => ledger'[o] = ledger[o]
  BY <1>1, <1>2 DEF TurnRest
<1>5. Current.call = loop.call /\ effects[Current] \in Nat
  BY <1>2 DEF Current, Operation, TurnRest
<1>6. EffectsTold'
  BY <1>1, <1>2, <1>4, <1>5 DEF EffectsTold, EffectInv
<1> QED BY <1>1, <1>3, <1>4, <1>6, NoCall, QuietStep

-----------------------------------------------------------------------------
(* What ends the execution, and what happens beside it.                    *)

\* The execution is over.
LEMMA IdleKeeps ==
  ASSUME OInv, IInv', FileRest', loop' = Idle, UNCHANGED <<ledger, effects, outcome, attempts>>
  PROVE  OInv'
<1>1. loop'.at = "idle" /\ loop'.round = 1 /\ loop'.left = 0 /\ loop'.index = 1 /\ loop'.total = 0
        /\ loop'.retries = 0
  BY DEF Idle
<1>2. Counters' /\ CallsLeft'
  BY <1>1 DEF Counters, CallsLeft, InCall
<1>3. TurnRest' /\ EffectsTold'
  BY SameResults DEF OInv, TurnRest
<1>4. \A o \in Operations : Pending(o)' => Pending(o)
  BY <1>1 DEF Pending
<1> QED BY <1>1, <1>2, <1>3, <1>4, NoCall, PendingShrinks DEF OInv

\* A file that a call is about isn't written meanwhile, at most removed.
LEMMA BesideKeeps ==
  ASSUME OInv, IInv', FileRest', UNCHANGED loopVars,
         InCall => UNCHANGED writer /\ \A p \in Paths : file'[p] \in {file[p], None}
  PROVE  OInv'
<1>1. UNCHANGED <<ledger, effects, outcome, loop, attempts>>
  BY DEF loopVars
<1>2. Counters' /\ CallsLeft' /\ TurnRest' /\ EffectsTold'
  BY <1>1, SameResults DEF OInv, Counters, CallsLeft, TurnRest, InCall
<1>3. \A o \in Operations : Pending(o)' => Pending(o)
  BY <1>1 DEF Pending, Ahead, Writing, InCall
<1>4. CASE ~InCall
  BY <1>1, <1>2, <1>3, <1>4, NoCall, PendingShrinks DEF OInv, InCall
<1>5. CASE InCall
  <2>1. loop.call \in Calls /\ CallInv /\ WriteInv /\ MissingInv /\ EffectInv /\ Current' = Current
    BY <1>1, <1>5 DEF OInv, IInv, LoopInv, InCall, Current, Operation
  <2>2. loop.call.tool = "write_project_file" => /\ file'[loop.call.path] \in {file[loop.call.path], None}
                                                 /\ loop.call.content # None
    BY <1>5, <2>1, CallTypes
  <2>3. CallInv' /\ WriteInv' /\ EffectInv'
    BY <1>1, <1>5, <2>1 DEF CallInv, WriteInv, EffectInv, InCall, Writing, Changing
  <2>4. MissingInv'
    BY <1>1, <1>5, <2>1, <2>2 DEF MissingInv, RewritesAreChecked, WriteInv, Writing
  <2> QED BY <1>1, <1>2, <1>3, <2>3, <2>4, PendingShrinks DEF OInv
<1> QED BY <1>4, <1>5

\* The write on the event loop goes on, of the call or of an upload.
LEMMA WriterKeeps == ASSUME OInv, IInv', WriterStep PROVE OInv'
<1>1. /\ UNCHANGED <<root, consent, project, stranded, deleting, aside, asked>>
      /\ UNCHANGED <<ledger, outcome, attempts>> /\ writer # None
  BY DEF WriterStep, Write, FinishWrite, FailWrite, PutFile, RecordOwner, AbandonWrite, files, deletion
<1>2. FileRest'
  BY <1>1 DEF OInv, FileRest
<1>3. writer \in Writes /\ loop \in Loops
  BY <1>1 DEF OInv, IInv, FileInv, FileTypes, LoopInv
<1>4. ~Writing => ~InCall
  BY <1>1 DEF OInv, CallInv, InCall, Writing
<1>5. CASE ~Writing
  <2>1. UNCHANGED loopVars
    BY <1>1, <1>5 DEF WriterStep, Write, FinishWrite, FailWrite, loopVars
  <2> QED BY <1>2, <1>4, <1>5, <2>1, BesideKeeps
<1>6. CASE Writing /\ Write
  <2>1. writer.at = "put" /\ writer' = [writer EXCEPT !.at = "own"] /\ loop' = loop /\ TakesEffect
    BY <1>6 DEF Write, PutFile
  <2>2. writer' \in Writes /\ writer'.at = "own" /\ writer'.path = writer.path /\ writer'.content = writer.content
    BY <1>3, <2>1 DEF Writes
  <2>3. Current' = Current
    BY <2>1 DEF Current, Operation
  <2>4. ASSUME NEW o \in Operations, Pending(o)' PROVE Pending(o) /\ o # Current
    <3>1. o.round \in Int /\ loop.round \in Int /\ o.index \in Int /\ loop.index \in Int
      BY <1>3, OperationTypes DEF Loops
    <3>2. Pending(o)
      BY <1>1, <1>6, <2>1, <2>2, <2>4, <3>1 DEF Pending, Ahead, Writing
    <3>3. o # Current
      BY <1>6, <2>1, <2>2, <2>4, <3>1 DEF Pending, Ahead, Writing, Current, Operation
    <3> QED BY <3>2, <3>3
  <2>5. InCall /\ Pending(Current)
    BY <1>6, <2>1, CurrentPends DEF InCall, Writing
  <2>6. /\ TurnRest' /\ EffectsTold' /\ OnceAnExecution'
    BY <1>1, <2>1, <2>4, <2>5, EffectKeeps
  <2>7. Counters' /\ CallsLeft' /\ CallInv' /\ WriteInv'
    BY <1>1, <1>6, <2>1, <2>2, <2>3 DEF OInv, Counters, CallsLeft, CallInv, WriteInv, InCall, Writing, Changing
  <2>8. MissingInv' /\ EffectInv'
    BY <1>6, <2>1, <2>2 DEF MissingInv, RewritesAreChecked, EffectInv, Writing
  <2> QED BY <1>2, <2>6, <2>7, <2>8 DEF OInv
<1>7. CASE Writing /\ FinishWrite
  <2>1. writer' = None /\ Result("ok") /\ effects' = effects
    BY <1>7 DEF FinishWrite, RecordOwner
  <2>2. /\ Counters' /\ CallsLeft' /\ CallInv' /\ WriteInv' /\ MissingInv'
        /\ loop'.at = "settle" /\ loop'.result = "ok" /\ loop'.call = loop.call /\ Current' = Current
        /\ loop'.fresh = loop.fresh
        /\ \A o \in Operations : Pending(o)' => Pending(o)
    BY <1>1, <1>7, <2>1, ResultKeeps DEF Writing
  <2>3. EffectInv'
    BY <1>7, <2>1, <2>2 DEF OInv, WriteInv, EffectInv, Writing
  <2>4. TurnRest' /\ EffectsTold'
    BY <1>1, <2>1, SameResults DEF OInv, TurnRest
  <2> QED BY <1>1, <1>2, <2>1, <2>2, <2>3, <2>4, PendingShrinks DEF OInv
<1>8. CASE Writing /\ FailWrite
  BY <1>1, <1>2, <1>8, IdleKeeps DEF FailWrite
<1> QED BY <1>5, <1>6, <1>7, <1>8 DEF WriterStep

\* An error, a lost connection or a crash ends the execution.
LEMMA EndsKeep == ASSUME OInv, IInv', FailOperation \/ InterruptTurn \/ Crash PROVE OInv'
<1>1. loop' = Idle /\ UNCHANGED <<ledger, effects, outcome, attempts>>
  BY DEF FailOperation, InterruptTurn, Crash
<1>2. CASE FailOperation \/ InterruptTurn
  BY <1>1, <1>2, SameRest, IdleKeeps DEF FailOperation, InterruptTurn, OInv
<1>3. CASE Crash
  <2>1. /\ UNCHANGED <<root, project, asked, consent>> /\ stranded' \in BOOLEAN
        /\ deleting' = None /\ aside' = None
    BY <1>3 DEF Crash, LoseProcess, Strand, files, OInv, FileRest
  <2>2. FileRest'
    BY <2>1 DEF OInv, FileRest
  <2> QED BY <1>1, <2>2, IdleKeeps
<1> QED BY <1>2, <1>3

\* What the user does, and what goes on in the pool and with the deletion.
LEMMA UsersKeep ==
  ASSUME OInv, IInv', UserUploads \/ UserDeletesProject \/ ProjectGoes \/ UserRequests \/ ThreadGoes
  PROVE  OInv'
<1>1. UNCHANGED loopVars
  BY DEF UserUploads, UserDeletesProject, ProjectGoes, UserRequests, ThreadGoes
<1>2. FileRest /\ FileInv /\ LoopInv
  BY DEF OInv, IInv
<1>3. CASE UserUploads
  <2>1. /\ UNCHANGED <<consent, project, stranded, deleting, aside>>
        /\ root' = TRUE /\ asked < MaxRequests /\ asked' = asked + 1
    BY <1>3 DEF UserUploads, Upload, Ask, files, deletion
  <2>2. FileRest'
    BY <1>2, <2>1 DEF FileRest
  <2>3. ~InCall
    BY <1>3 DEF UserUploads, InCall
  <2> QED BY <1>1, <2>2, <2>3, BesideKeeps
<1>4. CASE UserDeletesProject
  <2>1. /\ UNCHANGED <<consent, project, stranded>> /\ asked < MaxRequests /\ asked' = asked + 1
        /\ root' = FALSE /\ deleting' = "commit" /\ aside' \in Trees /\ ~InCall
    BY <1>2, <1>4 DEF UserDeletesProject, BeginDeleteProject, Ask, FileInv, FileTypes, Trees, At, InCall
  <2>2. FileRest'
    <3>1. aside' # None /\ deleting' # None
      BY <2>1
    <3>2. asked' \in 0..MaxRequests
      BY <1>2, <2>1 DEF FileRest
    <3> QED BY <1>2, <2>1, <3>1, <3>2 DEF FileRest
  <2> QED BY <1>1, <2>1, <2>2, BesideKeeps
<1>5. CASE ProjectGoes
  <2>1. /\ UNCHANGED <<consent, asked>> /\ ~InCall
        /\ root' \in BOOLEAN /\ project' \in BOOLEAN /\ stranded' \in BOOLEAN
    BY <1>2, <1>5 DEF ProjectGoes, DeletionStep, CommitDeletion, AbortDeletion, RemoveTree, Strand,
                     FileRest, LoopInv, Deleting, InCall, files
  <2>2. \/ deleting' = None /\ aside' = None
        \/ deleting = "commit" /\ deleting' = "remove" /\ aside' = aside
    BY <1>5 DEF ProjectGoes, DeletionStep, CommitDeletion, AbortDeletion, RemoveTree, Strand
  <2>3. FileRest'
    BY <1>2, <2>1, <2>2 DEF FileRest
  <2> QED BY <1>1, <2>1, <2>3, BesideKeeps
<1>6. CASE UserRequests
  <2>1. /\ UNCHANGED <<file, writer, consent, project, stranded, deleting, aside>>
        /\ root' = TRUE /\ asked < MaxRequests /\ asked' = asked + 1
    BY <1>6 DEF UserRequests, BeginDelete, BeginShare, Arrive, Ask, files, content, deletion
  <2>2. FileRest'
    BY <1>2, <2>1 DEF FileRest
  <2> QED BY <1>1, <2>1, <2>2, BesideKeeps
<1>7. CASE ThreadGoes
  <2>1. PICK t \in Threads : Unlink(t) \/ RemoveOwner(t) \/ SetSharing(t)
    BY <1>7 DEF ThreadGoes, ThreadStep
  <2>2. UNCHANGED <<writer, root, asked, project, stranded, deleting, aside>>
    BY <2>1 DEF Unlink, RemoveOwner, SetSharing, deletion
  <2>3. \A p \in Paths : file'[p] \in {file[p], None}
    BY <1>2, <2>1 DEF Unlink, RemoveOwner, SetSharing, content, FileInv, FileTypes
  <2>4. consent' \in [Paths -> Agents \cup {None}]
    BY <1>2, <2>1 DEF Unlink, RemoveOwner, SetSharing, FileRest
  <2>5. FileRest'
    BY <1>2, <2>2, <2>4 DEF FileRest
  <2> QED BY <1>1, <2>2, <2>3, <2>5, BesideKeeps
<1> QED BY <1>3, <1>4, <1>5, <1>6, <1>7

\* Every step keeps the invariant.
LEMMA NextKeepsOInv == OInv /\ [Next]_vars => OInv'
<1> SUFFICES ASSUME OInv, [Next]_vars PROVE OInv'
  OBVIOUS
<1>1. IInv'
  BY NextKeeps DEF OInv
<1>2. CASE UNCHANGED vars
  <2>1. UNCHANGED fileVars /\ UNCHANGED loopVars /\ UNCHANGED <<file, writer>>
    BY <1>2 DEF vars, fileVars, files, content
  <2> QED BY <1>1, <2>1, SameRest, BesideKeeps DEF OInv
<1>3. CASE TurnStep
  BY <1>1, <1>3, BeatsKeep, AnswersKeep, ReaderKeeps, ChangerKeeps, RecoverKeeps, RunWriteKeeps,
     RunKeeps, CompleteKeeps, EndsKeep DEF TurnStep, ToolStep
<1>4. CASE StartTurn \/ WriterStep \/ InterruptTurn \/ Crash
  BY <1>1, <1>4, BeatsKeep, WriterKeeps, EndsKeep
<1>5. CASE UserUploads \/ UserDeletesProject \/ ProjectGoes \/ UserRequests \/ ThreadGoes
  BY <1>1, <1>5, UsersKeep
<1> QED BY <1>2, <1>3, <1>4, <1>5 DEF Next

\* The ledger, the loop and the effects are always as the invariant says: what
\* an interrupted attempt leaves behind is what the next one can deal with.
THEOREM OperationsInductive == Spec => []OInv
BY InitOInv, NextKeepsOInv, PTL DEF Spec

\* A write that is told to be in place was seen there during the call, by the
\* time the ledger says so, the call has its result or the file has been put.
HeldInv ==
  /\ held \subseteq Operations
  /\ \A o \in Operations : ledger[o] = "ok" /\ IsWrite(o) => o \in held
  /\ loop.at = "settle" /\ loop.result = "ok" /\ loop.call.tool = "write_project_file"
       => Current \in held
  /\ Writing /\ writer.at = "own" => Current \in held

LEMMA CurrentIsOperationNext == (OInv /\ InCall => Current \in Operations)'
BY CurrentIsOperation, PTL

\* What a step has to do for that: no write gets its ok, its result or its
\* file put without having been seen, before the step or after it.
LEMMA HeldKeeps ==
  ASSUME OInv, OInv', HeldInv, Observe,
         \A o \in Operations : ledger'[o] = "ok" /\ IsWrite(o) => o \in held,
         (\/ loop'.at = "settle" /\ loop'.result = "ok" /\ loop'.call.tool = "write_project_file"
          \/ loop'.at = "writing" /\ writer'.at = "own")
           => Current' \in held \/ file'[loop'.call.path] = loop'.call.content
  PROVE  HeldInv'
<1>1. held' \subseteq Operations
  BY DEF Observe
<1>2. \A o \in Operations : ledger'[o] = "ok" /\ IsWrite(o) => o \in held'
  BY DEF Observe
<1>3. ASSUME \/ loop'.at = "settle" /\ loop'.result = "ok" /\ loop'.call.tool = "write_project_file"
             \/ loop'.at = "writing" /\ writer'.at = "own"
      PROVE  Current' \in held'
  <2>1. InCall'
    BY <1>3 DEF InCall
  <2>2. Current' \in Operations
    BY <2>1, CurrentIsOperationNext
  <2>3. Current'.call = loop'.call
    BY DEF Current, Operation
  <2>4. loop'.call.tool = "write_project_file"
    BY <1>3 DEF OInv, WriteInv, Writing
  <2>5. IsWrite(Current')
    BY <2>3, <2>4 DEF IsWrite
  <2>6. Current' \in held \/ file'[loop'.call.path] = loop'.call.content
    BY <1>3
  <2> QED BY <2>1, <2>2, <2>3, <2>5, <2>6 DEF Observe
<1> QED BY <1>1, <1>2, <1>3 DEF HeldInv, Writing

\* The steps one by one.
LEMMA NextHolds ==
  ASSUME OInv, OInv', HeldInv, [Next]_vars
  PROVE  HeldInv'
<1> DEFINE Said == \A o \in Operations : ledger'[o] = "ok" /\ IsWrite(o) => o \in held
           Told == loop'.at = "settle" /\ loop'.result = "ok" /\ loop'.call.tool = "write_project_file"
           Put == loop'.at = "writing" /\ writer'.at = "own"
           Seen == Current' \in held \/ file'[loop'.call.path] = loop'.call.content
<1>1. CASE UNCHANGED vars
  <2>1. UNCHANGED <<ledger, loop, held, writer>>
    BY <1>1 DEF vars, loopVars, fileVars
  <2> QED BY <2>1 DEF HeldInv, Current, Operation, Writing
<1>2. ASSUME Observe, Said, Told \/ Put => Seen PROVE HeldInv'
  BY <1>2, HeldKeeps
<1>3. ledger' = ledger => Said
  BY DEF HeldInv
<1>4. loop \in Loops /\ ledger \in [Operations -> {"absent", "started", "ok", "error"}]
  BY DEF OInv, IInv, LoopInv, TurnRest
<1>5. UNCHANGED <<loop, writer>> => (Told \/ Put => Seen)
  BY DEF HeldInv, Current, Operation, Writing
<1>6. CASE Next
  <2>1. Observe
    BY <1>6 DEF Next
  <2>2. CASE StartTurn \/ NextAgent \/ ProviderAnswers \/ SearchAnswers \/ ProviderFails \/ Checkpoint
             \/ CallReader \/ FailOperation \/ InterruptTurn \/ Crash
    <3>1. ledger' = ledger
      BY <2>2 DEF StartTurn, NextAgent, ProviderAnswers, SearchAnswers, ProviderFails, Checkpoint, CallReader,
                  FailOperation, InterruptTurn, Crash
    <3>2. loop'.at \notin {"settle", "writing"}
      <4>1. ASSUME NEW r, End(r) PROVE loop'.at = "ended"
        BY <1>4, <4>1, EndFields
      <4>2. CASE StartTurn \/ Checkpoint
        <5>1. loop' = [loop EXCEPT !.at = "next"]
          BY <4>2 DEF StartTurn, Checkpoint
        <5> QED BY <1>4, <5>1, PlaceFields
      <4>3. CASE NextAgent
        <5>1. loop' = Idle \/ \E at \in {"asking", "searching"}, a \in Participants :
                               loop' = [Idle EXCEPT !.at = at, !.agent = a]
          BY <4>3 DEF NextAgent
        <5>2. ASSUME NEW at \in {"asking", "searching"}, NEW a \in Participants,
                     loop' = [Idle EXCEPT !.at = at, !.agent = a]
              PROVE  loop'.at = at
          BY <5>2 DEF Idle
        <5>3. Idle.at = "idle"
          BY DEF Idle
        <5> QED BY <5>1, <5>2, <5>3
      <4>4. CASE ProviderAnswers
        <5>1. CASE FinishSilently
          BY <1>4, <4>1, <4>4, <5>1, AgainFields DEF FinishSilently, ProviderAnswers, At
        <5>2. CASE \E n \in 1..CallsPerResponse + 1 : TakeCalls(n)
          <6>1. PICK n \in 1..CallsPerResponse + 1 : TakeCalls(n)
            BY <5>2
          <6>2. CASE End("failed")
            BY <4>1, <6>2
          <6>3. CASE loop' = [loop EXCEPT !.at = "tool", !.left = n, !.index = 1, !.total = @ + n]
            <7>1. n \in Int
              OBVIOUS
            <7>2. loop'.at = "tool"
              BY <1>4, <6>3, <7>1, TakeFields
            <7> QED BY <7>2
          <6> QED BY <6>1, <6>2, <6>3 DEF TakeCalls
        <5> QED BY <4>1, <4>4, <5>1, <5>2 DEF ProviderAnswers
      <4>5. CASE SearchAnswers \/ ProviderFails
        BY <4>1, <4>5 DEF SearchAnswers, ProviderFails
      <4>6. CASE CallReader
        BY <1>4, <4>6, AfterCallFields DEF CallReader
      <4>7. CASE FailOperation \/ InterruptTurn \/ Crash
        BY <4>7 DEF FailOperation, InterruptTurn, Crash, Idle
      <4> QED BY <2>2, <4>2, <4>3, <4>4, <4>5, <4>6, <4>7
    <3> QED BY <1>2, <1>3, <2>1, <3>1, <3>2
  <2>3. CASE CallChanger
    <3>1. PICK call \in Calls : BeginOperation(call)
      BY <2>3 DEF CallChanger
    <3>2. Said
      <4>1. ledger' = ledger \/ ledger' = [ledger EXCEPT ![Operation(call)] = "started"]
        BY <3>1 DEF BeginOperation
      <4>2. \A o \in Operations : ledger'[o] = "ok" => ledger[o] = "ok"
        BY <1>4, <4>1
      <4> QED BY <4>2 DEF HeldInv
    <3>3. loop'.at \notin {"settle", "writing"}
      <4>1. \/ \E at \in {"run", "recover"}, fresh \in BOOLEAN :
                 loop' = [loop EXCEPT !.at = at, !.call = call, !.fresh = fresh]
            \/ AfterCall(call, ledger[Operation(call)] = "ok")
        BY <3>1 DEF BeginOperation
      <4>2. ASSUME NEW at \in {"run", "recover"}, NEW fresh \in BOOLEAN,
                   loop' = [loop EXCEPT !.at = at, !.call = call, !.fresh = fresh]
            PROVE  loop'.at = at
        BY <1>4, <4>2 DEF Loops
      <4> QED BY <1>4, <4>1, <4>2, AfterCallFields
    <3> QED BY <1>2, <2>1, <3>2, <3>3
  <2>4. CASE RecoverWrite \/ RecoverPersona \/ RecoverMotifs
    <3>1. ledger' = ledger /\ file' = file /\ loop.at = "recover"
      BY <2>4 DEF RecoverWrite, RecoverPersona, RecoverMotifs, At, fileVars, files, content
    <3>2. \/ \E r \in {"ok", "error"} : Result(r) /\ (r = "ok" /\ loop.call.tool = "write_project_file"
                                                    => file[loop.call.path] = loop.call.content)
          \/ RunIt
      BY <2>4 DEF RecoverWrite, RecoverPersona, RecoverMotifs
    <3>3. ASSUME NEW r \in {"ok", "error"}, Result(r),
                 r = "ok" /\ loop.call.tool = "write_project_file" => file[loop.call.path] = loop.call.content
          PROVE  Told \/ Put => Seen
      BY <1>4, <3>1, <3>3, ResultFields
    <3>4. ASSUME RunIt PROVE Told \/ Put => Seen
      BY <1>4, <3>4, PlaceFields DEF RunIt
    <3> QED BY <1>2, <1>3, <2>1, <3>1, <3>2, <3>3, <3>4
  <2>5. CASE RunWrite \/ RunPersona \/ RunMotifs
    <3>1. ledger' = ledger /\ loop.at = "run"
      BY <2>5 DEF RunWrite, RunPersona, RunMotifs, At
    <3>2. \/ Result("error")
          \/ Result("ok") /\ loop.call.tool # "write_project_file"
          \/ loop' = [loop EXCEPT !.at = "writing"] /\ writer'.at = "put"
      BY <2>5 DEF RunWrite, RunPersona, RunMotifs, StartWrite
    <3>3. CASE Result("error") \/ (Result("ok") /\ loop.call.tool # "write_project_file")
      <4>1. PICK r \in {"ok", "error"} : Result(r) /\ (r = "error" \/ loop.call.tool # "write_project_file")
        BY <3>3
      <4>2. ~Told /\ ~Put
        BY <1>4, <4>1, ResultFields
      <4> QED BY <1>2, <1>3, <2>1, <3>1, <4>2
    <3>4. CASE loop' = [loop EXCEPT !.at = "writing"] /\ writer'.at = "put"
      <4>1. ~Told /\ ~Put
        BY <1>4, <3>4, PlaceFields
      <4> QED BY <1>2, <1>3, <2>1, <3>1, <4>1
    <3> QED BY <3>2, <3>3, <3>4
  <2>6. CASE CompleteOperation
    <3>1. /\ loop.at = "settle" /\ ledger' = [ledger EXCEPT ![Current] = loop.result]
          /\ AfterCall(loop.call, loop.result = "ok") /\ Current.call = loop.call
      BY <2>6 DEF CompleteOperation, At, Current, Operation
    <3>2. Said
      <4>1. ASSUME NEW o \in Operations, ledger'[o] = "ok", IsWrite(o) PROVE o \in held
        <5>1. CASE o = Current
          BY <1>4, <3>1, <4>1, <5>1 DEF HeldInv, IsWrite
        <5>2. CASE o # Current
          BY <1>4, <3>1, <4>1, <5>2 DEF HeldInv
        <5> QED BY <5>1, <5>2
      <4> QED BY <4>1
    <3>3. loop'.at \notin {"settle", "writing"}
      BY <1>4, <3>1, AfterCallFields
    <3> QED BY <1>2, <2>1, <3>2, <3>3
  <2>7. CASE WriterStep
    <3>1. ledger' = ledger /\ writer \in Writes
      BY <2>7 DEF WriterStep, Write, FinishWrite, FailWrite, PutFile, RecordOwner, AbandonWrite,
                  OInv, IInv, FileInv, FileTypes
    <3>2. CASE Write
      <4>1. loop' = loop /\ file' = [file EXCEPT ![writer.path] = writer.content]
        BY <3>2 DEF Write, PutFile
      <4>2. Writing => writer.path = loop.call.path /\ writer.content = loop.call.content
        BY DEF OInv, WriteInv
      <4>3. Writing => file'[loop.call.path] = loop.call.content
        BY <3>1, <4>1, <4>2 DEF Writes, OInv, IInv, FileInv, FileTypes
      <4>4. Told => Seen
        BY <4>1 DEF HeldInv, Current, Operation
      <4>5. Put => Seen
        BY <4>1, <4>3 DEF Writing
      <4> QED BY <1>2, <1>3, <2>1, <3>1, <4>4, <4>5
    <3>3. CASE FinishWrite
      <4>1. writer.at = "own" /\ IF Writing THEN Result("ok") ELSE UNCHANGED loop
        BY <3>3 DEF FinishWrite, RecordOwner
      <4>2. CASE Writing
        <5>1. UNCHANGED <<loop.agent, loop.round, loop.index, loop.call>>
          BY <1>4, <4>1, <4>2, ResultFields
        <5>2. Current' = Current
          BY <5>1 DEF Current, Operation
        <5> QED BY <1>2, <1>3, <2>1, <3>1, <4>1, <4>2, <5>2 DEF HeldInv
      <4>3. CASE ~Writing
        <5>1. Told => Seen
          BY <4>1, <4>3 DEF HeldInv, Current, Operation
        <5>2. ~Put
          BY <4>1, <4>3 DEF Writing
        <5> QED BY <1>2, <1>3, <2>1, <3>1, <5>1, <5>2
      <4> QED BY <4>2, <4>3
    <3>4. CASE FailWrite
      <4>1. IF Writing THEN loop' = Idle ELSE loop' = loop
        BY <3>4 DEF FailWrite
      <4>2. Told => Seen
        BY <4>1 DEF HeldInv, Current, Operation, Idle
      <4>3. ~Put
        BY <4>1 DEF Writing, Idle
      <4> QED BY <1>2, <1>3, <2>1, <3>1, <4>2, <4>3
    <3> QED BY <2>7, <3>2, <3>3, <3>4 DEF WriterStep
  <2>8. CASE UserUploads \/ UserDeletesProject \/ ProjectGoes \/ UserRequests \/ ThreadGoes
    <3>1. UNCHANGED <<ledger, loop>>
      BY <2>8 DEF UserUploads, UserDeletesProject, ProjectGoes, UserRequests, ThreadGoes, loopVars
    <3>2. Writing => UNCHANGED writer
      BY <2>8 DEF UserUploads, UserDeletesProject, ProjectGoes, UserRequests, ThreadGoes, Writing, At,
                  BeginDeleteProject, DeletionStep, CommitDeletion, AbortDeletion, RemoveTree, BeginDelete,
                  BeginShare, Arrive, ThreadStep, Unlink, RemoveOwner, SetSharing
    <3>3. Told \/ Put => Seen
      BY <3>1, <3>2 DEF HeldInv, Current, Operation, Writing
    <3> QED BY <1>2, <1>3, <2>1, <3>1, <3>3
  <2> QED BY <1>6, <2>2, <2>3, <2>4, <2>5, <2>6, <2>7, <2>8 DEF Next, TurnStep, ToolStep
<1> QED BY <1>1, <1>6

LEMMA InitHolds == Init => HeldInv
BY DEF Init, HeldInv, Idle, Writing

\* No write is told to be in place that was not seen there during its call,
\* however many attempts there were and whatever users and threads did.
THEOREM WritesAreHeld == Spec => []HeldInv
<1>1. OInv /\ OInv' /\ HeldInv /\ [Next]_vars => HeldInv'
  BY NextHolds
<1> QED BY <1>1, InitHolds, OperationsInductive, PTL DEF Spec

\* The invariant gives the properties.
LEMMA OInvImplies == OInv /\ HeldInv => TypeOK /\ ResultsAreTrue /\ RewritesAreChecked
<1> SUFFICES ASSUME OInv, HeldInv PROVE TypeOK /\ ResultsAreTrue /\ RewritesAreChecked
  OBVIOUS
<1>1. FilesTypeOK
  BY DEF OInv, IInv, FileInv, FileTypes, FileRest, FilesTypeOK
<1>2. loop \in Loops /\ Counters
  BY DEF OInv, IInv, LoopInv
<1>3. loop \in [at : Places, agent : Agents, round : 1..MaxRounds + 1,
               left : 0..CallsPerResponse, index : 1..CallsPerResponse + 1,
               total : 0..CallsPerTurn, retries : 0..Retries, acted : BOOLEAN,
               call : Calls \cup {None}, fresh : BOOLEAN,
               result : Outcomes \cup {"ok", "error", None}]
  BY <1>2 DEF Loops, Counters
<1>4. effects \in [Operations -> 0..MaxAttempts]
  BY DEF OInv, TurnRest, OnceAnExecution
<1>5. TypeOK
  BY <1>1, <1>3, <1>4 DEF OInv, TurnRest, HeldInv, TypeOK
<1>6. ASSUME NEW o \in Operations
      PROVE  /\ ledger[o] = "ok" => IF IsWrite(o) THEN o \in held ELSE effects[o] > 0
             /\ ledger[o] = "error" /\ o.call.tool = "record_motif_observations" => effects[o] = 0
             /\ ledger[o] = "absent" => effects[o] = 0
  BY DEF OInv, EffectsTold, TurnRest, HeldInv, IsWrite
<1>7. loop.at = "settle" /\ loop.fresh /\ loop.result = "error" => effects[Current] = 0
  BY DEF OInv, EffectInv
<1>8. ResultsAreTrue
  BY <1>6, <1>7 DEF ResultsAreTrue
<1> QED BY <1>5, <1>8 DEF OInv, MissingInv

\* Every variable keeps its type; in particular the counters stay within the
\* limits of the settings, and no operation takes effect more often than the
\* turn is executed.
THEOREM OperationTypesHold == Spec => []TypeOK
BY OperationsInductive, WritesAreHeld, OInvImplies, PTL

\* A result that the ledger has stored is true: ok means that the operation
\* has taken effect, of a write that its file had the content at some moment
\* of the call that was answered so; an error means that nothing was changed,
\* unless an earlier call of a write or an update was cut off.
THEOREM ToolResultsAreTrue == Spec => []ResultsAreTrue
BY OperationsInductive, WritesAreHeld, OInvImplies, PTL

\* A file is written again for an interrupted operation only if it does not
\* have the content, whatever uploads and deletions happened in between.
THEOREM InterruptedWritesAreChecked == Spec => []RewritesAreChecked
BY OperationsInductive, WritesAreHeld, OInvImplies, PTL

-----------------------------------------------------------------------------
(* The operations are what their identifiers promise.                      *)

OnceVars == <<phase, effects>>

\* The operation under way was begun in this execution.
Begun(o) == loop.at \in {"run", "writing", "settle"} /\ loop.fresh /\ o = Current

\* The phase of an operation, in this state and in the next.
LEMMA PhaseIs ==
  ASSUME NEW o \in Operations
  PROVE  phase[o] = IF ledger[o] = "absent" THEN "new"
                    ELSE IF ledger[o] \in {"ok", "error"} THEN "settled"
                    ELSE IF Begun(o) THEN "begun" ELSE "uncertain"
BY DEF phase, Begun

LEMMA PhaseIsNext ==
  ASSUME NEW o \in Operations
  PROVE  phase'[o] = IF ledger'[o] = "absent" THEN "new"
                     ELSE IF ledger'[o] \in {"ok", "error"} THEN "settled"
                     ELSE IF Begun(o)' THEN "begun" ELSE "uncertain"
BY DEF phase, Begun

LEMMA PhaseIsFunction == phase = [o \in Operations |-> phase[o]] /\ phase' = [o \in Operations |-> phase'[o]]
BY DEF phase

\* A step that settles nothing, and begins or leaves no operation.
LEMMA SamePhase ==
  ASSUME UNCHANGED ledger, \A o \in Operations : Begun(o)' <=> Begun(o)
  PROVE  phase' = phase
<1>1. \A o \in Operations : phase'[o] = phase[o]
  BY PhaseIs, PhaseIsNext
<1> QED BY <1>1, PhaseIsFunction

\* Between calls the abstract specification stutters.
LEMMA OutsideCalls ==
  ASSUME loop.at \notin {"run", "writing", "settle"}, loop'.at \notin {"run", "writing", "settle"},
         UNCHANGED <<ledger, effects>>
  PROVE  UNCHANGED OnceVars
BY SamePhase DEF Begun, OnceVars

\* An execution that ends leaves what it had begun uncertain.
LEMMA EndInterrupts ==
  ASSUME loop' = Idle, UNCHANGED <<ledger, effects>>
  PROVE  Once!Next
<1>1. loop'.at = "idle"
  BY DEF Idle
<1>2. \A o \in Operations : phase'[o] = IF phase[o] = "begun" THEN "uncertain" ELSE phase[o]
  BY <1>1, PhaseIs, PhaseIsNext DEF Begun
<1>3. Once!Interrupt
  BY <1>2, PhaseIsFunction DEF Once!Interrupt
<1> QED BY <1>3 DEF Once!Next

\* The operation takes effect at its place, with the call as it was begun.
LEMMA EffectRefines ==
  ASSUME OInv, TakesEffect, UNCHANGED ledger,
         \/ loop.at = "run" /\ loop.call.tool # "write_project_file"
         \/ Writing /\ writer.at = "put",
         loop'.at \in {"run", "writing", "settle"}, loop'.fresh = loop.fresh, Current' = Current
  PROVE  Once!Next
<1>1. InCall /\ Current \in Operations /\ Current.call = loop.call /\ CallInv /\ EffectInv /\ WriteInv
  BY CurrentIsOperation DEF OInv, InCall, Writing, Current, Operation
<1>2. UNCHANGED phase
  BY SamePhase, <1>1 DEF Begun, Writing
<1>3. phase[Current] = IF loop.fresh THEN "begun" ELSE "uncertain"
  BY <1>1, PhaseIs DEF CallInv, Begun, Writing
<1>4. loop.fresh => effects[Current] = 0
  BY <1>1 DEF EffectInv
<1>5. ~loop.fresh => /\ loop.call.tool # "propose_persona_update"
                     /\ effects[Current] = 0 \/ loop.call.tool = "write_project_file"
  BY <1>1 DEF CallInv, EffectInv, WriteInv, Changing
<1>6. Once!TakeEffect(Current)
  BY <1>1, <1>2, <1>3, <1>4, <1>5 DEF Once!TakeEffect, TakesEffect
<1> QED BY <1>1, <1>6 DEF Once!Next

\* The steps of a call are its steps, or stutter.
LEMMA ToolRefines == ASSUME OInv, ToolStep PROVE [Once!Next]_OnceVars
<1>1. loop \in Loops /\ CallInv /\ TurnRest
  BY DEF OInv, IInv, LoopInv
<1>2. CASE CallReader
  <2>1. loop.at = "tool" /\ loop'.at \in {"asking", "tool"} /\ UNCHANGED <<ledger, effects>>
    BY <1>1, <1>2, AfterCallFields DEF CallReader, At
  <2> QED BY <2>1, OutsideCalls
<1>3. CASE CallChanger
  <2>1. PICK call \in Calls : Changing(call) /\ BeginOperation(call)
    BY <1>3 DEF CallChanger
  <2> DEFINE o == Operation(call)
  <2>2. o \in Operations /\ loop.at = "tool" /\ UNCHANGED effects
    BY <1>3, <2>1 DEF CallChanger, At, Operation, Operations, OInv, Counters, CallsLeft
  <2>3. CASE ledger[o] = "absent"
    <3>1. ledger' = [ledger EXCEPT ![o] = "started"]
            /\ loop' = [loop EXCEPT !.at = "run", !.call = call, !.fresh = TRUE]
      BY <2>1, <2>3 DEF BeginOperation
    <3>2. loop'.at = "run" /\ loop'.fresh /\ Current' = o
      BY <1>1, <3>1 DEF Loops, Current, Operation
    <3>3. \A p \in Operations : phase'[p] = IF p = o THEN "begun" ELSE phase[p]
      <4>1. \A p \in Operations : ledger'[p] = IF p = o THEN "started" ELSE ledger[p]
        BY <1>1, <2>2, <3>1 DEF TurnRest
      <4>2. \A p \in Operations : ~Begun(p) /\ (Begun(p)' <=> p = o)
        BY <2>2, <3>2 DEF Begun
      <4> QED BY <4>1, <4>2, PhaseIs, PhaseIsNext
    <3>4. phase[o] = "new"
      BY <2>2, <2>3, PhaseIs
    <3>5. Once!Begin(o)
      BY <2>2, <3>3, <3>4, PhaseIsFunction DEF Once!Begin
    <3> QED BY <2>2, <3>5 DEF Once!Next
  <2>4. CASE ledger[o] # "absent"
    <3>1. ledger' = ledger /\ loop'.at \in {"recover", "asking", "tool"}
      <4>1. CASE ledger[o] = "started"
        BY <1>1, <2>1, <4>1 DEF BeginOperation, Loops
      <4>2. CASE ledger[o] # "started"
        BY <1>1, <2>1, <2>4, <4>2, AfterCallFields DEF BeginOperation
      <4> QED BY <4>1, <4>2
    <3> QED BY <2>2, <3>1, OutsideCalls
  <2> QED BY <2>3, <2>4
<1>4. CASE RecoverWrite \/ RecoverPersona \/ RecoverMotifs
  <2>1. UNCHANGED <<ledger, effects>> /\ loop.at = "recover" /\ ~loop.fresh
    BY <1>1, <1>4 DEF RecoverWrite, RecoverPersona, RecoverMotifs, At, CallInv
  <2>2. ~loop'.fresh
    BY <1>1, <1>4, <2>1, ResultFields, PlaceFields DEF RecoverWrite, RecoverPersona, RecoverMotifs, RunIt
  <2>3. UNCHANGED phase
    BY <2>1, <2>2, SamePhase DEF Begun
  <2> QED BY <2>1, <2>3 DEF OnceVars
<1>5. CASE RunWrite
  <2>1. UNCHANGED <<ledger, effects>> /\ loop.at = "run"
    BY <1>5 DEF RunWrite, At
  <2>2. /\ loop'.at \in {"writing", "settle"}
        /\ UNCHANGED <<loop.agent, loop.round, loop.index, loop.call, loop.fresh>>
    BY <1>1, <1>5, ResultFields, PlaceFields DEF RunWrite
  <2>3. UNCHANGED phase
    BY <2>1, <2>2, SamePhase DEF Begun, Current, Operation
  <2> QED BY <2>1, <2>3 DEF OnceVars
<1>6. CASE RunPersona \/ RunMotifs
  <2>1. /\ UNCHANGED ledger /\ loop.at = "run" /\ loop.call.tool # "write_project_file"
        /\ TakesEffect \/ UNCHANGED effects
        /\ Result("ok") \/ Result("error")
    BY <1>6 DEF RunPersona, RunMotifs, At
  <2>2. /\ loop'.at = "settle"
        /\ UNCHANGED <<loop.agent, loop.round, loop.index, loop.call, loop.fresh>>
    BY <1>1, <2>1, ResultFields
  <2>3. Current' = Current
    BY <2>2 DEF Current, Operation
  <2>4. CASE TakesEffect
    BY <2>1, <2>2, <2>3, <2>4, EffectRefines
  <2>5. CASE UNCHANGED effects
    <3>1. UNCHANGED phase
      BY <2>1, <2>2, <2>3, SamePhase DEF Begun
    <3> QED BY <2>5, <3>1 DEF OnceVars
  <2> QED BY <2>1, <2>4, <2>5
<1>7. CASE CompleteOperation
  <2>1. /\ UNCHANGED effects /\ loop.at = "settle"
        /\ ledger' = [ledger EXCEPT ![Current] = loop.result]
        /\ AfterCall(loop.call, loop.result = "ok")
    BY <1>7 DEF CompleteOperation, At
  <2>2. /\ Current \in Operations /\ ledger[Current] = "started" /\ loop.result \in {"ok", "error"}
    BY <1>1, <2>1, CurrentIsOperation DEF OInv, CallInv, InCall, CallsLeft
  <2>3. loop'.at \in {"asking", "tool"}
    BY <1>1, <2>1, AfterCallFields
  <2>4. \A o \in Operations : ledger'[o] = IF o = Current THEN loop.result ELSE ledger[o]
    BY <1>1, <2>1, <2>2 DEF TurnRest
  <2>5. \A o \in Operations : ~Begun(o)' /\ (Begun(o) => o = Current)
    BY <2>3 DEF Begun
  <2>6. \A o \in Operations : phase'[o] = IF o = Current THEN "settled" ELSE phase[o]
    BY <2>2, <2>4, <2>5, PhaseIs, PhaseIsNext
  <2>7. phase[Current] \in {"begun", "uncertain"}
    BY <2>2, PhaseIs
  <2>8. Once!Settle(Current)
    BY <2>1, <2>6, <2>7, PhaseIsFunction DEF Once!Settle
  <2> QED BY <2>2, <2>8 DEF Once!Next
<1>8. CASE FailOperation
  BY <1>8, EndInterrupts DEF FailOperation
<1> QED BY <1>2, <1>3, <1>4, <1>5, <1>6, <1>7, <1>8 DEF ToolStep

\* So are the steps of a write.
LEMMA WriterRefines == ASSUME OInv, WriterStep PROVE [Once!Next]_OnceVars
<1>1. loop \in Loops /\ UNCHANGED ledger /\ writer # None
  BY DEF OInv, IInv, LoopInv, WriterStep, Write, FinishWrite, FailWrite, PutFile, RecordOwner, AbandonWrite
<1>2. CASE ~Writing
  <2>1. loop.at \notin {"run", "writing", "settle"} /\ UNCHANGED <<loop, effects>>
    BY <1>1, <1>2 DEF OInv, CallInv, Writing, WriterStep, Write, FinishWrite, FailWrite
  <2> QED BY <1>1, <2>1, OutsideCalls
<1>3. CASE Writing /\ Write
  <2>1. TakesEffect /\ UNCHANGED loop /\ writer.at = "put" /\ Current' = Current
    BY <1>3 DEF Write, PutFile, Current, Operation
  <2> QED BY <1>1, <1>3, <2>1, EffectRefines DEF Writing
<1>4. CASE Writing /\ FinishWrite
  <2>1. Result("ok") /\ UNCHANGED effects
    BY <1>4 DEF FinishWrite
  <2>2. /\ loop'.at = "settle"
        /\ UNCHANGED <<loop.agent, loop.round, loop.index, loop.call, loop.fresh>>
    BY <1>1, <2>1, ResultFields
  <2>3. UNCHANGED phase
    BY <1>1, <1>4, <2>2, SamePhase DEF Begun, Current, Operation, Writing
  <2> QED BY <2>1, <2>3 DEF OnceVars
<1>5. CASE Writing /\ FailWrite
  BY <1>5, EndInterrupts DEF FailWrite
<1> QED BY <1>2, <1>3, <1>4, <1>5 DEF WriterStep

\* Requests to providers are none of its steps.
LEMMA RequestsRefine ==
  ASSUME OInv, StartTurn \/ NextAgent \/ ProviderAnswers \/ SearchAnswers \/ ProviderFails \/ Checkpoint
  PROVE  UNCHANGED OnceVars
<1>1. loop \in Loops /\ UNCHANGED <<ledger, effects>>
  BY DEF OInv, IInv, LoopInv, StartTurn, NextAgent, ProviderAnswers, SearchAnswers, ProviderFails, Checkpoint
<1>2. loop.at \notin {"run", "writing", "settle"}
  BY DEF StartTurn, NextAgent, ProviderAnswers, SearchAnswers, ProviderFails, Checkpoint, At
<1>3. loop'.at \notin {"run", "writing", "settle"}
  <2>1. CASE StartTurn \/ Checkpoint
    BY <1>1, <2>1 DEF StartTurn, Checkpoint, Loops
  <2>2. CASE NextAgent
    <3>1. \/ loop' = Idle
          \/ \E a \in Participants, at \in {"asking", "searching"} : loop' = [Idle EXCEPT !.at = at, !.agent = a]
      BY <2>2 DEF NextAgent
    <3>2. loop' = Idle => loop'.at = "idle"
      BY DEF Idle
    <3>3. \A at \in {"asking", "searching"}, a \in Participants : [Idle EXCEPT !.at = at, !.agent = a].at = at
      BY IdleType DEF Loops
    <3> QED BY <3>1, <3>2, <3>3
  <2>3. CASE ProviderAnswers
    <3>1. CASE \E r : End(r)
      BY <1>1, <3>1, EndFields
    <3>2. CASE FinishSilently
      BY <1>1, <1>2, <3>2, EndFields, AgainFields DEF FinishSilently
    <3>3. ASSUME NEW n \in 1..CallsPerResponse + 1, TakeCalls(n) PROVE loop'.at \in {"ended", "tool"}
      <4>1. n \in Int
        OBVIOUS
      <4> QED BY <1>1, <3>3, <4>1, EndFields, TakeFields DEF TakeCalls
    <3> QED BY <2>3, <3>1, <3>2, <3>3 DEF ProviderAnswers
  <2>4. CASE SearchAnswers \/ ProviderFails
    BY <1>1, <2>4, EndFields DEF SearchAnswers, ProviderFails
  <2> QED BY <2>1, <2>2, <2>3, <2>4
<1> QED BY <1>1, <1>2, <1>3, OutsideCalls

\* Nor is what happens beside the loop.
LEMMA BesideRefines == UNCHANGED loopVars => UNCHANGED OnceVars
<1> SUFFICES ASSUME UNCHANGED loopVars PROVE UNCHANGED OnceVars
  OBVIOUS
<1>1. UNCHANGED <<ledger, effects, loop>>
  BY DEF loopVars
<1>2. Current' = Current
  BY <1>1 DEF Current, Operation
<1>3. UNCHANGED phase
  BY <1>1, <1>2, SamePhase DEF Begun
<1> QED BY <1>1, <1>3 DEF OnceVars

\* Every step is one of the abstract specification, or stutters.
LEMMA NextRefines == OInv /\ [Next]_vars => [Once!Next]_OnceVars
<1> SUFFICES ASSUME OInv, [Next]_vars PROVE [Once!Next]_OnceVars
  OBVIOUS
<1>1. CASE TurnStep \/ StartTurn
  BY <1>1, ToolRefines, RequestsRefine DEF TurnStep
<1>2. CASE WriterStep
  BY <1>2, WriterRefines
<1>3. CASE InterruptTurn \/ Crash
  BY <1>3, EndInterrupts DEF InterruptTurn, Crash
<1>4. CASE UserUploads \/ UserDeletesProject \/ ProjectGoes \/ UserRequests \/ ThreadGoes \/ UNCHANGED vars
  BY <1>4, BesideRefines
  DEF UserUploads, UserDeletesProject, ProjectGoes, UserRequests, ThreadGoes, vars
<1> QED BY <1>1, <1>2, <1>3, <1>4 DEF Next

\* Before the first execution every operation is new.
LEMMA InitRefines == Init => Once!Init
<1> SUFFICES ASSUME Init PROVE Once!Init
  OBVIOUS
<1>1. \A o \in Operations : phase[o] = "new"
  BY PhaseIs DEF Init
<1> QED BY <1>1, PhaseIsFunction DEF Init, Once!Init

\* The loop with its ledger, crashes and retries implements the promise of an
\* operation's identifier: it is begun once, settled once, takes effect between
\* the two, and after an interruption only if it is repeatable or without effect.
THEOREM OncePerOperationHolds == Spec => OncePerOperation
BY InitRefines, NextRefines, OperationsInductive, PTL DEF Spec, OncePerOperation, Once!Spec, OnceVars
=============================================================================
