------------------------------ MODULE MemoryChat ------------------------------
(***************************************************************************)
(* `ai-cockpit chat` beside the suggestion store.  A session reads the     *)
(* memory file into Cursor's context, asks git status before and after     *)
(* Cursor's turn, and reports the paths the second answer has and the      *)
(* first has not, each with a command that reverts it.  Cursor should only *)
(* read, and edits all the same; the operator, other processes that accept *)
(* suggestions, and Cursor write at the same time.                         *)
(*                                                                         *)
(* Two tracked files stand for the tree: the memory file, whose entries    *)
(* are SuggestionStore's, and a source file, of which only matters who     *)
(* changed it since the last commit.  The interactive and the one-shot     *)
(* session differ in how Cursor gets the context and in nothing else.      *)
(***************************************************************************)
EXTENDS SuggestionStore

CONSTANT Budget  \* entries of the memory file that fit the context

ASSUME ChatConstants == Budget \in Nat

VARIABLES
  head,     \* the memory file as last committed
  work,     \* who changed the source file since the last commit
  chat,     \* the session: how far it is, what it read and what it reports
  base,     \* history: the memory entries and the authors of work at the first
            \* status; Absent if it failed or met the memory file half written
  touched,  \* history: Cursor edited the source file in this session
  reverted  \* history: a hint for the memory file was followed

chatVars == <<head, work, chat, base, touched, reverted>>

Files == {"memory", "code"}
Authors == {"operator", "cursor"}
Entries == Seq(Runs \union {Notes})

ChatStates ==
  [at : {"idle", "composed", "open", "exited", "reported"},
   context : Entries, pre : SUBSET Files, report : SUBSET Files]

NoChat == [at |-> "idle", context |-> <<>>, pre |-> {}, report |-> {}]

(* git status: the uncommitted files.                                      *)
Dirty ==
  {f \in Files : \/ f = "memory" /\ memory # head
                 \/ f = "code" /\ work # {}}

(* A git that fails or takes too long reads as no uncommitted file.        *)
DirtyPaths == {Dirty, {}}
----------------------------------------------------------------------------
(* The session. *)

(* A file over the budget is left out as a whole.                          *)
ComposeContext ==
  /\ chat.at = "idle"
  /\ chat' = [NoChat EXCEPT !.at = "composed",
                            !.context = IF Len(memory) > Budget THEN <<>> ELSE memory]
  /\ UNCHANGED <<head, work, base, touched, reverted>>

FirstStatus ==
  \E paths \in DirtyPaths :
    /\ chat.at = "composed"
    /\ chat' = [chat EXCEPT !.at = "open", !.pre = paths]
    /\ base' = IF paths # Dirty \/ Rewriting # {} THEN Absent
               ELSE [log |-> memory, work |-> work]
    /\ UNCHANGED <<head, work, touched, reverted>>

CursorEdit ==
  /\ chat.at = "open"
  /\ work' = work \union {"cursor"}
  /\ touched' = TRUE
  /\ UNCHANGED <<head, chat, base, reverted>>

(* With Cursor the context it was given is gone.                           *)
CursorExits ==
  /\ chat.at = "open"
  /\ chat' = [chat EXCEPT !.at = "exited", !.context = <<>>]
  /\ UNCHANGED <<head, work, base, touched, reverted>>

(* Fault: whatever is dirty at the end counts as the session's.            *)
NewDirtyAll(pre, post) == post

NewDirty(pre, post) == post \ pre

LastStatus ==
  \E paths \in DirtyPaths :
    /\ chat.at = "exited"
    /\ chat' = [NoChat EXCEPT !.at = "reported", !.report = NewDirty(chat.pre, paths)]
    /\ base' = IF paths # Dirty THEN Absent ELSE base
    /\ UNCHANGED <<head, work, touched, reverted>>

(* Ctrl-C or a kill before the report, or the operator moves on after it.  *)
EndChat ==
  /\ chat.at # "idle"
  /\ chat' = NoChat
  /\ base' = Absent
  /\ touched' = FALSE
  /\ UNCHANGED <<head, work, reverted>>
----------------------------------------------------------------------------
(* The operator. *)

OperatorEdit ==
  /\ work' = work \union {"operator"}
  /\ UNCHANGED <<head, chat, base, touched, reverted>>

(* git commit -a.  If the memory file lacks an entry by then that it had   *)
(* at the first status, that is not the session's doing.                   *)
OperatorCommit ==
  /\ head' = memory
  /\ work' = {}
  /\ base' = IF base = Absent \/ ~IsPrefix(base.log, memory) THEN Absent
             ELSE [base EXCEPT !.work = {}]
  /\ UNCHANGED <<chat, touched, reverted>>

(* The operator follows a hint of the report: git checkout -- PATH.        *)
FollowHint(f) ==
  /\ f \in chat.report
  /\ memory' = IF f = "memory" THEN head ELSE memory
  /\ work' = IF f = "code" THEN {} ELSE work
  /\ reverted' = (reverted \/ f = "memory")
  /\ UNCHANGED <<pending, archive, run, clerk, crashes, head, chat, base, touched>>
----------------------------------------------------------------------------
ChatInit ==
  /\ Init
  /\ head = memory
  /\ work = {}
  /\ chat = NoChat
  /\ base = Absent
  /\ touched = FALSE
  /\ reverted = FALSE

Session ==
  \/ ComposeContext \/ FirstStatus \/ CursorEdit \/ CursorExits \/ LastStatus
  \/ EndChat \/ OperatorEdit \/ OperatorCommit

ChatNext ==
  \/ Next /\ UNCHANGED chatVars
  \/ Session /\ UNCHANGED vars
  \/ \E f \in Files : FollowHint(f)

ChatSpec == ChatInit /\ [][ChatNext]_<<vars, chatVars>>
----------------------------------------------------------------------------
(* Properties. *)

(* The store's types and the session's; there is no report before the end, *)
(* and no first look is remembered but a session's own.                    *)
ChatTypeOK ==
  /\ TypeOK
  /\ head \in Entries
  /\ work \subseteq Authors
  /\ chat \in ChatStates
  /\ base = Absent \/ base \in [log : Entries, work : SUBSET Authors]
  /\ {touched, reverted} \subseteq BOOLEAN
  /\ chat.report # {} => chat.at = "reported"
  /\ chat.at \in {"idle", "composed"} => base = Absent /\ ~touched

(* What Cursor was given as the project's memory stays true: whatever is   *)
(* accepted while a session lasts, its context is a beginning of the log,  *)
(* until a kill or a hint changes the file otherwise.                      *)
ContextStaysTrue ==
  crashes = 0 /\ ~reverted => IsPrefix(chat.context, LogOf)

(* Following a hint undoes nothing that was there when the session began:  *)
(* neither an accepted entry of the memory file, committed or not, nor the *)
(* operator's uncommitted work, through every accept and kill meanwhile.   *)
(* Exempt are sessions whose first status failed or came while an accept   *)
(* had the memory file open, and work that was committed or was lost       *)
(* before the hint was followed.                                           *)
HintsKeepEarlierWork ==
  [][\A f \in Files : FollowHint(f) /\ base # Absent =>
       /\ IsPrefix(base.log, memory) => IsPrefix(base.log, memory')
       /\ base.work \intersect work \subseteq work']_<<vars, chatVars>>

(* A source file that Cursor edited, and that is still uncommitted, is in  *)
(* the report when git answered both times.                                *)
CursorEditsReported ==
  chat.at = "reported" /\ touched /\ base # Absent /\ "cursor" \in work =>
    "code" \in chat.report

AcceptLog == INSTANCE AcceptedLog WITH
  log <- LogOf, offered <- {r \in Runs : run[r].at = "reported"},
  intact <- crashes = 0 /\ ~reverted

(* One accept at a time, the store implements the append-once log of       *)
(* AcceptedLog until the first kill or the first hint that is followed for *)
(* the memory file; sessions and commits in between leave it alone.        *)
ImplementsLog == AcceptLog!LogSpec
===============================================================================
