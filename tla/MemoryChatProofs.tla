--------------------------- MODULE MemoryChatProofs ---------------------------
(***************************************************************************)
(* Proofs about MemoryChat: sessions beside any number of runs, accepts    *)
(* and kills, and the refinement of AcceptedLog for one accept at a time.  *)
(***************************************************************************)
EXTENDS MemoryChat, SuggestionStoreProofs

LEMMA NoChatTyped == NoChat \in ChatStates /\ NoChat.at = "idle" /\ NoChat.report = {}
<1>1. <<>> \in Entries
  BY DEF Entries
<1>2. QED
  BY <1>1 DEF NoChat, ChatStates

LEMMA DirtyTyped == \A paths \in DirtyPaths : paths \subseteq Files
BY DEF DirtyPaths, Dirty

(* The types of what the session keeps.                                    *)
SessionTyped ==
  /\ head \in Entries
  /\ work \subseteq Authors
  /\ chat \in ChatStates
  /\ base = Absent \/ base \in [log : Entries, work : SUBSET Authors]
  /\ touched \in BOOLEAN /\ reverted \in BOOLEAN
  /\ chat.report # {} => chat.at = "reported"
  /\ chat.at \in {"idle", "composed"} => base = Absent /\ ~touched

LEMMA ChatTypeOKInitially == ChatInit => TypeOK /\ SessionTyped
<1> SUFFICES ASSUME ChatInit PROVE TypeOK /\ SessionTyped
  OBVIOUS
<1>1. TypeOK
  BY TypeOKInitially DEF ChatInit
<1>2. QED
  BY <1>1, NoChatTyped DEF ChatInit, SessionTyped, TypeOK, Entries

LEMMA SessionTypedPreserved ==
  ASSUME TypeOK, SessionTyped, [ChatNext]_<<vars, chatVars>>
  PROVE  SessionTyped'
<1>1. memory \in Entries
  BY DEF TypeOK, Entries
<1>2. CASE ComposeContext
  <2> DEFINE text == IF Len(memory) > Budget THEN <<>> ELSE memory
             s == [NoChat EXCEPT !.at = "composed", !.context = text]
  <2>1. text \in Entries
    BY <1>1 DEF Entries
  <2> HIDE DEF text
  <2>2. s \in ChatStates /\ s.at = "composed" /\ s.report = {}
    BY <2>1 DEF NoChat, ChatStates
  <2>3. chat' = s /\ chat.at = "idle" /\ UNCHANGED <<head, work, base, touched, reverted>>
    BY <1>2 DEF ComposeContext, text
  <2> HIDE DEF s
  <2>4. QED
    BY <2>2, <2>3 DEF SessionTyped
<1>3. CASE FirstStatus
  <2>1. PICK paths \in DirtyPaths :
          /\ chat' = [chat EXCEPT !.at = "open", !.pre = paths]
          /\ base' = IF paths # Dirty \/ Rewriting # {} THEN Absent
                     ELSE [log |-> memory, work |-> work]
    BY <1>3 DEF FirstStatus
  <2>2. chat.at = "composed" /\ UNCHANGED <<head, work, touched, reverted>>
    BY <1>3 DEF FirstStatus
  <2>3. chat' \in ChatStates /\ chat'.at = "open" /\ chat'.report = chat.report
    BY <2>1, DirtyTyped DEF SessionTyped, ChatStates
  <2>4. base' = Absent \/ base' \in [log : Entries, work : SUBSET Authors]
    BY <1>1, <2>1 DEF SessionTyped
  <2>5. QED
    BY <2>2, <2>3, <2>4 DEF SessionTyped
<1>4. CASE CursorEdit
  <2>1. work' \subseteq Authors
    BY <1>4 DEF CursorEdit, SessionTyped, Authors
  <2>2. QED
    BY <1>4, <2>1 DEF CursorEdit, SessionTyped
<1>5. CASE CursorExits
  <2>1. <<>> \in Entries
    BY DEF Entries
  <2>2. chat' = [chat EXCEPT !.at = "exited", !.context = <<>>]
    BY <1>5 DEF CursorExits
  <2>3. chat' \in ChatStates /\ chat'.at = "exited" /\ chat'.report = chat.report
    BY <2>1, <2>2 DEF SessionTyped, ChatStates
  <2>4. QED
    BY <1>5, <2>3 DEF CursorExits, SessionTyped
<1>6. CASE LastStatus
  <2>1. PICK paths \in DirtyPaths :
          /\ chat' = [NoChat EXCEPT !.at = "reported", !.report = NewDirty(chat.pre, paths)]
          /\ base' = IF paths # Dirty THEN Absent ELSE base
    BY <1>6 DEF LastStatus
  <2>2. NewDirty(chat.pre, paths) \in SUBSET Files
    BY DirtyTyped DEF NewDirty
  <2>3. chat' \in ChatStates /\ chat'.at = "reported"
    BY <2>1, <2>2, NoChatTyped DEF ChatStates
  <2>4. UNCHANGED <<head, work, touched, reverted>>
    BY <1>6 DEF LastStatus
  <2>5. QED
    BY <2>1, <2>3, <2>4 DEF SessionTyped
<1>7. CASE EndChat
  BY <1>7, NoChatTyped DEF EndChat, SessionTyped
<1>8. CASE OperatorEdit
  <2>1. work' \subseteq Authors
    BY <1>8 DEF OperatorEdit, SessionTyped, Authors
  <2>2. QED
    BY <1>8, <2>1 DEF OperatorEdit, SessionTyped
<1>9. CASE OperatorCommit
  <2>1. base' = Absent \/ (base # Absent /\ base' = [base EXCEPT !.work = {}])
    BY <1>9 DEF OperatorCommit, IsPrefix
  <2>2. base' = Absent \/ base' \in [log : Entries, work : SUBSET Authors]
    BY <2>1 DEF SessionTyped
  <2>3. head' = memory /\ work' = {} /\ UNCHANGED <<chat, touched, reverted>>
    BY <1>9 DEF OperatorCommit
  <2>4. QED
    BY <1>1, <2>1, <2>2, <2>3 DEF SessionTyped
<1>10. ASSUME NEW f \in Files, FollowHint(f) PROVE SessionTyped'
  <2>1. work' \subseteq Authors
    BY <1>10 DEF FollowHint, SessionTyped
  <2>2. reverted' \in BOOLEAN
    BY <1>10 DEF FollowHint
  <2>3. QED
    BY <1>10, <2>1, <2>2 DEF FollowHint, SessionTyped
<1>11. CASE UNCHANGED chatVars
  BY <1>11 DEF chatVars, SessionTyped
<1>12. QED
  BY <1>2, <1>3, <1>4, <1>5, <1>6, <1>7, <1>8, <1>9, <1>10, <1>11 DEF ChatNext, Session
----------------------------------------------------------------------------
(* A hint for the memory file rewrites that file and nothing else of the   *)
(* store; the rest of a session leaves the store alone.                    *)
LEMMA ChatStep ==
  ASSUME [ChatNext]_<<vars, chatVars>>
  PROVE  \/ Next /\ UNCHANGED chatVars
         \/ UNCHANGED vars
         \/ /\ UNCHANGED <<pending, archive, run, clerk, crashes, head, chat, base, touched>>
            /\ \E f \in Files : FollowHint(f)
BY DEF ChatNext, FollowHint

LEMMA SurvivalInvPreservedByChat ==
  ASSUME SurvivalInv, SessionTyped, [ChatNext]_<<vars, chatVars>>
  PROVE  SurvivalInv'
<1>1. CASE Next
  BY <1>1, SurvivalInvPreserved
<1>2. CASE UNCHANGED vars
  BY <1>2, SurvivalInvPreserved
<1>3. ASSUME NEW f \in Files, FollowHint(f) PROVE SurvivalInv'
  <2>1. UNCHANGED <<pending, archive, run, clerk, crashes>>
    BY <1>3 DEF FollowHint
  <2>2. memory' \in Seq(Runs \union {Notes})
    BY <1>3 DEF FollowHint, SurvivalInv, TypeOK, SessionTyped, Entries
  <2>3. TypeOK'
    BY <2>1, <2>2 DEF SurvivalInv, TypeOK
  <2>4. QED
    BY <2>1, <2>3 DEF SurvivalInv, Owned, UnderOwnId
<1>4. QED
  BY <1>1, <1>2, <1>3, ChatStep

(* The types of the store and of the session beside it.                    *)
THEOREM ChatTyped == ChatSpec => []ChatTypeOK
<1>1. ChatInit => SurvivalInv /\ SessionTyped
  BY SurvivalInvInitially, ChatTypeOKInitially DEF ChatInit
<1>2. SurvivalInv /\ SessionTyped /\ [ChatNext]_<<vars, chatVars>> =>
        (SurvivalInv /\ SessionTyped)'
  BY SurvivalInvPreservedByChat, SessionTypedPreserved DEF SurvivalInv
<1>3. SurvivalInv /\ SessionTyped => ChatTypeOK
  BY DEF SurvivalInv, SessionTyped, ChatTypeOK
<1>4. QED
  BY <1>1, <1>2, <1>3, PTL DEF ChatSpec

(* Sessions, and the hints that the operator follows, cost no suggestion   *)
(* either.                                                                 *)
THEOREM SuggestionsSurviveChat == ChatSpec => []SuggestionsSurvive
<1>1. ChatInit => SurvivalInv /\ SessionTyped
  BY SurvivalInvInitially, ChatTypeOKInitially DEF ChatInit
<1>2. SurvivalInv /\ SessionTyped /\ [ChatNext]_<<vars, chatVars>> =>
        (SurvivalInv /\ SessionTyped)'
  BY SurvivalInvPreservedByChat, SessionTypedPreserved DEF SurvivalInv
<1>3. QED
  BY <1>1, <1>2, SurvivalInvSurvives, PTL DEF ChatSpec
----------------------------------------------------------------------------
(* A file the report may come to name was clean at the first status: what  *)
(* it had then is committed, and has been since.                           *)
Reportable(f) ==
  f \in chat.report \/ (chat.at \in {"open", "exited"} /\ f \notin chat.pre)

CleanAtStart ==
  base # Absent =>
    /\ Reportable("memory") => IsPrefix(base.log, head)
    /\ Reportable("code") => base.work = {}

LEMMA CleanAtStartPreserved ==
  ASSUME TypeOK, SessionTyped, CleanAtStart, [ChatNext]_<<vars, chatVars>>
  PROVE  CleanAtStart'
<1>1. CASE ComposeContext
  BY <1>1 DEF ComposeContext, SessionTyped, CleanAtStart
<1>2. CASE FirstStatus
  <2>1. PICK paths \in DirtyPaths :
          /\ chat' = [chat EXCEPT !.at = "open", !.pre = paths]
          /\ base' = IF paths # Dirty \/ Rewriting # {} THEN Absent
                     ELSE [log |-> memory, work |-> work]
    BY <1>2 DEF FirstStatus
  <2> SUFFICES ASSUME base' # Absent
               PROVE  /\ Reportable("memory")' => IsPrefix(base'.log, head')
                      /\ Reportable("code")' => base'.work = {}
    BY DEF CleanAtStart
  <2>2. paths = Dirty /\ base' = [log |-> memory, work |-> work] /\ head' = head
    BY <1>2, <2>1 DEF FirstStatus
  <2>3. chat.at = "composed" /\ chat'.pre = Dirty /\ chat'.report = {}
    BY <1>2, <2>1, <2>2 DEF FirstStatus, SessionTyped, ChatStates
  <2>4. "memory" \notin Dirty => memory = head
    BY DEF Dirty, Files
  <2>5. "code" \notin Dirty => work = {}
    BY DEF Dirty, Files
  <2>6. IsPrefix(memory, memory)
    BY PrefixTrivially DEF TypeOK
  <2>7. QED
    BY <2>2, <2>3, <2>4, <2>5, <2>6 DEF Reportable
<1>3. CASE LastStatus
  <2>1. PICK paths \in DirtyPaths :
          /\ chat' = [NoChat EXCEPT !.at = "reported", !.report = NewDirty(chat.pre, paths)]
          /\ base' = IF paths # Dirty THEN Absent ELSE base
    BY <1>3 DEF LastStatus
  <2>2. /\ chat'.at = "reported" /\ chat'.report = paths \ chat.pre /\ head' = head
        /\ chat.at = "exited"
    BY <1>3, <2>1 DEF LastStatus, NoChat, NewDirty
  <2>3. base' = Absent \/ base' = base
    BY <2>1
  <2>4. \A f : Reportable(f)' => Reportable(f)
    BY <2>2 DEF Reportable
  <2>5. QED
    BY <2>2, <2>3, <2>4 DEF CleanAtStart
<1>4. CASE EndChat
  BY <1>4 DEF EndChat, CleanAtStart
<1>5. CASE OperatorCommit
  <2>1. CASE base' = Absent
    BY <2>1 DEF CleanAtStart
  <2>2. CASE base' # Absent
    <3>1. base # Absent /\ base' = [base EXCEPT !.work = {}]
      BY <1>5, <2>2 DEF OperatorCommit, IsPrefix
    <3>2. IsPrefix(base.log, memory)
      BY <1>5, <2>2 DEF OperatorCommit, IsPrefix
    <3>3. base'.work = {} /\ base'.log = base.log
      BY <3>1 DEF SessionTyped
    <3>4. head' = memory
      BY <1>5 DEF OperatorCommit
    <3>5. QED
      BY <3>2, <3>3, <3>4 DEF CleanAtStart
  <2>3. QED
    BY <2>1, <2>2
<1>6. CASE UNCHANGED <<head, chat, base>>
  BY <1>6 DEF CleanAtStart, Reportable
<1>7. CASE CursorEdit \/ OperatorEdit
  BY <1>6, <1>7 DEF CursorEdit, OperatorEdit
<1>8. CASE CursorExits
  <2>1. chat' = [chat EXCEPT !.at = "exited", !.context = <<>>]
    BY <1>8 DEF CursorExits
  <2>2. chat'.pre = chat.pre /\ chat'.report = chat.report /\ chat.at = "open"
    BY <1>8, <2>1 DEF CursorExits, SessionTyped, ChatStates
  <2>3. \A f : Reportable(f)' => Reportable(f)
    BY <2>2 DEF Reportable
  <2>4. UNCHANGED <<head, base>>
    BY <1>8 DEF CursorExits
  <2>5. QED
    BY <2>3, <2>4 DEF CleanAtStart
<1>9. ASSUME NEW f \in Files, FollowHint(f) PROVE CleanAtStart'
  BY <1>6, <1>9 DEF FollowHint
<1>10. CASE UNCHANGED chatVars
  BY <1>6, <1>10 DEF chatVars
<1>11. QED
  BY <1>1, <1>2, <1>3, <1>4, <1>5, <1>7, <1>8, <1>9, <1>10 DEF ChatNext, Session

(* Whatever is accepted, committed or edited, and whichever process is     *)
(* killed while a session lasts: to follow its hints undoes nothing that   *)
(* was there when it began.                                                *)
THEOREM HintsAreSafe == ChatSpec => HintsKeepEarlierWork
<1>1. ChatInit => SurvivalInv /\ SessionTyped /\ CleanAtStart
  <2>1. ChatInit => CleanAtStart
    BY DEF ChatInit, CleanAtStart
  <2>2. QED
    BY <2>1, SurvivalInvInitially, ChatTypeOKInitially DEF ChatInit
<1>2. SurvivalInv /\ SessionTyped /\ CleanAtStart /\ [ChatNext]_<<vars, chatVars>> =>
        (SurvivalInv /\ SessionTyped /\ CleanAtStart)'
  BY SurvivalInvPreservedByChat, SessionTypedPreserved, CleanAtStartPreserved DEF SurvivalInv
<1>3. ASSUME SessionTyped, CleanAtStart
      PROVE  \A f \in Files : FollowHint(f) /\ base # Absent =>
               /\ IsPrefix(base.log, memory) => IsPrefix(base.log, memory')
               /\ base.work \intersect work \subseteq work'
  <2> SUFFICES ASSUME NEW f \in Files, FollowHint(f), base # Absent
               PROVE  /\ IsPrefix(base.log, memory) => IsPrefix(base.log, memory')
                      /\ base.work \intersect work \subseteq work'
    OBVIOUS
  <2>1. f = "memory" => memory' = head /\ IsPrefix(base.log, head)
    BY <1>3 DEF FollowHint, CleanAtStart, Reportable
  <2>2. f # "memory" => memory' = memory
    BY DEF FollowHint
  <2>3. f = "code" => base.work = {}
    BY <1>3 DEF FollowHint, CleanAtStart, Reportable
  <2>4. f # "code" => work' = work
    BY DEF FollowHint
  <2>5. QED
    BY <2>1, <2>2, <2>3, <2>4
<1>4. QED
  BY <1>1, <1>2, <1>3, PTL DEF ChatSpec, HintsKeepEarlierWork
----------------------------------------------------------------------------
(* What AcceptedLog promises ends with the first kill, or with the first   *)
(* hint that is followed for the memory file.                              *)
Intact == crashes = 0 /\ ~reverted

ChatLogInv ==
  /\ SurvivalInv /\ SessionTyped
  /\ Intact => LogInv /\ IsPrefix(chat.context, LogOf)

LEMMA ChatLogInvInitially ==
  ASSUME ChatInit
  PROVE  ChatLogInv /\ Intact /\ ToSet(LogOf) \intersect Runs = {} /\ Reported = {}
<1>1. Init /\ SurvivalInv /\ SessionTyped
  BY SurvivalInvInitially, ChatTypeOKInitially DEF ChatInit
<1>2. LogInv /\ ToSet(LogOf) \intersect Runs = {}
  BY <1>1, LogInvInitially
<1>3. chat.context = <<>>
  BY DEF ChatInit, NoChat
<1>4. LogOf \in Seq(Runs \union {Notes})
  BY <1>1, LogOfTyped DEF SurvivalInv
<1>5. IsPrefix(chat.context, LogOf)
  BY <1>3, <1>4, PrefixTrivially
<1>6. Intact
  BY <1>1 DEF ChatInit, Init, Intact
<1>7. Reported = {}
  BY <1>1 DEF Init, Reported
<1>8. QED
  BY <1>1, <1>2, <1>5, <1>6, <1>7 DEF ChatLogInv

(* What was lost stays lost.                                               *)
LEMMA IntactBefore ==
  ASSUME SurvivalInv, SessionTyped, [ChatNext]_<<vars, chatVars>>, Intact'
  PROVE  Intact /\ crashes' = crashes /\ reverted' = reverted
<1>1. CASE Next /\ UNCHANGED chatVars
  <2>1. reverted' = reverted
    BY <1>1 DEF chatVars
  <2>2. crashes' = crashes
    BY <1>1, CrashesOnlyGrow DEF Intact, SurvivalInv
  <2>3. QED
    BY <2>1, <2>2 DEF Intact
<1>2. CASE Session \/ UNCHANGED chatVars
  <2>1. reverted' = reverted
    BY <1>2 DEF Session, ComposeContext, FirstStatus, CursorEdit, CursorExits, LastStatus,
                EndChat, OperatorEdit, OperatorCommit, chatVars
  <2>2. CASE UNCHANGED vars
    BY <2>1, <2>2 DEF vars, Intact
  <2>3. CASE Next /\ UNCHANGED chatVars
    BY <1>1, <2>3
  <2>4. CASE \E f \in Files : FollowHint(f)
    BY <2>1, <2>4 DEF FollowHint, Intact
  <2>5. QED
    BY <2>2, <2>3, <2>4 DEF ChatNext
<1>3. ASSUME NEW f \in Files, FollowHint(f)
      PROVE  Intact /\ crashes' = crashes /\ reverted' = reverted
  <2>1. crashes' = crashes /\ reverted' = (reverted \/ f = "memory")
    BY <1>3 DEF FollowHint
  <2>2. QED
    BY <2>1 DEF Intact, SessionTyped
<1>4. CASE UNCHANGED <<vars, chatVars>>
  BY <1>4 DEF vars, chatVars, Intact
<1>5. QED
  BY <1>1, <1>2, <1>3, <1>4 DEF ChatNext

(* The session and the hints that keep the log leave the store's part of   *)
(* the invariant and the log as they are.                                  *)
LEMMA SessionStepKeepsLog ==
  ASSUME UNCHANGED <<pending, run, clerk, memory>>
  PROVE  LogOf' = LogOf /\ (LogInv => LogInv')
<1>1. LogOf' = LogOf
  BY DEF LogOf, Rewriting
<1>2. QED
  BY <1>1 DEF LogInv

LEMMA IntactStep ==
  ASSUME ChatLogInv, [ChatNext]_<<vars, chatVars>>, Intact'
  PROVE  Next \/ UNCHANGED <<pending, run, clerk, memory>>
<1>1. reverted' = reverted
  BY IntactBefore DEF ChatLogInv
<1>2. ASSUME NEW f \in Files, FollowHint(f) PROVE UNCHANGED <<pending, run, clerk, memory>>
  BY <1>2 DEF FollowHint, Intact
<1>3. QED
  BY <1>2 DEF ChatNext, vars

(* The context of a session is composed from the file as it is, which is   *)
(* the log, or nothing while an accept rewrites it.                        *)
LEMMA ContextStep ==
  ASSUME OneAtATime, ChatLogInv, [ChatNext]_<<vars, chatVars>>, Intact'
  PROVE  IsPrefix(chat'.context, LogOf')
<1>1. Intact /\ crashes' = crashes
  BY IntactBefore DEF ChatLogInv
<1>2. LogInv /\ IsPrefix(chat.context, LogOf) /\ TypeOK /\ SessionTyped
  BY <1>1 DEF ChatLogInv, SurvivalInv
<1>3. LogOf \in Seq(Runs \union {Notes}) /\ chat.context \in Seq(Runs \union {Notes})
  BY <1>2, LogOfTyped DEF SessionTyped, ChatStates, Entries
<1>4. ASSUME Next, chat' = chat PROVE IsPrefix(chat'.context, LogOf')
  <2>1. \/ LogOf' = LogOf
        \/ \E r \in Runs : LogOf' = Append(LogOf, r)
    BY <1>1, <1>2, <1>4, LogStep DEF ChatLogInv
  <2>2. ASSUME NEW r \in Runs, LogOf' = Append(LogOf, r)
        PROVE  IsPrefix(chat.context, LogOf')
    BY <1>2, <1>3, <2>2, PrefixOfAppend
  <2>3. QED
    BY <1>2, <1>4, <2>1, <2>2
<1>5. ASSUME LogOf' = LogOf, chat'.context \in {<<>>, chat.context}
      PROVE  IsPrefix(chat'.context, LogOf')
  BY <1>2, <1>3, <1>5, PrefixTrivially
<1>6. CASE ComposeContext /\ UNCHANGED vars
  <2>1. chat'.context = <<>> \/ chat'.context = memory
    BY <1>6 DEF ComposeContext, NoChat
  <2>2. memory = <<>> \/ memory = LogOf
    <3>1. CASE \E c \in Clerks : clerk[c].at = "truncated"
      BY <1>2, <3>1 DEF LogInv
    <3>2. CASE \A c \in Clerks : clerk[c].at # "truncated"
      BY <3>2 DEF LogOf, Rewriting
    <3>3. QED
      BY <3>1, <3>2
  <2>3. LogOf' = LogOf
    BY <1>6, SessionStepKeepsLog DEF vars
  <2>4. QED
    BY <1>3, <2>1, <2>2, <2>3, PrefixTrivially
<1>7. CASE Session /\ ~ComposeContext /\ UNCHANGED vars
  <2>1. chat'.context \in {<<>>, chat.context}
    <3>1. CASE FirstStatus \/ CursorExits
      BY <1>2, <3>1 DEF FirstStatus, CursorExits, SessionTyped, ChatStates
    <3>2. CASE LastStatus
      <4>1. PICK report \in {NewDirty(chat.pre, paths) : paths \in DirtyPaths} :
              chat' = [NoChat EXCEPT !.at = "reported", !.report = report]
        BY <3>2 DEF LastStatus
      <4>2. chat'.context = NoChat.context
        BY <4>1, NoChatTyped DEF ChatStates
      <4>3. QED
        BY <4>2 DEF NoChat
    <3>3. CASE EndChat
      BY <3>3 DEF EndChat, NoChat
    <3>4. CASE CursorEdit \/ OperatorEdit \/ OperatorCommit
      BY <3>4 DEF CursorEdit, OperatorEdit, OperatorCommit
    <3>5. QED
      BY <1>7, <3>1, <3>2, <3>3, <3>4 DEF Session
  <2>2. LogOf' = LogOf
    BY <1>7, SessionStepKeepsLog DEF vars
  <2>3. QED
    BY <1>5, <2>1, <2>2
<1>8. CASE UNCHANGED <<pending, run, clerk, memory, chat>>
  BY <1>5, <1>8, SessionStepKeepsLog
<1>9. ASSUME NEW f \in Files, FollowHint(f) PROVE IsPrefix(chat'.context, LogOf')
  BY <1>8, <1>9 DEF FollowHint, Intact
<1>10. QED
  BY <1>4, <1>6, <1>7, <1>8, <1>9 DEF ChatNext, chatVars, vars

LEMMA ChatLogInvPreserved ==
  ASSUME OneAtATime, ChatLogInv, [ChatNext]_<<vars, chatVars>>
  PROVE  ChatLogInv'
<1>1. SurvivalInv' /\ SessionTyped'
  BY SurvivalInvPreservedByChat, SessionTypedPreserved DEF ChatLogInv, SurvivalInv
<1>2. ASSUME Intact' PROVE LogInv' /\ IsPrefix(chat'.context, LogOf')
  <2>1. Intact /\ crashes' = crashes
    BY <1>2, IntactBefore DEF ChatLogInv
  <2>2. LogInv
    BY <2>1 DEF ChatLogInv
  <2>3. LogInv'
    BY <1>2, <2>1, <2>2, IntactStep, SessionStepKeepsLog, LogStep DEF ChatLogInv
  <2>4. QED
    BY <1>2, <2>3, ContextStep
<1>3. QED
  BY <1>1, <1>2 DEF ChatLogInv

(* One accept at a time: what Cursor was given as the project's memory     *)
(* stays a beginning of the log, until a kill or a hint changes the file   *)
(* otherwise, for any number of runs and of suggestions.                   *)
THEOREM ContextIsTrue ==
  ASSUME OneAtATime
  PROVE  ChatSpec => []ContextStaysTrue
<1>1. ChatInit => ChatLogInv
  BY ChatLogInvInitially
<1>2. ChatLogInv /\ [ChatNext]_<<vars, chatVars>> => ChatLogInv'
  BY ChatLogInvPreserved
<1>3. ChatLogInv => ContextStaysTrue
  BY DEF ChatLogInv, Intact, ContextStaysTrue
<1>4. QED
  BY <1>1, <1>2, <1>3, PTL DEF ChatSpec
----------------------------------------------------------------------------
(* Every step of the store, the sessions and the operator is a step of the *)
(* log that is only appended to, or none.                                  *)
LEMMA StepIsLogStep ==
  ASSUME OneAtATime, ChatLogInv, [ChatNext]_<<vars, chatVars>>
  PROVE  [AcceptLog!LogNext]_(AcceptLog!logVars)
<1>1. CASE ~Intact'
  BY <1>1 DEF AcceptLog!LogNext, AcceptLog!Break, Intact
<1>2. CASE Intact'
  <2>1. Intact /\ crashes' = crashes
    BY <1>2, IntactBefore DEF ChatLogInv
  <2>2. LogInv /\ TypeOK
    BY <2>1 DEF ChatLogInv, SurvivalInv
  <2>3. CASE LogOf' = LogOf /\ Reported' = Reported
    BY <1>2, <2>1, <2>3 DEF AcceptLog!logVars, Intact, Reported
  <2>4. ASSUME LogOf' = LogOf, NEW r \in Runs \ Reported, Reported' = Reported \union {r}
        PROVE  AcceptLog!LogNext
    <3>1. AcceptLog!Offer
      BY <1>2, <2>1, <2>4 DEF AcceptLog!Offer, Intact, Reported
    <3>2. QED
      BY <2>1, <3>1 DEF AcceptLog!LogNext, Intact
  <2>5. ASSUME NEW r \in Runs, run[r].at = "reported", r \notin ToSet(LogOf),
               LogOf' = Append(LogOf, r), run' = run
        PROVE  AcceptLog!LogNext
    <3>1. AcceptLog!AppendEntry
      BY <1>2, <2>1, <2>5 DEF AcceptLog!AppendEntry, AcceptLog!ToSet, ToSet, Intact, Reported
    <3>2. QED
      BY <2>1, <3>1 DEF AcceptLog!LogNext, Intact
  <2>6. CASE Next
    <3>1. \/ LogOf' = LogOf
          \/ \E r \in Runs : /\ run[r].at = "reported" /\ r \notin ToSet(LogOf)
                             /\ LogOf' = Append(LogOf, r) /\ run' = run
      BY <2>1, <2>2, <2>6, LogStep DEF ChatLogInv
    <3>2. \/ Reported' = Reported
          \/ LogOf' = LogOf /\ \E r \in Runs \ Reported : Reported' = Reported \union {r}
      BY <2>2, <2>6, OfferStep
    <3>3. QED
      BY <2>3, <2>4, <2>5, <3>1, <3>2
  <2>7. CASE UNCHANGED <<pending, run, clerk, memory>>
    BY <2>3, <2>7, SessionStepKeepsLog DEF Reported
  <2>8. QED
    BY <1>2, <2>6, <2>7, IntactStep
<1>3. QED
  BY <1>1, <1>2

(* One accept at a time, the files and processes implement AcceptedLog:    *)
(* every suggestion a finished run offered is appended at most once, and   *)
(* nothing else changes the log before the first kill or followed hint.    *)
THEOREM StoreImplementsLog ==
  ASSUME OneAtATime
  PROVE  ChatSpec => ImplementsLog
<1>1. ChatInit => ChatLogInv /\ AcceptLog!LogInit
  <2> SUFFICES ASSUME ChatInit PROVE ChatLogInv /\ AcceptLog!LogInit
    OBVIOUS
  <2>1. ChatLogInv /\ Intact /\ ToSet(LogOf) \intersect Runs = {} /\ Reported = {}
    BY ChatLogInvInitially
  <2>2. QED
    BY <2>1 DEF AcceptLog!LogInit, AcceptLog!ToSet, ToSet, Intact, Reported
<1>2. ChatLogInv /\ [ChatNext]_<<vars, chatVars>> => ChatLogInv'
  BY ChatLogInvPreserved
<1>3. ChatLogInv /\ [ChatNext]_<<vars, chatVars>> => [AcceptLog!LogNext]_(AcceptLog!logVars)
  BY StepIsLogStep
<1>4. QED
  BY <1>1, <1>2, <1>3, PTL DEF ChatSpec, ImplementsLog, AcceptLog!LogSpec
=============================================================================
