------------------------- MODULE ConfigLayersProofs -------------------------
(***************************************************************************)
(* Proofs about ConfigLayers.                                              *)
(***************************************************************************)
EXTENDS ConfigLayers, TLAPS

(* NoOpinion is a layer, so that a torn config file is a legal one.        *)
LEMMA NoOpinionIsALayer == NoOpinion \in Layers
  BY DEF NoOpinion, Layers, Keys

LEMMA TypeStep == TypeOK /\ [Next]_vars => TypeOK'
<1> SUFFICES ASSUME TypeOK, [Next]_vars PROVE TypeOK'
  OBVIOUS
<1> USE LayerConstants DEF TypeOK, Contents, Idle, fileVars
<1>1. CASE StartInit
  BY <1>1 DEF StartInit
<1>2. CASE BackUpConfig
  BY <1>2 DEF BackUpConfig
<1>3. CASE WriteConfig
  BY <1>3, MarkersApart, NoOpinionIsALayer DEF WriteConfig
<1>4. CASE EnsureGitignoreEntry
  BY <1>4 DEF EnsureGitignoreEntry
<1>5. CASE KillInit
  BY <1>5 DEF KillInit
<1>6. CASE EditProject
  BY <1>6 DEF EditProject
<1>7. CASE EditLocal
  BY <1>7 DEF EditLocal
<1>8. CASE EditWorkflow
  BY <1>8 DEF EditWorkflow
<1>9. CASE UNCHANGED vars
  BY <1>9 DEF vars
<1> QED
  BY <1>1, <1>2, <1>3, <1>4, <1>5, <1>6, <1>7, <1>8, <1>9 DEF Next

LEMMA TypeInitially == Init => TypeOK
  BY LayerConstants DEF Init, TypeOK, Contents, Idle, NoOpinion

(* The configuration files hold what their writers can put there, and      *)
(* ensure_gitignore_entry adds its line once, however often init runs.     *)
THEOREM ConfigTypeCorrect == Spec => []TypeOK
<1> QED
  BY TypeInitially, TypeStep, PTL DEF Spec
----------------------------------------------------------------------------
(* The order of the layers. *)

(* What a config file contributes is what it says, or nothing.             *)
LEMMA CleanedLayers ==
  ASSUME TypeOK
  PROVE  /\ Cleaned(local) = (IF local \in Layers THEN local ELSE NoOpinion)
         /\ Cleaned(project) = (IF project \in Layers THEN project ELSE NoOpinion)
         /\ Cleaned(local) \in Layers /\ Cleaned(project) \in Layers
<1>1. local \in Layers \/ local \in {Absent, Malformed, Leaked}
  BY LayerConstants DEF TypeOK
<1>2. project \in Layers \/ project \in {Absent, Malformed, Leaked}
  BY LayerConstants, NoOpinionIsALayer DEF TypeOK, Contents
<1> QED
  BY <1>1, <1>2, MarkersApart, NoOpinionIsALayer DEF Cleaned

(* Laying records with the schema's keys over one another, key by key.     *)
LEMMA BackFilledKeys ==
  ASSUME NEW flags, NEW k \in Keys
  PROVE  BackFilled(flags)[k] =
           IF flags[k] # Unset THEN flags[k]
           ELSE IF Cleaned(local)[k] # Unset THEN Cleaned(local)[k]
           ELSE IF Cleaned(project)[k] # Unset THEN Cleaned(project)[k]
           ELSE BuiltIn[k]
  BY DEF BackFilled, Over, ProjectConfig

(* For every key, a run's value is that of the first layer that sets it.   *)
LEMMA FirstLayer == TypeOK => FirstLayerWins
<1> SUFFICES ASSUME TypeOK, NEW flags \in Flags, NEW k \in Keys
             PROVE  \E n \in 1..5 :
                      /\ Stack(flags)[n][k] # Unset \/ n = 5
                      /\ \A m \in 1..n - 1 : Stack(flags)[m][k] = Unset
                      /\ Values(flags)[k] = Stack(flags)[n][k]
  BY DEF FirstLayerWins
<1> DEFINE w == workflows[WorkflowName(flags)]
           w2 == [NoOpinion EXCEPT !.max_loops = IF w \in {Absent, Malformed} THEN Unset ELSE w]
<1>1. /\ Stack(flags)[1] = flags
      /\ Stack(flags)[2] = w2
      /\ Stack(flags)[3] = Cleaned(local)
      /\ Stack(flags)[4] = Cleaned(project)
      /\ Stack(flags)[5] = BuiltIn
  BY CleanedLayers DEF Stack
<1>2. w2[k] = IF k = "max_loops" /\ w \notin {Absent, Malformed} THEN w ELSE Unset
  BY DEF NoOpinion, Keys
<1>3. w \in {Absent, Malformed} \/ w # Unset
  <2>1. WorkflowName(flags) \in Names \union {Default}
    <3>1. flags \in Layers
      BY LayerConstants
    <3>2. BackFilled(flags).workflow \in Names \union {Unset}
      BY <3>1, BackFilledKeys, CleanedLayers DEF Keys, Layers, BuiltIn
    <3> QED
      BY <3>2 DEF WorkflowName
  <2> QED
    BY <2>1, MarkersApart DEF TypeOK
<1>4. Values(flags)[k] =
        IF k = "max_loops" /\ flags[k] = Unset /\ w \notin {Absent, Malformed} THEN w
        ELSE BackFilled(flags)[k]
  BY DEF Values, BackFilled, Over, Keys
<1>5. CASE flags[k] # Unset
  <2>1. Values(flags)[k] = flags[k]
    BY <1>4, <1>5, BackFilledKeys
  <2> QED
    BY <1>1, <1>5, <2>1
<1>6. CASE flags[k] = Unset /\ w2[k] # Unset
  <2>1. Values(flags)[k] = w2[k]
    BY <1>2, <1>4, <1>6
  <2> QED
    BY <1>1, <1>6, <2>1
<1>7. CASE flags[k] = Unset /\ w2[k] = Unset
  <2>1. Values(flags)[k] =
          IF Cleaned(local)[k] # Unset THEN Cleaned(local)[k]
          ELSE IF Cleaned(project)[k] # Unset THEN Cleaned(project)[k]
          ELSE BuiltIn[k]
    BY <1>2, <1>3, <1>4, <1>7, BackFilledKeys
  <2>2. CASE Cleaned(local)[k] # Unset
    BY <1>1, <1>7, <2>1, <2>2
  <2>3. CASE Cleaned(local)[k] = Unset /\ Cleaned(project)[k] # Unset
    BY <1>1, <1>7, <2>1, <2>3
  <2>4. CASE Cleaned(local)[k] = Unset /\ Cleaned(project)[k] = Unset
    BY <1>1, <1>7, <2>1, <2>4
  <2> QED
    BY <2>2, <2>3, <2>4
<1> QED
  BY <1>5, <1>6, <1>7

(* Precedence, as section 4.3 of the configuration contract orders it, for *)
(* all flags, in every state init, kills and editors leave the files in.   *)
THEOREM PrecedenceHolds == Spec => []FirstLayerWins
<1> QED
  BY ConfigTypeCorrect, FirstLayer, PTL
----------------------------------------------------------------------------
(* Edits. *)

(* apply that no flag asked for comes from one of the two files, and then  *)
(* has a source.                                                           *)
LEMMA AskedOrAnnounced == TypeOK => ApplyIsAskedOrAnnounced
<1> SUFFICES ASSUME TypeOK, NEW flags \in Flags, Values(flags).apply, flags.apply # TRUE
             PROVE  WarnsOfApply(flags)
  BY DEF ApplyIsAskedOrAnnounced
<1> USE DEF Keys
<1>1. flags.apply \in BOOLEAN \union {Unset}
  BY LayerConstants DEF Layers
<1>2. BackFilled(flags)["apply"] = Values(flags).apply
  BY DEF Values, BackFilled, Over
<1>3. flags["apply"] = Unset
  BY <1>1, <1>2, BackFilledKeys
<1>4. Cleaned(local)["apply"] # Unset \/ Cleaned(project)["apply"] # Unset
  BY <1>2, <1>3, BackFilledKeys DEF BuiltIn
<1>5. SourceOf("apply") \in {"P", "L"}
  BY <1>4 DEF SourceOf
<1> QED
  BY <1>2, <1>3, <1>5 DEF WarnsOfApply

(* No run lets a worker edit files on the word of a config file without    *)
(* saying so, whatever is in the files.                                    *)
THEOREM EditsAreAnnounced == Spec => []ApplyIsAskedOrAnnounced
<1> QED
  BY ConfigTypeCorrect, AskedOrAnnounced, PTL
----------------------------------------------------------------------------
(* The wizard. *)

(* Between the rename and the write there is no config.yaml, and nobody is *)
(* owed a file that is not there.                                          *)
InitInv ==
  /\ TypeOK
  /\ InitLosesNoConfig
  /\ Absent \notin owed
  /\ wizard.at = "writing" => project = Absent /\ wizard.answers \in Answers

LEMMA InitInvInitially == Init => InitInv
  BY TypeInitially DEF Init, InitInv, InitLosesNoConfig, Idle

LEMMA InitInvStep == InitInv /\ [Next]_vars => InitInv'
<1> SUFFICES ASSUME InitInv, [Next]_vars PROVE InitInv'
  OBVIOUS
<1>0. TypeOK'
  BY TypeStep DEF InitInv
<1> USE <1>0 DEF InitInv, InitLosesNoConfig, Idle, fileVars
<1>1. CASE StartInit
  <2>1. wizard'.at = "asking"
    BY <1>1 DEF StartInit
  <2> QED
    BY <1>1, <2>1 DEF StartInit
<1>2. CASE BackUpConfig
  <2> PICK a \in Answers :
             /\ wizard' = [at |-> "writing", answers |-> a]
             /\ backups' = backups \union ({project} \ {Absent})
             /\ project' = Absent
             /\ owed' = owed
    BY <1>2 DEF BackUpConfig
  <2>1. owed' \subseteq backups' \union {project'}
    OBVIOUS
  <2> QED
    BY <2>1
<1>3. CASE WriteConfig
  <2>1. wizard'.at = "ignoring"
    BY <1>3 DEF WriteConfig, TypeOK
  <2>2. wizard.answers # Absent
    BY <1>3, LayerConstants, MarkersApart DEF WriteConfig
  <2> QED
    BY <1>3, <2>1, <2>2 DEF WriteConfig
<1>4. CASE EnsureGitignoreEntry
  BY <1>4 DEF EnsureGitignoreEntry
<1>5. CASE KillInit
  BY <1>5 DEF KillInit
<1>6. CASE EditProject
  BY <1>6 DEF EditProject
<1>7. CASE EditLocal
  BY <1>7 DEF EditLocal
<1>8. CASE EditWorkflow
  BY <1>8 DEF EditWorkflow
<1>9. CASE UNCHANGED vars
  BY <1>9 DEF vars
<1> QED
  BY <1>1, <1>2, <1>3, <1>4, <1>5, <1>6, <1>7, <1>8, <1>9 DEF Next

(* What someone wrote into config.yaml stays in place or in a backup,      *)
(* whenever the wizard is started, answered or killed.                     *)
THEOREM InitKeepsConfigs == Spec => []InitLosesNoConfig
<1>1. Spec => []InitInv
  BY InitInvInitially, InitInvStep, PTL DEF Spec
<1>2. InitInv => InitLosesNoConfig
  BY DEF InitInv
<1> QED
  BY <1>1, <1>2, PTL
=============================================================================
