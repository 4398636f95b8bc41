---------------------------- MODULE ConfigLayers ----------------------------
(***************************************************************************)
(* The layers a flag of `ai-cockpit run` gets its value from -- the command *)
(* line, a workflow file, config.local.yaml, config.yaml, the built-in     *)
(* default -- and the `init` wizard, which replaces config.yaml while the  *)
(* operator, or a git pull, may be writing the same files.                 *)
(*                                                                         *)
(* A run only reads these files and does so at its start; its outcome is   *)
(* an operator of the state, so that an invariant can ask about every run  *)
(* that could be started now.  Four keys of the schema stand for the ten:  *)
(* "mode" goes the way of max_loops, the others that of worker.            *)
(***************************************************************************)
EXTENDS Naturals, FiniteSets

CONSTANTS
  Names,       \* workflow names a config or --workflow may give
  Default,     \* idea-to-mvp, the workflow used when no layer names one
  Loops,       \* values of max_loops
  Unset,       \* a layer's having no opinion on a key
  Absent,      \* no such file
  Malformed,   \* not YAML, a rejected or unknown key, a value out of range
  Leaked,      \* holds a credential
  Texts,       \* what operators write into either config file
  Answers,     \* what the wizard may be answered
  Flags,       \* what may be given on a run's command line
  MaxBackups   \* bound: backup files in .ai-cockpit

Keys == {"worker", "apply", "workflow", "max_loops"}

Layers ==
  [worker : {"stub", "aider", "cursor", Unset}, apply : BOOLEAN \union {Unset},
   workflow : Names \union {Unset}, max_loops : Loops \union {Unset}]

ASSUME LayerConstants ==
  /\ Loops \subseteq Nat /\ 1 \in Loops
  /\ Default \notin Names
  /\ Texts \union Flags \subseteq Layers
  /\ Answers \subseteq {a \in Layers : \A k \in Keys : a[k] # Unset}
  /\ MaxBackups \in Nat

(* The markers are no values. *)
ASSUME MarkersApart ==
  /\ Unset \notin Names /\ Unset \notin Loops /\ Unset \notin BOOLEAN
  /\ Unset \notin {"stub", "aider", "cursor"}
  /\ \A f \in {Absent, Malformed, Leaked} : f \notin Layers /\ f \notin Loops
  /\ Absent # Malformed /\ Absent # Leaked

VARIABLES
  project,    \* .ai-cockpit/config.yaml
  local,      \* .ai-cockpit/config.local.yaml
  workflows,  \* .ai-cockpit/workflows/<name>.yaml, for every name
  backups,    \* the contents of the files config.yaml.bak.*
  entries,    \* lines of .gitignore that name config.local.yaml
  wizard,     \* `init`: where it is, and what it was answered
  owed        \* history: configs someone wrote and did not replace himself

vars == <<project, local, workflows, backups, entries, wizard, owed>>
fileVars == <<local, workflows>>
----------------------------------------------------------------------------
(* What a run makes of the files. *)

NoOpinion == [k \in Keys |-> Unset]

BuiltIn == [worker |-> "stub", apply |-> FALSE, workflow |-> Unset, max_loops |-> 1]

Over(upper, lower) == [k \in Keys |-> IF upper[k] # Unset THEN upper[k] ELSE lower[k]]

(* A file that does not validate counts as one that says nothing.          *)
Cleaned(f) == IF f \in {Absent, Malformed, Leaked} THEN NoOpinion ELSE f

ProjectConfig == Over(Cleaned(local), Cleaned(project))

SourceOf(k) ==
  CASE Cleaned(local)[k] # Unset -> "L"
    [] Cleaned(local)[k] = Unset /\ Cleaned(project)[k] # Unset -> "P"
    [] OTHER -> "none"

(* _apply_project_config_defaults: parameters whose source is DEFAULT.     *)
BackFilled(flags) == Over(flags, Over(ProjectConfig, BuiltIn))

(* The file a run takes its workflow from.  A missing one is no error when *)
(* nobody named it.                                                        *)
WorkflowName(flags) ==
  IF BackFilled(flags).workflow = Unset THEN Default ELSE BackFilled(flags).workflow

Refused(flags) ==
  \/ Leaked \in {project, local}
  \/ BackFilled(flags).apply /\ BackFilled(flags).worker = "stub"
  \/ workflows[WorkflowName(flags)] = Malformed
  \/ BackFilled(flags).workflow # Unset /\ workflows[WorkflowName(flags)] = Absent

(* Fault: a workflow's max_loops taken over an explicit --max-loops.       *)
WorkflowOverFlags(flags) ==
  IF workflows[WorkflowName(flags)] \in {Absent, Malformed} THEN BackFilled(flags)
  ELSE [BackFilled(flags) EXCEPT !.max_loops = workflows[WorkflowName(flags)]]

(* _apply_workflow_defaults: under explicit flags, over what was back-     *)
(* filled from the config files.                                           *)
Values(flags) ==
  IF flags.max_loops # Unset \/ workflows[WorkflowName(flags)] \in {Absent, Malformed}
    THEN BackFilled(flags)
    ELSE [BackFilled(flags) EXCEPT !.max_loops = workflows[WorkflowName(flags)]]

(* Fault: the warning looks at the committed file only.                    *)
WarnsOfProjectOnly(flags) ==
  BackFilled(flags).apply /\ flags.apply = Unset /\ SourceOf("apply") = "P"

(* emit_apply_warning_if_needed, with source "C" for an explicit flag.     *)
WarnsOfApply(flags) ==
  BackFilled(flags).apply /\ flags.apply = Unset /\ SourceOf("apply") \in {"P", "L"}

(* The keys and values `status` lists.                                     *)
Status == {<<k, ProjectConfig[k]>> : k \in {j \in Keys : ProjectConfig[j] # Unset}}
----------------------------------------------------------------------------
(* The init wizard. *)

Contents == Texts \union Answers \union {Absent, Malformed, Leaked, NoOpinion}

Idle == [at |-> "idle", answers |-> NoOpinion]

StartInit ==
  \E force \in BOOLEAN :
    /\ wizard = Idle
    /\ project # Absent => force
    /\ wizard' = [wizard EXCEPT !.at = "asking"]
    /\ UNCHANGED <<project, backups, entries, owed>> /\ UNCHANGED fileVars

(* Fault: one backup, without the time in its name.                        *)
OneBackup ==
  \E a \in Answers :
    /\ wizard.at = "asking"
    /\ wizard' = [at |-> "writing", answers |-> a]
    /\ backups' = IF project = Absent THEN backups ELSE {project}
    /\ Cardinality(backups') <= MaxBackups
    /\ project' = Absent
    /\ UNCHANGED <<entries, owed>> /\ UNCHANGED fileVars

(* Once all questions are answered a config that is there by now is        *)
(* renamed, whatever was there at the start.                               *)
BackUpConfig ==
  \E a \in Answers :
    /\ wizard.at = "asking"
    /\ wizard' = [at |-> "writing", answers |-> a]
    /\ backups' = backups \union ({project} \ {Absent})
    /\ Cardinality(backups') <= MaxBackups
    /\ project' = Absent
    /\ UNCHANGED <<entries, owed>> /\ UNCHANGED fileVars

WriteConfig ==
  /\ wizard.at = "writing"
  /\ project' = wizard.answers
  /\ owed' = owed \union {wizard.answers}
  /\ wizard' = [wizard EXCEPT !.at = "ignoring"]
  /\ UNCHANGED <<backups, entries>> /\ UNCHANGED fileVars

(* Fault: the entry appended without looking for it.                       *)
AppendAlways ==
  /\ wizard.at = "ignoring"
  /\ entries' = entries + 1
  /\ wizard' = Idle
  /\ UNCHANGED <<project, backups, owed>> /\ UNCHANGED fileVars

EnsureGitignoreEntry ==
  /\ wizard.at = "ignoring"
  /\ entries' = IF entries = 0 THEN 1 ELSE entries
  /\ wizard' = Idle
  /\ UNCHANGED <<project, backups, owed>> /\ UNCHANGED fileVars

(* Ctrl-C at a question, or a kill.  One inside the write leaves an empty  *)
(* file, or a piece of one that does not validate.                         *)
KillInit ==
  /\ wizard.at # "idle"
  /\ wizard' = Idle
  /\ project' \in IF wizard.at = "writing" THEN {Absent, NoOpinion, Malformed} ELSE {project}
  /\ UNCHANGED <<backups, entries, owed>> /\ UNCHANGED fileVars
----------------------------------------------------------------------------
(* Editors, checkouts and pulls.  None hits the instant between init's     *)
(* rename and its write.                                                   *)

EditProject ==
  \E text \in Texts \union {Absent, Malformed, Leaked} :
    /\ wizard.at # "writing"
    /\ project' = text
    /\ owed' = (owed \ {project}) \union ({text} \ {Absent})
    /\ UNCHANGED <<backups, entries, wizard>> /\ UNCHANGED fileVars

EditLocal ==
  /\ local' \in Texts \union {Absent, Malformed, Leaked}
  /\ UNCHANGED <<project, workflows, backups, entries, wizard, owed>>

EditWorkflow ==
  \E name \in Names \union {Default}, text \in Loops \union {Absent, Malformed} :
    /\ workflows' = [workflows EXCEPT ![name] = text]
    /\ UNCHANGED <<project, local, backups, entries, wizard, owed>>

Init ==
  /\ project = Absent /\ local = Absent
  /\ workflows = [name \in Names \union {Default} |-> Absent]
  /\ backups = {} /\ entries = 0 /\ wizard = Idle /\ owed = {}

Next ==
  \/ StartInit \/ BackUpConfig \/ WriteConfig \/ EnsureGitignoreEntry \/ KillInit
  \/ EditProject \/ EditLocal \/ EditWorkflow

Spec == Init /\ [][Next]_vars
----------------------------------------------------------------------------
(* The files hold what their writers can put there, and .gitignore names   *)
(* config.local.yaml once, however often init runs (ensure_gitignore_entry).*)
TypeOK ==
  /\ project \in Contents
  /\ local \in Texts \union {Absent, Malformed, Leaked}
  /\ workflows \in [Names \union {Default} -> Loops \union {Absent, Malformed}]
  /\ backups \subseteq Contents \ {Absent}
  /\ entries \in 0..1
  /\ wizard \in [at : {"idle", "asking", "writing", "ignoring"}, answers : Answers \union {NoOpinion}]
  /\ owed \subseteq Contents

(* The layers a run has, topmost first; a workflow file always sets        *)
(* max_loops, and nothing else of these keys.                              *)
Stack(flags) ==
  LET loops == workflows[WorkflowName(flags)]
  IN  <<flags,
        [NoOpinion EXCEPT
           !.max_loops = IF loops \in {Absent, Malformed} THEN Unset ELSE loops],
        IF local \in Layers THEN local ELSE NoOpinion,
        IF project \in Layers THEN project ELSE NoOpinion,
        BuiltIn>>

(* The precedence of Q3 and section 4.3 of the configuration contract: the *)
(* first layer that sets a key wins, whatever is in the files, torn and    *)
(* malformed ones included, and whichever flags a run is given.            *)
FirstLayerWins ==
  \A flags \in Flags : ~Refused(flags) =>
    LET stack  == Stack(flags)
        values == Values(flags)
    IN  \A k \in Keys : \E n \in 1..5 :
          /\ stack[n][k] # Unset \/ n = 5
          /\ \A m \in 1..n - 1 : stack[m][k] = Unset
          /\ values[k] = stack[n][k]

(* A run that will let a worker edit files was told to on its command line *)
(* or says on stderr that a config file did (emit_apply_warning_if_needed, *)
(* Q6), also while init or an editor is changing that file.                *)
ApplyIsAskedOrAnnounced ==
  \A flags \in Flags :
    ~Refused(flags) /\ Values(flags).apply /\ Values(flags).worker # "stub" =>
      flags.apply = TRUE \/ WarnsOfApply(flags)

(* init loses no config: whatever someone wrote into config.yaml, before   *)
(* the wizard was started or while it was asking, is in place or in a      *)
(* backup, also after a kill (cli.py init_cmd, the rename before the write).*)
InitLosesNoConfig == owed \subseteq backups \union {project}

(* Section 5.3 of the configuration contract has `status` report the       *)
(* effective values with their source, "W" for a workflow file among them: *)
(* what it lists is what a run without flags would use.                    *)
StatusShowsEffective ==
  ~Refused(NoOpinion) => \A s \in Status : s[2] = Values(NoOpinion)[s[1]]
=============================================================================
