--------------------------- MODULE PlanRunsProofs ---------------------------
(***************************************************************************)
(* Proofs about PlanSchema and PlanRuns, for every set of plan ids, slices *)
(* and plan texts.                                                         *)
(***************************************************************************)
EXTENDS PlanRuns, SequenceTheorems, FiniteSetTheorems, TLAPS

(* The loader is the stricter of the two checks: a file that loads would   *)
(* have passed the planner's check too, without a cap.                     *)
THEOREM LoaderIsStricter ==
  ASSUME NEW d, Loads(d)
  PROVE  DraftValid(d, NoCap)
<1>1. d.plan \in PlanIds /\ d.slices # <<>> /\ WellOrdered(d)
  BY DEF Loads
<1>2. d.criteria > 0
  BY DEF Loads
<1>3. \A i \in DOMAIN d.slices : d.slices[i].guarded
  BY DEF Loads
<1>4. QED
  BY <1>1, <1>2, <1>3 DEF DraftValid

(* In a plan that loads, the first slice without a marker depends on       *)
(* slices with one.                                                        *)
LEMMA NextUndoneIsReady ==
  ASSUME NEW d, Loads(d), NEW done, NEW i, IsNextUndone(d, done, i)
  PROVE  DependenciesMet(done, d.slices[i].deps)
<1>1. i \in DOMAIN d.slices /\ IdsBefore(d, i) \subseteq done
  BY DEF IsNextUndone
<1>2. d.slices[i].deps \subseteq IdsBefore(d, i)
  BY <1>1 DEF Loads, WellOrdered
<1>3. QED
  BY <1>1, <1>2 DEF DependenciesMet
----------------------------------------------------------------------------
(* What the two commands need of the files: under its default path, a plan *)
(* that loads has the name of its plan id, and so has a temporary file.    *)
FilesTyped ==
  /\ repl \in [Planners -> Sessions]
  /\ \A k \in Planners : repl[k].at \in {"emptied", "filled"} =>
       repl[k].name \in PlanIds /\ repl[k].draft # Absent
  /\ file \in [PlanIds -> Contents \union {Absent, Torn}]
  /\ temp \in [PlanIds -> Contents \union {Absent, Torn}]

FilesOwnTheirNames ==
  OwnNames =>
    /\ \A name \in PlanIds : Readable(file[name]) => file[name].plan = name
    /\ \A name \in PlanIds : Readable(temp[name]) => temp[name].plan = name
    /\ \A k \in Planners : repl[k].at \in {"emptied", "filled"} =>
         repl[k].draft.plan = repl[k].name

FilesInv == FilesTyped /\ FilesOwnTheirNames

(* A whole text is no empty file and no mixture.                           *)
LEMMA ContentsAreTexts ==
  /\ Contents \subseteq PlanTexts
  /\ Absent \notin Contents /\ Torn \notin Contents
<1>1. ASSUME NEW p \in PlanIds PROVE Fixture(p) \in PlanTexts
  <2>1. [id |-> FixtureSlice, deps |-> {}, guarded |-> TRUE, filled |-> TRUE] \in Slices
    BY RunsConstants DEF Slices
  <2>2. <<[id |-> FixtureSlice, deps |-> {}, guarded |-> TRUE, filled |-> TRUE]>> \in Seq(Slices)
    BY <2>1
  <2>3. QED
    BY <2>2 DEF Fixture, PlanTexts
<1>2. QED
  BY <1>1, RunsConstants DEF Contents

LEMMA NoSessionIsSession == NoSession \in Sessions
  BY RunsConstants DEF NoSession, Sessions

LEMMA FilesInvInitially == Init => FilesInv
<1> SUFFICES ASSUME Init PROVE FilesInv
  OBVIOUS
<1>1. FilesTyped
  BY NoSessionIsSession DEF Init, FilesTyped, NoSession
<1>2. FilesOwnTheirNames
  BY DEF Init, FilesOwnTheirNames, NoSession, Readable
<1>3. QED
  BY <1>1, <1>2 DEF FilesInv

(* The names hold for any step that leaves the files alone and keeps the   *)
(* sessions that save.                                                     *)
LEMMA SessionStepKeepsFiles ==
  ASSUME FilesInv, UNCHANGED <<file, temp>>, NEW k \in Planners, NEW s \in Sessions,
         s.at \notin {"emptied", "filled"}, repl' = [repl EXCEPT ![k] = s]
  PROVE  FilesInv'
<1>1. FilesTyped'
  BY DEF FilesInv, FilesTyped
<1>2. FilesOwnTheirNames'
  BY DEF FilesInv, FilesTyped, FilesOwnTheirNames, Readable
<1>3. QED
  BY <1>1, <1>2 DEF FilesInv

LEMMA FilesInvPreserved ==
  ASSUME FilesInv, [Next]_vars
  PROVE  FilesInv'
<1>1. FilesTyped /\ FilesOwnTheirNames
  BY DEF FilesInv
<1>2. Texts \subseteq Contents
  BY DEF Contents
<1>4. ASSUME NEW k \in Planners, StartPlanner(k) PROVE FilesInv'
  <2>1. PICK cap \in Caps, model \in Models :
          \E d \in IF model THEN Replies(cap) \union {Absent} ELSE {Fixture(p) : p \in PlanIds} :
            repl' = [repl EXCEPT ![k] =
              [NoSession EXCEPT !.at = "open", !.draft = d, !.cap = cap, !.model = model]]
    BY <1>4 DEF StartPlanner
  <2>2. PICK d \in IF model THEN Replies(cap) \union {Absent} ELSE {Fixture(p) : p \in PlanIds} :
          repl' = [repl EXCEPT ![k] =
            [NoSession EXCEPT !.at = "open", !.draft = d, !.cap = cap, !.model = model]]
    BY <2>1
  <2>3. d \in Contents \union {Absent}
    BY <1>2, <2>2 DEF Contents, Replies
  <2> DEFINE s == [NoSession EXCEPT !.at = "open", !.draft = d, !.cap = cap, !.model = model]
  <2>4. s \in Sessions /\ s.at = "open"
    BY <2>3, NoSessionIsSession, RunsConstants DEF Sessions, NoSession
  <2>5. UNCHANGED <<file, temp>>
    BY <1>4 DEF StartPlanner
  <2>6. repl' = [repl EXCEPT ![k] = s]
    BY <2>2
  <2> HIDE DEF s
  <2>7. QED
    BY <2>4, <2>5, <2>6, SessionStepKeepsFiles
<1>5. ASSUME NEW k \in Planners, AnswerFeedback(k) PROVE FilesInv'
  <2>1. PICK d \in Texts : repl' = [repl EXCEPT ![k].draft = d]
    BY <1>5 DEF AnswerFeedback, Replies
  <2> DEFINE s == [repl[k] EXCEPT !.draft = d]
  <2>2. s \in Sessions /\ s.at = "open"
    BY <1>1, <1>2, <1>5, <2>1 DEF FilesTyped, Sessions, AnswerFeedback
  <2>3. repl' = [repl EXCEPT ![k] = s]
    BY <2>1
  <2>4. UNCHANGED <<file, temp>>
    BY <1>5 DEF AnswerFeedback
  <2> HIDE DEF s
  <2>5. QED
    BY <2>2, <2>3, <2>4, SessionStepKeepsFiles
<1>6. ASSUME NEW k \in Planners, BeginSave(k) PROVE FilesInv'
  <2>1. PICK name \in PlanIds :
          /\ repl[k].draft # Absent
          /\ OwnNames => name = repl[k].draft.plan
          /\ temp' = [temp EXCEPT ![name] = Torn]
          /\ repl' = [repl EXCEPT ![k].at = "emptied", ![k].name = name, ![k].on = "temp"]
    BY <1>6 DEF BeginSave
  <2>2. UNCHANGED file
    BY <1>6 DEF BeginSave
  <2>3. FilesTyped'
    <3>1. [repl[k] EXCEPT !.at = "emptied", !.name = name, !.on = "temp"] \in Sessions
      BY <1>1 DEF FilesTyped, Sessions
    <3>2. repl' = [repl EXCEPT ![k] =
                     [repl[k] EXCEPT !.at = "emptied", !.name = name, !.on = "temp"]]
      BY <1>1, <2>1 DEF FilesTyped, Sessions
    <3>3. repl' \in [Planners -> Sessions]
      BY <1>1, <3>1, <3>2 DEF FilesTyped
    <3>4. QED
      BY <1>1, <2>1, <2>2, <3>3 DEF FilesTyped, Sessions
  <2>4. FilesOwnTheirNames'
    BY <1>1, <2>1, <2>2 DEF FilesTyped, FilesOwnTheirNames, Sessions, Readable
  <2>5. QED
    BY <2>3, <2>4 DEF FilesInv
<1>7. ASSUME NEW k \in Planners, FillTemp(k) PROVE FilesInv'
  <2> DEFINE name == repl[k].name
             d == repl[k].draft
  <2>1. name \in PlanIds /\ d \in Contents /\ (OwnNames => d.plan = name)
    BY <1>1, <1>7 DEF FilesTyped, FilesOwnTheirNames, FillTemp, Sessions
  <2>2. \A old : Written(old, d) \subseteq {d, Torn}
    BY DEF Written
  <2>3. temp' = temp \/ temp' = [temp EXCEPT ![name] = d] \/ temp' = [temp EXCEPT ![name] = Torn]
    BY <1>7, <2>2 DEF FillTemp
  <2>4. file' = file \/ file' = [file EXCEPT ![name] = d] \/ file' = [file EXCEPT ![name] = Torn]
    BY <1>7, <2>2 DEF FillTemp
  <2>5. repl' = [repl EXCEPT ![k].at = "filled"]
    BY <1>7 DEF FillTemp
  <2>6. repl[k].at = "emptied"
    BY <1>7 DEF FillTemp
  <2>7. FilesTyped'
    <3>1. repl' \in [Planners -> Sessions]
      BY <1>1, <2>5 DEF FilesTyped, Sessions
    <3>2. \A j \in Planners : repl'[j].at \in {"emptied", "filled"} =>
            repl'[j].name \in PlanIds /\ repl'[j].draft # Absent
      BY <1>1, <2>5, <2>6 DEF FilesTyped, Sessions
    <3>3. QED
      BY <1>1, <2>1, <2>3, <2>4, <3>1, <3>2 DEF FilesTyped
  <2>8. FilesOwnTheirNames'
    <3>1. \A j \in Planners : repl'[j].at \in {"emptied", "filled"} /\ OwnNames =>
            repl'[j].draft.plan = repl'[j].name
      BY <1>1, <2>5, <2>6 DEF FilesTyped, FilesOwnTheirNames, Sessions
    <3>2. OwnNames => \A n \in PlanIds : Readable(file'[n]) => file'[n].plan = n
      BY <1>1, <2>1, <2>4 DEF FilesTyped, FilesOwnTheirNames, Readable
    <3>3. OwnNames => \A n \in PlanIds : Readable(temp'[n]) => temp'[n].plan = n
      BY <1>1, <2>1, <2>3 DEF FilesTyped, FilesOwnTheirNames, Readable
    <3>4. QED
      BY <3>1, <3>2, <3>3 DEF FilesOwnTheirNames, Readable
  <2>9. QED
    BY <2>7, <2>8 DEF FilesInv
<1>8. ASSUME NEW k \in Planners, RenameTemp(k) PROVE FilesInv'
  <2> DEFINE name == repl[k].name
  <2>1. name \in PlanIds
    BY <1>1, <1>8 DEF FilesTyped, RenameTemp
  <2>2. CASE temp[name] = Absent
    BY <1>8, <2>2, NoSessionIsSession, SessionStepKeepsFiles DEF RenameTemp, NoSession
  <2>3. CASE temp[name] # Absent
    <3>1. /\ file' = [file EXCEPT ![name] = temp[name]]
          /\ temp' = [temp EXCEPT ![name] = Absent]
          /\ repl' = [j \in Planners |->
               IF j = k THEN NoSession
               ELSE IF j \in SavingToo(k, name)
                    THEN [repl[j] EXCEPT !.on = HandleAfterRename(@)]
                    ELSE repl[j]]
      BY <1>8, <2>3 DEF RenameTemp
    <3>2. \A j \in Planners :
            /\ repl'[j] \in Sessions
            /\ repl'[j].at \in {"emptied", "filled"} =>
                 /\ repl[j].at \in {"emptied", "filled"}
                 /\ repl'[j].name = repl[j].name /\ repl'[j].draft = repl[j].draft
      BY <1>1, <3>1, NoSessionIsSession DEF FilesTyped, Sessions, NoSession, HandleAfterRename
    <3>3. repl' \in [Planners -> Sessions]
      BY <3>1, <3>2
    <3>4. FilesTyped'
      BY <1>1, <2>1, <3>1, <3>2, <3>3 DEF FilesTyped
    <3>5. FilesOwnTheirNames'
      BY <1>1, <2>1, <3>1, <3>2 DEF FilesTyped, FilesOwnTheirNames, Readable
    <3>6. QED
      BY <3>4, <3>5 DEF FilesInv
  <2>4. QED
    BY <2>2, <2>3
<1>9. ASSUME NEW k \in Planners, AbandonPlanner(k) \/ KillSave(k) PROVE FilesInv'
  <2>1. repl' = [repl EXCEPT ![k] = NoSession] /\ UNCHANGED <<file, temp>>
    BY <1>9 DEF AbandonPlanner, KillSave
  <2>2. NoSession.at = "closed"
    BY DEF NoSession
  <2>3. QED
    BY <2>1, <2>2, NoSessionIsSession, SessionStepKeepsFiles
<1>10. CASE HandEdit
  <2>1. PICK name \in PlanIds, d \in Texts :
          /\ OwnNames => d.plan \in {name, BadId}
          /\ file' = [file EXCEPT ![name] = d]
    BY <1>10 DEF HandEdit
  <2>2. UNCHANGED <<repl, temp>>
    BY <1>10 DEF HandEdit
  <2>3. FilesTyped'
    BY <1>1, <1>2, <2>1, <2>2 DEF FilesTyped
  <2>4. OwnNames /\ Loads(d) => d.plan = name
    BY PlanConstants, <2>1 DEF Loads
  <2>5. FilesOwnTheirNames'
    BY <1>1, <2>1, <2>2, <2>4 DEF FilesTyped, FilesOwnTheirNames, Readable
  <2>6. QED
    BY <2>3, <2>5 DEF FilesInv
<1>11. CASE UNCHANGED <<repl, file, temp>>
  BY <1>1, <1>11 DEF FilesInv, FilesTyped, FilesOwnTheirNames, Readable
<1>12. CASE \/ \E r \in Runners : PlansRun(r) \/ WorkerEdits(r) \/ RunEnds(r)
            \/ OrphanEdits \/ OrphanExits
  BY <1>11, <1>12 DEF PlansRun, WorkerEdits, RunEnds, OrphanEdits, OrphanExits, EditFor, planVars
<1>13. CASE Commit \/ Revert
  BY <1>11, <1>13 DEF Commit, Revert
<1>14. CASE UNCHANGED vars
  BY <1>11, <1>14 DEF vars
<1>15. QED
  BY <1>4, <1>5, <1>6, <1>7, <1>8, <1>9, <1>10, <1>12, <1>13, <1>14 DEF Next

(* Whatever happens to the files and to git log, and in whatever order the *)
(* markers came: where plans are saved under their own names, the slice    *)
(* that `plans list` calls next passes the dependency check of `plans run`.*)
THEOREM ListedNextRuns ==
  ASSUME OwnNames = TRUE
  PROVE  Spec => []ListedNextIsRunnable
<1>1. Init => FilesInv
  BY FilesInvInitially
<1>2. FilesInv /\ [Next]_vars => FilesInv'
  BY FilesInvPreserved
<1>3. FilesInv => ListedNextIsRunnable
  <2> SUFFICES ASSUME FilesInv, NEW name \in PlanIds,
                      Readable(file[name]),
                      NEW i \in DOMAIN file[name].slices,
                      IsNextUndone(file[name], Markers(file[name].plan), i)
               PROVE  DependenciesMet(Markers(name), file[name].slices[i].deps)
    BY DEF ListedNextIsRunnable
  <2>1. file[name].plan = name
    BY DEF FilesInv, FilesOwnTheirNames
  <2>2. Loads(file[name])
    BY DEF Readable
  <2>3. QED
    BY <2>1, <2>2, NextUndoneIsReady
<1>4. QED
  BY <1>1, <1>2, <1>3, PTL DEF Spec
----------------------------------------------------------------------------
(* While no two sessions save one plan at the same time, a session that    *)
(* saves writes into the temporary file and finds there what it wrote.     *)
Saves(k, name) == repl[k].at \in {"emptied", "filled"} /\ repl[k].name = name

SavesApart ==
  ~collided =>
    /\ \A name \in PlanIds : file[name] # Torn
    /\ \A k \in Planners : repl[k].at = "emptied" =>
         repl[k].on = "temp" /\ temp[repl[k].name] = Torn
    /\ \A k \in Planners : repl[k].at = "filled" => temp[repl[k].name] # Torn
    /\ \A k, j \in Planners, name \in PlanIds : Saves(k, name) /\ Saves(j, name) => k = j

LEMMA SavesApartInitially == Init => SavesApart
  BY RunsConstants DEF Init, SavesApart, NoSession, Saves

(* Sessions at the prompt have no part in it.                              *)
LEMMA SessionStepKeepsApart ==
  ASSUME FilesTyped, SavesApart, UNCHANGED <<file, temp, collided>>, NEW k \in Planners,
         NEW s \in Sessions, s.at \notin {"emptied", "filled"},
         repl' = [repl EXCEPT ![k] = s]
  PROVE  SavesApart'
<1>1. \A j \in Planners : repl'[j].at \in {"emptied", "filled"} => repl'[j] = repl[j]
  BY DEF FilesTyped
<1>2. QED
  BY <1>1 DEF SavesApart, Saves

LEMMA SavesApartPreserved ==
  ASSUME FilesInv, SavesApart, [Next]_vars
  PROVE  SavesApart'
<1>1. FilesTyped
  BY DEF FilesInv
<1>2. Torn \notin Contents /\ Texts \subseteq Contents /\ Torn # Absent
  BY ContentsAreTexts, RunsConstants DEF Contents
<1>3. ASSUME NEW k \in Planners, StartPlanner(k) PROVE SavesApart'
  <2>1. /\ UNCHANGED <<file, temp, collided>>
        /\ \E s \in Sessions : s.at = "open" /\ repl' = [repl EXCEPT ![k] = s]
    <3>1. PICK cap \in Caps, model \in BOOLEAN,
               d \in (Texts \union {Absent}) \union {Fixture(p) : p \in PlanIds} :
            repl' = [repl EXCEPT ![k] =
              [NoSession EXCEPT !.at = "open", !.draft = d, !.cap = cap, !.model = model]]
      BY <1>3, RunsConstants DEF StartPlanner, Replies
    <3> DEFINE s == [NoSession EXCEPT !.at = "open", !.draft = d, !.cap = cap, !.model = model]
    <3>2. s \in Sessions /\ s.at = "open"
      BY <3>1, NoSessionIsSession DEF Sessions, NoSession, Contents
    <3>3. UNCHANGED <<file, temp, collided>>
      BY <1>3 DEF StartPlanner
    <3>4. QED
      BY <3>1, <3>2, <3>3
  <2>2. QED
    BY <1>1, <2>1, SessionStepKeepsApart
<1>4. ASSUME NEW k \in Planners, AnswerFeedback(k) PROVE SavesApart'
  <2>1. PICK d \in Texts : repl' = [repl EXCEPT ![k].draft = d]
    BY <1>4 DEF AnswerFeedback, Replies
  <2> DEFINE s == [repl[k] EXCEPT !.draft = d]
  <2>2. s \in Sessions /\ s.at = "open"
    BY <1>1, <1>2, <1>4, <2>1 DEF FilesTyped, Sessions, AnswerFeedback
  <2>3. repl' = [repl EXCEPT ![k] = s] /\ UNCHANGED <<file, temp, collided>>
    BY <1>4, <2>1 DEF AnswerFeedback
  <2> HIDE DEF s
  <2>4. QED
    BY <1>1, <2>2, <2>3, SessionStepKeepsApart
<1>5. ASSUME NEW k \in Planners, BeginSave(k) PROVE SavesApart'
  <2> SUFFICES ASSUME ~collided' PROVE SavesApart'
    BY DEF SavesApart
  <2>1. PICK name \in PlanIds :
          /\ temp' = [temp EXCEPT ![name] = Torn]
          /\ repl' = [repl EXCEPT ![k].at = "emptied", ![k].name = name, ![k].on = "temp"]
          /\ collided' = (collided \/ SavingToo(k, name) # {})
          /\ repl[k].at = "open" /\ file' = file
    BY <1>5 DEF BeginSave
  <2>2. ~collided /\ SavingToo(k, name) = {}
    BY <2>1
  <2>3. \A j \in Planners \ {k} : ~Saves(j, name) /\ repl'[j] = repl[j]
    BY <1>1, <2>1, <2>2 DEF SavingToo, Saves, FilesTyped
  <2>4. /\ repl'[k].at = "emptied" /\ repl'[k].name = name /\ repl'[k].on = "temp"
        /\ temp'[name] = Torn
    BY <1>1, <2>1 DEF FilesTyped, Sessions
  <2>5. \A j \in Planners \ {k} : repl[j].at \in {"emptied", "filled"} =>
          temp'[repl[j].name] = temp[repl[j].name]
    BY <1>1, <2>1, <2>3 DEF Saves, FilesTyped
  <2>6. \A j \in Planners : repl'[j].at = "emptied" =>
          repl'[j].on = "temp" /\ temp'[repl'[j].name] = Torn
    BY <2>2, <2>3, <2>4, <2>5 DEF SavesApart
  <2>7. \A j \in Planners : repl'[j].at = "filled" => temp'[repl'[j].name] # Torn
    BY <2>2, <2>3, <2>4, <2>5 DEF SavesApart
  <2>8. \A i, j \in Planners, n \in PlanIds : Saves(i, n)' /\ Saves(j, n)' => i = j
    <3> SUFFICES ASSUME NEW i \in Planners, NEW j \in Planners, NEW n \in PlanIds,
                        Saves(i, n)', Saves(j, n)', i # j
                 PROVE  FALSE
      OBVIOUS
    <3>1. i # k /\ j # k => Saves(i, n) /\ Saves(j, n)
      BY <2>3 DEF Saves
    <3>2. CASE i = k
      BY <2>3, <2>4, <3>2 DEF Saves
    <3>3. CASE j = k
      BY <2>3, <2>4, <3>3 DEF Saves
    <3>4. QED
      BY <2>2, <3>1, <3>2, <3>3 DEF SavesApart
  <2>9. QED
    BY <2>1, <2>2, <2>6, <2>7, <2>8 DEF SavesApart
<1>6. ASSUME NEW k \in Planners, FillTemp(k) PROVE SavesApart'
  <2> SUFFICES ASSUME ~collided PROVE SavesApart'
    BY <1>6 DEF SavesApart, FillTemp
  <2> DEFINE name == repl[k].name
             d == repl[k].draft
  <2>1. repl[k].at = "emptied" /\ repl[k].on = "temp" /\ temp[name] = Torn
    BY <1>6 DEF FillTemp, SavesApart
  <2>2. name \in PlanIds /\ d \in Contents
    BY <1>1, <2>1 DEF FilesTyped, Sessions
  <2>3. Written(temp[name], d) = {d}
    BY <2>1 DEF Written
  <2>4. temp' = [temp EXCEPT ![name] = d] /\ file' = file
    BY <1>6, <2>1, <2>3 DEF FillTemp
  <2>5. repl' = [repl EXCEPT ![k].at = "filled"] /\ collided' = collided
    BY <1>6 DEF FillTemp
  <2>6. \A j \in Planners \ {k} :
          repl'[j] = repl[j] /\ (repl[j].at \in {"emptied", "filled"} => repl[j].name # name)
    BY <1>1, <2>1, <2>2, <2>5 DEF SavesApart, Saves, FilesTyped
  <2>7. repl'[k].at = "filled" /\ repl'[k].name = name /\ temp'[name] = d
    BY <1>1, <2>2, <2>4, <2>5 DEF FilesTyped, Sessions
  <2>8. \A j \in Planners \ {k} : repl[j].at \in {"emptied", "filled"} =>
          temp'[repl[j].name] = temp[repl[j].name]
    BY <1>1, <2>4, <2>6 DEF FilesTyped
  <2>9. QED
    BY <1>2, <2>1, <2>2, <2>4, <2>5, <2>6, <2>7, <2>8 DEF SavesApart, Saves
<1>7. ASSUME NEW k \in Planners, RenameTemp(k) PROVE SavesApart'
  <2> SUFFICES ASSUME ~collided PROVE SavesApart'
    BY <1>7 DEF SavesApart, RenameTemp
  <2> DEFINE name == repl[k].name
  <2>1. repl[k].at = "filled" /\ name \in PlanIds /\ temp[name] # Torn /\ collided' = collided
    BY <1>1, <1>7 DEF FilesTyped, RenameTemp, SavesApart
  <2>2. NoSession.at = "closed"
    BY DEF NoSession
  <2>3. CASE temp[name] = Absent
    BY <1>1, <1>7, <2>1, <2>2, <2>3, NoSessionIsSession, SessionStepKeepsApart DEF RenameTemp
  <2>4. CASE temp[name] # Absent
    <3>1. /\ file' = [file EXCEPT ![name] = temp[name]]
          /\ temp' = [temp EXCEPT ![name] = Absent]
          /\ repl' = [j \in Planners |->
               IF j = k THEN NoSession
               ELSE IF j \in SavingToo(k, name)
                    THEN [repl[j] EXCEPT !.on = HandleAfterRename(@)]
                    ELSE repl[j]]
      BY <1>7, <2>4 DEF RenameTemp
    <3>2. SavingToo(k, name) = {}
      BY <2>1 DEF SavingToo, SavesApart, Saves
    <3>3. \A j \in Planners \ {k} : repl'[j] = repl[j]
      BY <3>1, <3>2
    <3>4. repl'[k].at = "closed"
      BY <2>2, <3>1
    <3>5. \A j \in Planners \ {k} : repl[j].at \in {"emptied", "filled"} =>
            temp'[repl[j].name] = temp[repl[j].name]
      BY <1>1, <2>1, <3>1, <3>2 DEF SavingToo, FilesTyped
    <3>6. \A n \in PlanIds : file'[n] # Torn
      BY <1>1, <2>1, <3>1 DEF FilesTyped, SavesApart
    <3>7. QED
      BY <2>1, <3>3, <3>4, <3>5, <3>6 DEF SavesApart, Saves
  <2>5. QED
    BY <2>3, <2>4
<1>8. ASSUME NEW k \in Planners, AbandonPlanner(k) \/ KillSave(k) PROVE SavesApart'
  <2>1. repl' = [repl EXCEPT ![k] = NoSession] /\ UNCHANGED <<file, temp, collided>>
    BY <1>8 DEF AbandonPlanner, KillSave
  <2>2. NoSession.at = "closed"
    BY DEF NoSession
  <2>3. QED
    BY <1>1, <2>1, <2>2, NoSessionIsSession, SessionStepKeepsApart
<1>9. CASE HandEdit
  <2>1. PICK name \in PlanIds, d \in Texts : file' = [file EXCEPT ![name] = d]
    BY <1>9 DEF HandEdit
  <2>2. UNCHANGED <<repl, temp, collided>>
    BY <1>9 DEF HandEdit
  <2>3. QED
    BY <1>1, <1>2, <2>1, <2>2 DEF SavesApart, Saves, FilesTyped
<1>10. CASE UNCHANGED <<repl, file, temp, collided>>
  BY <1>10 DEF SavesApart, Saves
<1>11. CASE \/ \E r \in Runners : PlansRun(r) \/ WorkerEdits(r) \/ RunEnds(r)
            \/ OrphanEdits \/ OrphanExits
  BY <1>10, <1>11 DEF PlansRun, WorkerEdits, RunEnds, OrphanEdits, OrphanExits, EditFor, planVars
<1>12. CASE Commit \/ Revert
  BY <1>10, <1>12 DEF Commit, Revert
<1>13. CASE UNCHANGED vars
  BY <1>10, <1>13 DEF vars
<1>14. QED
  BY <1>3, <1>4, <1>5, <1>6, <1>7, <1>8, <1>9, <1>11, <1>12, <1>13 DEF Next

(* Whoever saves what under which name, and whatever kill hits a save: a   *)
(* plan file is torn only if two sessions once saved one plan at the same  *)
(* time.                                                                   *)
THEOREM PlanFilesStayWhole == Spec => []PlanFilesWhole
<1>1. Init => FilesInv /\ SavesApart
  BY FilesInvInitially, SavesApartInitially
<1>2. FilesInv /\ SavesApart /\ [Next]_vars => (FilesInv /\ SavesApart)'
  BY FilesInvPreserved, SavesApartPreserved
<1>3. SavesApart => PlanFilesWhole
  BY DEF SavesApart, PlanFilesWhole
<1>4. QED
  BY <1>1, <1>2, <1>3, PTL DEF Spec
----------------------------------------------------------------------------
(* A draft is always one that the planner would save: so is the fixture,   *)
(* whatever the cap, and no reply becomes the draft before it is checked.  *)
DraftsValid ==
  \A k \in Planners : repl[k].draft # Absent => DraftValid(repl[k].draft, repl[k].cap)

LEMMA FixtureIsValid ==
  ASSUME NEW p \in PlanIds, NEW cap \in Caps
  PROVE  DraftValid(Fixture(p), cap)
<1> DEFINE s == [id |-> FixtureSlice, deps |-> {}, guarded |-> TRUE, filled |-> TRUE]
           d == Fixture(p)
<1>1. d.plan = p /\ d.criteria = 1 /\ d.slices = <<s>>
  BY DEF Fixture
<1>2. Len(<<s>>) = 1 /\ DOMAIN <<s>> = {1} /\ <<s>>[1] = s /\ <<s>> # <<>>
  OBVIOUS
<1>3. s.deps = {} /\ s.guarded = TRUE
  OBVIOUS
<1> HIDE DEF s, d
<1>4. cap # NoCap => Len(d.slices) <= cap
  BY <1>1, <1>2, RunsConstants, PlanConstants
<1>5. WellOrdered(d)
  BY <1>1, <1>2, <1>3 DEF WellOrdered, IdsBefore
<1>6. DraftValid(d, cap)
  BY <1>1, <1>2, <1>3, <1>4, <1>5 DEF DraftValid
<1>7. QED
  BY <1>6 DEF d

(* The drafts of the other sessions stay, and the one that moves on keeps  *)
(* its own or has a valid one.                                             *)
LEMMA SessionStepKeepsDrafts ==
  ASSUME FilesTyped, DraftsValid, NEW k \in Planners, NEW s \in Sessions,
         repl' = [repl EXCEPT ![k] = s],
         s.draft # Absent => DraftValid(s.draft, s.cap)
  PROVE  DraftsValid'
BY DEF FilesTyped, DraftsValid

LEMMA DraftsValidPreserved ==
  ASSUME FilesTyped, DraftsValid, [Next]_vars
  PROVE  DraftsValid'
<1>1. ASSUME NEW k \in Planners, StartPlanner(k) PROVE DraftsValid'
  <2>1. PICK cap \in Caps, model \in Models :
          \E d \in IF model THEN Replies(cap) \union {Absent} ELSE {Fixture(p) : p \in PlanIds} :
            repl' = [repl EXCEPT ![k] =
              [NoSession EXCEPT !.at = "open", !.draft = d, !.cap = cap, !.model = model]]
    BY <1>1 DEF StartPlanner
  <2>2. PICK d \in IF model THEN Replies(cap) \union {Absent} ELSE {Fixture(p) : p \in PlanIds} :
          repl' = [repl EXCEPT ![k] =
            [NoSession EXCEPT !.at = "open", !.draft = d, !.cap = cap, !.model = model]]
    BY <2>1
  <2>3. d \in Contents \union {Absent}
    BY <2>2 DEF Contents, Replies
  <2>4. d # Absent => DraftValid(d, cap)
    BY <2>2, FixtureIsValid DEF Replies
  <2> DEFINE s == [NoSession EXCEPT !.at = "open", !.draft = d, !.cap = cap, !.model = model]
  <2>5. s \in Sessions /\ s.draft = d /\ s.cap = cap
    BY <2>3, NoSessionIsSession, RunsConstants DEF Sessions, NoSession
  <2>6. repl' = [repl EXCEPT ![k] = s]
    BY <2>2
  <2> HIDE DEF s
  <2>7. QED
    BY <2>4, <2>5, <2>6, SessionStepKeepsDrafts
<1>2. ASSUME NEW k \in Planners, AnswerFeedback(k) PROVE DraftsValid'
  <2>1. PICK d \in Replies(repl[k].cap) : repl' = [repl EXCEPT ![k].draft = d]
    BY <1>2 DEF AnswerFeedback
  <2> DEFINE s == [repl[k] EXCEPT !.draft = d]
  <2>2. d \in Contents /\ DraftValid(d, repl[k].cap)
    BY <2>1 DEF Replies, Contents
  <2>3. s \in Sessions /\ s.draft = d /\ s.cap = repl[k].cap
    BY <2>2 DEF FilesTyped, Sessions
  <2>4. repl' = [repl EXCEPT ![k] = s]
    BY <2>1
  <2> HIDE DEF s
  <2>5. QED
    BY <2>2, <2>3, <2>4, SessionStepKeepsDrafts
<1>3. ASSUME \A j \in Planners :
               repl'[j].draft = Absent
               \/ (repl'[j].draft = repl[j].draft /\ repl'[j].cap = repl[j].cap)
      PROVE  DraftsValid'
  BY <1>3 DEF DraftsValid
<1>4. NoSession.draft = Absent
  BY DEF NoSession
<1>5. ASSUME NEW k \in Planners, BeginSave(k) PROVE DraftsValid'
  <2>1. PICK name \in PlanIds :
          repl' = [repl EXCEPT ![k].at = "emptied", ![k].name = name, ![k].on = "temp"]
    BY <1>5 DEF BeginSave
  <2>2. QED
    BY <1>3, <2>1 DEF FilesTyped, Sessions
<1>6. ASSUME NEW k \in Planners, FillTemp(k) PROVE DraftsValid'
  <2>1. repl' = [repl EXCEPT ![k].at = "filled"]
    BY <1>6 DEF FillTemp
  <2>2. QED
    BY <1>3, <2>1 DEF FilesTyped, Sessions
<1>7. ASSUME NEW k \in Planners, RenameTemp(k) PROVE DraftsValid'
  <2>1. CASE temp[repl[k].name] = Absent
    <3>1. repl' = [repl EXCEPT ![k] = NoSession]
      BY <1>7, <2>1 DEF RenameTemp
    <3>2. QED
      BY <1>3, <1>4, <3>1 DEF FilesTyped
  <2>2. CASE temp[repl[k].name] # Absent
    <3>1. repl' = [j \in Planners |->
               IF j = k THEN NoSession
               ELSE IF j \in SavingToo(k, repl[k].name)
                    THEN [repl[j] EXCEPT !.on = HandleAfterRename(@)]
                    ELSE repl[j]]
      BY <1>7, <2>2 DEF RenameTemp
    <3>2. QED
      BY <1>3, <1>4, <3>1 DEF FilesTyped, Sessions
  <2>3. QED
    BY <2>1, <2>2
<1>8. ASSUME NEW k \in Planners, AbandonPlanner(k) \/ KillSave(k) PROVE DraftsValid'
  <2>1. repl' = [repl EXCEPT ![k] = NoSession]
    BY <1>8 DEF AbandonPlanner, KillSave
  <2>2. QED
    BY <1>3, <1>4, <2>1 DEF FilesTyped
<1>9. CASE repl' = repl
  BY <1>9 DEF DraftsValid
<1>10. CASE HandEdit \/ Commit \/ Revert
  BY <1>9, <1>10 DEF HandEdit, Commit, Revert
<1>11. CASE \/ \E r \in Runners : PlansRun(r) \/ WorkerEdits(r) \/ RunEnds(r)
            \/ OrphanEdits \/ OrphanExits
  BY <1>9, <1>11 DEF PlansRun, WorkerEdits, RunEnds, OrphanEdits, OrphanExits, EditFor, planVars
<1>12. CASE UNCHANGED vars
  BY <1>9, <1>12 DEF vars
<1>13. QED
  BY <1>1, <1>2, <1>5, <1>6, <1>7, <1>8, <1>10, <1>11, <1>12 DEF Next

(* The flags, and what runs, is edited or committed: slices of plans that  *)
(* load.                                                                   *)
FlagsTyped == unsaved \in BOOLEAN /\ excused \in BOOLEAN /\ {amended, collided} \subseteq BOOLEAN

TreeTyped ==
  /\ run \in [Runners -> {NoRun} \union [active : {TRUE}, apply : BOOLEAN, work : Work]]
  /\ orphans \subseteq Work
  /\ edits \subseteq Work
  /\ log \in Seq(Commits)
  /\ \A r \in Runners : run[r].active => Loads(run[r].work.plan)
  /\ \A w \in orphans \union edits : Loads(w.plan)
  /\ \A n \in DOMAIN log : \A w \in log[n].work : Loads(w.plan)

(* A run that is active has work.                                          *)
LEMMA ActiveRun ==
  ASSUME TreeTyped, NEW r \in Runners, run[r].active
  PROVE  run[r] \in [active : {TRUE}, apply : BOOLEAN, work : Work]
<1> DEFINE Active == [active : {TRUE}, apply : BOOLEAN, work : Work]
<1>1. NoRun.active = FALSE
  BY DEF NoRun
<1>2. run[r] \in {NoRun} \union Active
  BY DEF TreeTyped
<1> HIDE DEF Active
<1>3. run[r] # NoRun
  BY <1>1
<1>4. run[r] \in Active
  BY <1>2, <1>3
<1>5. QED
  BY <1>4 DEF Active

(* What has a worker, and what has one after a run ends.                   *)
LEMMA AtWorkTyped ==
  ASSUME TreeTyped
  PROVE  AtWork \subseteq Work /\ \A w \in AtWork : Loads(w.plan)
  BY ActiveRun DEF TreeTyped, AtWork

LEMMA EditsAreOfWorkers ==
  ASSUME (\E r \in Runners : WorkerEdits(r)) \/ OrphanEdits
  PROVE  \E w \in AtWork : EditFor(w)
  BY DEF WorkerEdits, OrphanEdits, AtWork

LEMMA EndedRun ==
  ASSUME TreeTyped, NEW r \in Runners, RunEnds(r)
  PROVE  /\ run' = [run EXCEPT ![r] = NoRun] /\ UNCHANGED <<edits, log, excused>>
         /\ orphans' \subseteq AtWork /\ AtWork' \subseteq AtWork
<1>1. /\ run[r].active /\ run' = [run EXCEPT ![r] = NoRun]
      /\ UNCHANGED <<edits, log, excused>>
      /\ orphans' = orphans \/ (run[r].apply /\ orphans' = orphans \union {run[r].work})
  BY DEF RunEnds
<1>2. orphans' \subseteq AtWork
  BY <1>1 DEF AtWork
<1>3. ~run'[r].active /\ \A q \in Runners \ {r} : run'[q] = run[q]
  BY <1>1 DEF TreeTyped, NoRun
<1>4. \A q \in Runners : run'[q].active => run'[q] = run[q] /\ run[q].active
  BY <1>3
<1>5. QED
  BY <1>1, <1>2, <1>4 DEF AtWork

LEMMA FlagsTypedPreserved ==
  ASSUME FlagsTyped, [Next]_vars
  PROVE  FlagsTyped'
<1>1. ASSUME NEW k \in Planners,
             \/ StartPlanner(k) \/ AnswerFeedback(k) \/ BeginSave(k) \/ FillTemp(k)
             \/ RenameTemp(k) \/ AbandonPlanner(k) \/ KillSave(k)
      PROVE  FlagsTyped'
  BY <1>1 DEF FlagsTyped, StartPlanner, AnswerFeedback, BeginSave, FillTemp, RenameTemp,
              AbandonPlanner, KillSave, treeVars
<1>2. CASE HandEdit \/ Commit \/ Revert
  BY <1>2 DEF FlagsTyped, HandEdit, Commit, Revert, treeVars
<1>3. ASSUME NEW r \in Runners, PlansRun(r) PROVE FlagsTyped'
  <2>1. PICK allowDirty \in BOOLEAN, answered \in BOOLEAN :
          excused' = (excused \/ allowDirty \/ ~answered)
    BY <1>3 DEF PlansRun
  <2>2. UNCHANGED planVars
    BY <1>3 DEF PlansRun
  <2>3. QED
    BY <2>1, <2>2 DEF FlagsTyped, planVars
<1>4. ASSUME \/ \E r \in Runners : WorkerEdits(r) \/ RunEnds(r)
             \/ OrphanEdits \/ OrphanExits
      PROVE  FlagsTyped'
  <2>1. UNCHANGED planVars
    BY <1>4 DEF WorkerEdits, RunEnds, OrphanEdits, OrphanExits, EditFor
  <2>2. excused' = excused \/ \E w \in AtWork : excused' = (excused \/ AtWork \ {w} # {})
    BY <1>4, EditsAreOfWorkers DEF RunEnds, OrphanExits, EditFor
  <2>3. QED
    BY <2>1, <2>2 DEF FlagsTyped, planVars
<1>5. CASE UNCHANGED vars
  BY <1>5 DEF FlagsTyped, vars
<1>6. QED
  BY <1>1, <1>2, <1>3, <1>4, <1>5 DEF Next

(* What plans run starts, of a file that it read.                          *)
LEMMA StartedRun ==
  ASSUME FilesTyped, NEW r \in Runners, PlansRun(r)
  PROVE  \E name \in PlanIds, apply, allowDirty, answered \in BOOLEAN :
           LET d == file[name] IN
           /\ Readable(d) /\ d \in Contents
           /\ ~run[r].active
           /\ \E i \in DOMAIN d.slices :
                /\ DependenciesMet(Markers(name), d.slices[i].deps)
                /\ d.slices[i].id \in SliceIds
                /\ run' = [run EXCEPT ![r] =
                     [active |-> TRUE, apply |-> apply,
                      work |-> [plan |-> d, slice |-> d.slices[i].id]]]
           /\ Prechecked(apply, allowDirty, answered)
           /\ excused' = (excused \/ allowDirty \/ ~answered)
<1>1. PICK name \in PlanIds, apply \in BOOLEAN, allowDirty \in BOOLEAN, answered \in BOOLEAN :
        LET d == file[name] IN
        /\ ~run[r].active
        /\ Readable(d)
        /\ \E i \in DOMAIN d.slices :
             /\ DependenciesMet(Markers(name), d.slices[i].deps)
             /\ run' = [run EXCEPT ![r] =
                  [active |-> TRUE, apply |-> apply,
                   work |-> [plan |-> d, slice |-> d.slices[i].id]]]
        /\ Prechecked(apply, allowDirty, answered)
        /\ excused' = (excused \/ allowDirty \/ ~answered)
  BY DEF PlansRun
<1> DEFINE d == file[name]
<1>2. d \in Contents
  BY <1>1 DEF FilesTyped, Readable
<1>3. d \in PlanTexts
  BY <1>2, ContentsAreTexts
<1>4. \A i \in DOMAIN d.slices : d.slices[i].id \in SliceIds
  <2>1. d.slices \in Seq(Slices)
    BY <1>3 DEF PlanTexts
  <2>2. \A i \in DOMAIN d.slices : d.slices[i] \in Slices
    BY <2>1
  <2>3. QED
    BY <2>2 DEF Slices
<1> HIDE DEF d
<1>5. QED
  BY <1>1, <1>2, <1>4 DEF d

LEMMA TreeTypedPreserved ==
  ASSUME FilesTyped, FlagsTyped, TreeTyped, [Next]_vars
  PROVE  TreeTyped'
<1>1. CASE UNCHANGED treeVars
  BY <1>1 DEF treeVars, TreeTyped
<1>2. ASSUME NEW k \in Planners,
             \/ StartPlanner(k) \/ AnswerFeedback(k) \/ BeginSave(k) \/ FillTemp(k)
             \/ RenameTemp(k) \/ AbandonPlanner(k) \/ KillSave(k)
      PROVE  TreeTyped'
  BY <1>1, <1>2 DEF StartPlanner, AnswerFeedback, BeginSave, FillTemp, RenameTemp,
                    AbandonPlanner, KillSave
<1>3. CASE HandEdit
  BY <1>1, <1>3 DEF HandEdit
<1>4. ASSUME NEW r \in Runners, PlansRun(r) PROVE TreeTyped'
  <2>1. PICK name \in PlanIds, apply \in BOOLEAN :
          /\ Readable(file[name]) /\ file[name] \in Contents
          /\ \E i \in DOMAIN file[name].slices :
               /\ file[name].slices[i].id \in SliceIds
               /\ run' = [run EXCEPT ![r] =
                    [active |-> TRUE, apply |-> apply,
                     work |-> [plan |-> file[name], slice |-> file[name].slices[i].id]]]
    BY <1>4, StartedRun
  <2>2. PICK s \in SliceIds :
          run' = [run EXCEPT ![r] =
            [active |-> TRUE, apply |-> apply, work |-> [plan |-> file[name], slice |-> s]]]
    BY <2>1
  <2> DEFINE w == [plan |-> file[name], slice |-> s]
             x == [active |-> TRUE, apply |-> apply, work |-> w]
  <2>3. w \in Work /\ Loads(w.plan)
    BY <2>1, <2>2 DEF Work, Readable
  <2>4. x \in [active : {TRUE}, apply : BOOLEAN, work : Work] /\ x.work = w
    BY <2>3
  <2>5. run' = [run EXCEPT ![r] = x] /\ UNCHANGED <<orphans, edits, log>>
    BY <1>4, <2>2 DEF PlansRun
  <2> HIDE DEF w, x
  <2>6. /\ run' \in [Runners -> {NoRun} \union [active : {TRUE}, apply : BOOLEAN, work : Work]]
        /\ \A q \in Runners : run'[q].active => Loads(run'[q].work.plan)
    BY <2>3, <2>4, <2>5 DEF TreeTyped
  <2>7. QED
    BY <2>5, <2>6 DEF TreeTyped
<1>5. ASSUME NEW w \in AtWork, EditFor(w) PROVE TreeTyped'
  <2>1. edits' = edits \union {w} /\ UNCHANGED <<run, orphans, log>>
    BY <1>5 DEF EditFor
  <2>2. w \in Work /\ Loads(w.plan)
    BY AtWorkTyped
  <2>3. QED
    BY <2>1, <2>2 DEF TreeTyped
<1>6. ASSUME NEW r \in Runners, RunEnds(r) PROVE TreeTyped'
  <2>1. run' = [run EXCEPT ![r] = NoRun] /\ UNCHANGED <<edits, log>> /\ orphans' \subseteq AtWork
    BY <1>6, EndedRun
  <2>2. ~NoRun.active
    BY DEF NoRun
  <2>3. QED
    BY <2>1, <2>2, AtWorkTyped DEF TreeTyped
<1>11. CASE OrphanExits
  <2>1. orphans' \subseteq orphans /\ UNCHANGED <<run, edits, log>>
    BY <1>11 DEF OrphanExits
  <2>2. QED
    BY <2>1 DEF TreeTyped
<1>7. CASE Commit
  <2>1. PICK markers \in {{}, CommitMarkers(edits)} :
          log' = Append(log, [markers |-> markers, work |-> edits,
                              excused |-> excused, undoes |-> 0])
    BY <1>7 DEF Commit
  <2> DEFINE c == [markers |-> markers, work |-> edits, excused |-> excused, undoes |-> 0]
  <2>2. CommitMarkers(edits) \subseteq PlanIds \X SliceIds
    BY DEF TreeTyped, CommitMarkers, Work, Loads
  <2>3. c \in Commits /\ c.work = edits
    BY <2>1, <2>2 DEF Commits, TreeTyped, FlagsTyped
  <2>4. edits' = {} /\ run' = run /\ log' = Append(log, c)
    BY <1>7, <2>1 DEF Commit
  <2> HIDE DEF c
  <2>8. orphans' = orphans
    BY <1>7 DEF Commit
  <2>5. log' \in Seq(Commits) /\ Len(log') = Len(log) + 1 /\ log'[Len(log) + 1] = c
        /\ \A n \in 1 .. Len(log) : log'[n] = log[n]
    BY <2>3, <2>4, AppendProperties DEF TreeTyped
  <2>6. \A n \in DOMAIN log' : log'[n] = c \/ (n \in DOMAIN log /\ log'[n] = log[n])
    BY <2>5, LenProperties DEF TreeTyped
  <2>7. QED
    BY <2>3, <2>4, <2>5, <2>6, <2>8 DEF TreeTyped
<1>8. CASE Revert
  <2>1. PICK n \in DOMAIN log :
          log' = Append(log, [markers |-> {}, work |-> {}, excused |-> FALSE, undoes |-> n])
    BY <1>8 DEF Revert
  <2> DEFINE c == [markers |-> {}, work |-> {}, excused |-> FALSE, undoes |-> n]
  <2>2. n \in Nat
    BY <2>1, LenProperties DEF TreeTyped
  <2>3. c \in Commits /\ c.work = {}
    BY <2>2 DEF Commits
  <2>4. UNCHANGED <<run, orphans, edits>> /\ log' = Append(log, c)
    BY <1>8, <2>1 DEF Revert
  <2> HIDE DEF c
  <2>5. log' \in Seq(Commits) /\ Len(log') = Len(log) + 1 /\ log'[Len(log) + 1] = c
        /\ \A m \in 1 .. Len(log) : log'[m] = log[m]
    BY <2>3, <2>4, AppendProperties DEF TreeTyped
  <2>6. \A m \in DOMAIN log' : log'[m] = c \/ (m \in DOMAIN log /\ log'[m] = log[m])
    BY <2>5, LenProperties DEF TreeTyped
  <2>7. QED
    BY <2>3, <2>4, <2>5, <2>6 DEF TreeTyped
<1>9. CASE UNCHANGED vars
  BY <1>1, <1>9 DEF vars, treeVars
<1>10. QED
  BY <1>2, <1>3, <1>4, <1>5, <1>6, <1>7, <1>8, <1>9, <1>11, EditsAreOfWorkers DEF Next

PlanInv == FilesInv /\ DraftsValid /\ FlagsTyped /\ TreeTyped

LEMMA PlanInvInitially == Init => PlanInv
<1> SUFFICES ASSUME Init PROVE PlanInv
  OBVIOUS
<1>1. DraftsValid
  BY DEF Init, DraftsValid, NoSession
<1>2. FlagsTyped
  BY DEF Init, FlagsTyped
<1>3. TreeTyped
  <2>1. log = <<>> /\ <<>> \in Seq(Commits) /\ DOMAIN <<>> = {}
    BY DEF Init
  <2>2. ~NoRun.active
    BY DEF NoRun
  <2>3. QED
    BY <2>1, <2>2 DEF Init, TreeTyped
<1>4. QED
  BY <1>1, <1>2, <1>3, FilesInvInitially DEF PlanInv

LEMMA PlanInvPreserved ==
  ASSUME PlanInv, [Next]_vars
  PROVE  PlanInv'
<1>1. FilesTyped
  BY DEF PlanInv, FilesInv
<1>2. QED
  BY <1>1, FilesInvPreserved, DraftsValidPreserved, FlagsTypedPreserved, TreeTypedPreserved
     DEF PlanInv

(* Whoever drafts, saves, edits, runs, commits and reverts: a draft is     *)
(* always one that could be saved, and what runs or lands is a slice of a  *)
(* plan that loads.                                                        *)
THEOREM PlansTyped == Spec => []TypeOK
<1>1. PlanInv => TypeOK
  <2> SUFFICES ASSUME PlanInv PROVE TypeOK
    OBVIOUS
  <2>1. FilesTyped /\ DraftsValid /\ FlagsTyped /\ TreeTyped
    BY DEF PlanInv, FilesInv
  <2>2. \A w \in orphans \union edits \union Landed : Loads(w.plan)
    BY <2>1 DEF TreeTyped, Landed
  <2>3. QED
    BY <2>1, <2>2 DEF FilesTyped, DraftsValid, FlagsTyped, TreeTyped, TypeOK
<1>2. QED
  BY <1>1, PlanInvInitially, PlanInvPreserved, PTL DEF Spec
----------------------------------------------------------------------------
(* Unless something since the last commit excuses it, the edits in the     *)
(* tree are of one slice, that of the only worker at work if there is one. *)
OneSliceInv ==
  /\ ~excused => \A w \in edits : \A u \in edits \union AtWork : u = w
  /\ \A n \in DOMAIN log : ~log[n].excused => \A v, w \in log[n].work : v = w

LEMMA OneSliceInvPreserved ==
  ASSUME PlanInv, OneSliceInv, [Next]_vars
  PROVE  OneSliceInv'
<1>1. FilesTyped /\ FlagsTyped /\ TreeTyped
  BY DEF PlanInv, FilesInv
<1>2. CASE UNCHANGED treeVars
  BY <1>2 DEF treeVars, OneSliceInv, AtWork
<1>3. ASSUME NEW k \in Planners,
             \/ StartPlanner(k) \/ AnswerFeedback(k) \/ BeginSave(k) \/ FillTemp(k)
             \/ RenameTemp(k) \/ AbandonPlanner(k) \/ KillSave(k)
      PROVE  OneSliceInv'
  BY <1>2, <1>3 DEF StartPlanner, AnswerFeedback, BeginSave, FillTemp, RenameTemp,
                    AbandonPlanner, KillSave
<1>4. CASE HandEdit
  BY <1>2, <1>4 DEF HandEdit
<1>5. ASSUME NEW r \in Runners, PlansRun(r) PROVE OneSliceInv'
  <2>1. PICK name \in PlanIds, apply, allowDirty, answered \in BOOLEAN :
          /\ \E i \in DOMAIN file[name].slices :
               run' = [run EXCEPT ![r] =
                 [active |-> TRUE, apply |-> apply,
                  work |-> [plan |-> file[name], slice |-> file[name].slices[i].id]]]
          /\ Prechecked(apply, allowDirty, answered)
          /\ excused' = (excused \/ allowDirty \/ ~answered)
    BY <1>1, <1>5, StartedRun
  <2>2. UNCHANGED <<orphans, edits, log>>
    BY <1>5 DEF PlansRun
  <2>3. run'[r].apply = apply /\ \A q \in Runners \ {r} : run'[q] = run[q]
    BY <1>1, <2>1 DEF TreeTyped
  <2>4. ~excused' => ~excused /\ ~allowDirty /\ answered
    BY <1>1, <2>1 DEF FlagsTyped
  <2>5. ~excused' /\ apply => edits = {}
    BY <2>1, <2>4 DEF Prechecked, PrecheckDue
  <2>6. ~apply => AtWork' \subseteq AtWork
    BY <2>2, <2>3 DEF AtWork
  <2>7. QED
    BY <2>2, <2>4, <2>5, <2>6 DEF OneSliceInv
<1>6. ASSUME NEW w \in AtWork, EditFor(w) PROVE OneSliceInv'
  <2>1. /\ edits' = edits \union {w} /\ excused' = (excused \/ AtWork \ {w} # {})
        /\ UNCHANGED <<run, orphans, log>>
    BY <1>6 DEF EditFor
  <2>2. AtWork' = AtWork
    BY <2>1 DEF AtWork
  <2>3. ~excused' => ~excused /\ AtWork \ {w} = {}
    BY <1>1, <2>1 DEF FlagsTyped
  <2>4. ~excused' => \A u \in edits \union AtWork : u = w
    BY <2>3 DEF OneSliceInv
  <2>5. QED
    BY <2>1, <2>2, <2>4 DEF OneSliceInv
<1>7. ASSUME (\E r \in Runners : RunEnds(r)) \/ OrphanExits PROVE OneSliceInv'
  <2>1. UNCHANGED <<edits, log, excused>> /\ AtWork' \subseteq AtWork
    <3>1. CASE \E r \in Runners : RunEnds(r)
      BY <1>1, <3>1, EndedRun
    <3>2. CASE OrphanExits
      BY <3>2 DEF OrphanExits, AtWork
    <3>3. QED
      BY <1>7, <3>1, <3>2
  <2>2. QED
    BY <2>1 DEF OneSliceInv
<1>8. CASE Commit \/ Revert
  <2>1. \E c \in Commits :
          /\ log' = Append(log, c)
          /\ ~c.excused => \A v, w \in c.work : v = w
    <3>1. CASE Commit
      <4>1. PICK markers \in {{}, CommitMarkers(edits)} :
              log' = Append(log, [markers |-> markers, work |-> edits,
                                  excused |-> excused, undoes |-> 0])
        BY <3>1 DEF Commit
      <4> DEFINE c == [markers |-> markers, work |-> edits, excused |-> excused, undoes |-> 0]
      <4>2. CommitMarkers(edits) \subseteq PlanIds \X SliceIds
        BY <1>1 DEF TreeTyped, CommitMarkers, Work, Loads
      <4>3. c \in Commits /\ c.work = edits /\ c.excused = excused
        BY <1>1, <4>1, <4>2 DEF Commits, TreeTyped, FlagsTyped
      <4> HIDE DEF c
      <4>4. ~c.excused => \A v, w \in c.work : v = w
        BY <4>3 DEF OneSliceInv
      <4>5. QED
        BY <4>1, <4>3, <4>4 DEF c
    <3>2. CASE Revert
      <4>1. PICK n \in DOMAIN log :
              log' = Append(log, [markers |-> {}, work |-> {}, excused |-> FALSE, undoes |-> n])
        BY <3>2 DEF Revert
      <4>2. n \in Nat
        BY <1>1, <4>1, LenProperties DEF TreeTyped
      <4>3. [markers |-> {}, work |-> {}, excused |-> FALSE, undoes |-> n] \in Commits
        BY <4>2 DEF Commits
      <4>4. QED
        BY <4>1, <4>3
    <3>3. QED
      BY <1>8, <3>1, <3>2
  <2>2. PICK c \in Commits :
          /\ log' = Append(log, c)
          /\ ~c.excused => \A v, w \in c.work : v = w
    BY <2>1
  <2>3. \A n \in DOMAIN log' : log'[n] = c \/ (n \in DOMAIN log /\ log'[n] = log[n])
    BY <1>1, <2>2, AppendProperties, LenProperties DEF TreeTyped
  <2>4. \A n \in DOMAIN log' : ~log'[n].excused => \A v, w \in log'[n].work : v = w
    BY <2>2, <2>3 DEF OneSliceInv
  <2>5. UNCHANGED <<run, orphans>> /\ (edits' = {} \/ UNCHANGED <<edits, excused>>)
    BY <1>8 DEF Commit, Revert
  <2>6. AtWork' = AtWork
    BY <2>5 DEF AtWork
  <2>7. QED
    BY <2>4, <2>5, <2>6 DEF OneSliceInv
<1>9. CASE UNCHANGED vars
  BY <1>2, <1>9 DEF vars, treeVars
<1>10. QED
  BY <1>3, <1>4, <1>5, <1>6, <1>7, <1>8, <1>9, EditsAreOfWorkers DEF Next

(* A set without two different elements has at most one.                   *)
LEMMA AtMostOne ==
  ASSUME NEW S, \A v, w \in S : v = w
  PROVE  Cardinality(S) <= 1
<1>1. CASE S = {}
  BY <1>1, FS_EmptySet
<1>2. CASE S # {}
  <2>1. PICK x \in S : S = {x}
    BY <1>2
  <2>2. QED
    BY <2>1, FS_Singleton
<1>3. QED
  BY <1>1, <1>2

(* Any number of runs, of planners and of workers that outlive their runs: *)
(* unless the precheck was waived or git failed in it, or a worker edited  *)
(* while one of another slice was at work, no commit mixes two slices.     *)
THEOREM OneSlicePerCommit == Spec => []CommitsHoldOneSlice
<1>1. Init => PlanInv /\ OneSliceInv
  <2>1. Init => OneSliceInv
    BY DEF Init, OneSliceInv
  <2>2. QED
    BY <2>1, PlanInvInitially
<1>2. PlanInv /\ OneSliceInv /\ [Next]_vars => (PlanInv /\ OneSliceInv)'
  BY PlanInvPreserved, OneSliceInvPreserved
<1>3. OneSliceInv => CommitsHoldOneSlice
  BY AtMostOne DEF OneSliceInv, CommitsHoldOneSlice
<1>4. QED
  BY <1>1, <1>2, <1>3, PTL DEF Spec
----------------------------------------------------------------------------
(* Slice ids are unique, so a slice's dependencies are the declared ones.  *)
LEMMA DepsOfSlice ==
  ASSUME NEW d \in PlanTexts, WellOrdered(d), NEW i \in DOMAIN d.slices
  PROVE  DepsOf(d, d.slices[i].id) = d.slices[i].deps
<1>1. DOMAIN d.slices = 1 .. Len(d.slices) /\ Len(d.slices) \in Nat
  BY LenProperties DEF PlanTexts
<1>2. ASSUME NEW k \in DOMAIN d.slices, d.slices[k].id = d.slices[i].id
      PROVE  k = i
  <2>1. k < i => d.slices[i].id \in IdsBefore(d, i)
    BY <1>1, <1>2 DEF IdsBefore
  <2>2. i < k => d.slices[k].id \in IdsBefore(d, k)
    BY <1>1, <1>2 DEF IdsBefore
  <2>3. QED
    BY <1>1, <2>1, <2>2 DEF WellOrdered
<1>3. {k \in DOMAIN d.slices : d.slices[k].id = d.slices[i].id} = {i}
  BY <1>2
<1>4. QED
  BY <1>3 DEF DepsOf

(* The work that runs, lies in the tree or has landed.                     *)
KnownWork ==
  {run[r].work : r \in {q \in Runners : run[q].active}} \union orphans \union edits \union Landed

LEMMA KnownWorkLoads ==
  ASSUME TreeTyped, NEW w \in KnownWork
  PROVE  w \in Work /\ Loads(w.plan) /\ w.plan \in Contents /\ w.plan.plan \in PlanIds
<1>1. CASE w \in {run[r].work : r \in {q \in Runners : run[q].active}}
  BY <1>1, ActiveRun DEF TreeTyped, Work, Loads
<1>2. CASE w \in orphans \union edits
  BY <1>2 DEF TreeTyped, Work, Loads
<1>3. CASE w \in Landed
  <2>1. PICK n \in DOMAIN log : w \in log[n].work
    BY <1>3 DEF Landed
  <2>2. log[n] \in Commits
    BY <2>1 DEF TreeTyped
  <2>3. QED
    BY <2>1, <2>2 DEF TreeTyped, Commits, Work, Loads
<1>4. QED
  BY <1>1, <1>2, <1>3 DEF KnownWork

(* Until merged work is reverted or a plan file is replaced: no commit     *)
(* undoes another, work is of the plan that is still on disk, a marker has *)
(* its work in the same commit, and whatever runs, lies in the tree or has *)
(* landed came after what it depends on.                                   *)
NothingUndone == \A n \in DOMAIN log : log[n].undoes = 0

PlansStillThere == \A w \in KnownWork : file[w.plan.plan] = w.plan

MarkersTrue ==
  \A n \in DOMAIN log : \A m \in log[n].markers :
    \E w \in log[n].work : m = <<w.plan.plan, w.slice>>

DirectDepsLanded ==
  \A w \in KnownWork : \A t \in DepsOf(w.plan, w.slice) :
    [plan |-> w.plan, slice |-> t] \in Landed

LandedInv ==
  ~amended => NothingUndone /\ PlansStillThere /\ MarkersTrue /\ DirectDepsLanded

LEMMA LandedWhole ==
  ASSUME TreeTyped, NothingUndone
  PROVE  Landed = UNION {log[n].work : n \in DOMAIN log}
<1>1. \A k \in DOMAIN log : \A m \in DOMAIN log : log[m].undoes # k
  BY LenProperties DEF TreeTyped, NothingUndone
<1>2. {k \in DOMAIN log : \A m \in DOMAIN log : log[m].undoes # k} = DOMAIN log
  BY <1>1
<1>3. QED
  BY <1>2 DEF Landed

(* While the history flag stays down, a plan file that is there stays as   *)
(* it is.                                                                  *)
LEMMA FilesStay ==
  ASSUME FilesTyped, FlagsTyped, [Next]_vars, ~amended'
  PROVE  /\ ~amended
         /\ \A name \in PlanIds : file[name] # Absent => file'[name] = file[name]
<1>1. CASE UNCHANGED <<file, amended>>
  BY <1>1
<1>2. ASSUME NEW k \in Planners,
             \/ StartPlanner(k) \/ AnswerFeedback(k) \/ BeginSave(k)
             \/ AbandonPlanner(k) \/ KillSave(k)
      PROVE  UNCHANGED <<file, amended>>
  BY <1>2 DEF StartPlanner, AnswerFeedback, BeginSave, AbandonPlanner, KillSave
<1>3. ASSUME NEW k \in Planners, FillTemp(k)
      PROVE  /\ ~amended
             /\ \A name \in PlanIds : file[name] # Absent => file'[name] = file[name]
  <2> DEFINE own == repl[k].name
  <2>1. ~amended /\ file'[own] = file[own]
    BY <1>3 DEF FillTemp, FlagsTyped
  <2>2. file' = file \/ \E d \in Written(file[own], repl[k].draft) : file' = [file EXCEPT ![own] = d]
    BY <1>3 DEF FillTemp
  <2>3. \A name \in PlanIds : name # own => file'[name] = file[name]
    BY <2>2 DEF FilesTyped
  <2>4. QED
    BY <2>1, <2>3
<1>4. ASSUME NEW k \in Planners, RenameTemp(k)
      PROVE  /\ ~amended
             /\ \A name \in PlanIds : file[name] # Absent => file'[name] = file[name]
  <2> DEFINE own == repl[k].name
  <2>1. CASE temp[own] = Absent
    BY <1>1, <1>4, <2>1 DEF RenameTemp
  <2>2. CASE temp[own] # Absent
    <3>1. /\ file' = [file EXCEPT ![own] = temp[own]]
          /\ amended' = (amended \/ file[own] \notin {Absent, temp[own]})
      BY <1>4, <2>2 DEF RenameTemp
    <3>2. ~amended /\ file[own] \in {Absent, temp[own]}
      BY <3>1 DEF FlagsTyped
    <3>3. QED
      BY <3>1, <3>2 DEF FilesTyped
  <2>3. QED
    BY <2>1, <2>2
<1>5. ~HandEdit /\ ~Revert
  BY DEF HandEdit, Revert
<1>6. CASE Commit
  BY <1>1, <1>6 DEF Commit
<1>7. CASE \/ \E r \in Runners : PlansRun(r) \/ WorkerEdits(r) \/ RunEnds(r)
           \/ OrphanEdits \/ OrphanExits
  BY <1>1, <1>7 DEF PlansRun, WorkerEdits, RunEnds, OrphanEdits, OrphanExits, EditFor, planVars
<1>8. CASE UNCHANGED vars
  BY <1>1, <1>8 DEF vars
<1>9. QED
  BY <1>1, <1>2, <1>3, <1>4, <1>5, <1>6, <1>7, <1>8 DEF Next

(* Steps that bring no new work and take no landed work away.              *)
LEMMA KnownWorkStays ==
  ASSUME PlanInv, LandedInv, [Next]_vars, ~amended',
         KnownWork' \subseteq KnownWork, Landed \subseteq Landed',
         NothingUndone', MarkersTrue'
  PROVE  LandedInv'
<1>1. FilesTyped /\ FlagsTyped /\ TreeTyped
  BY DEF PlanInv, FilesInv
<1>2. ~amended /\ \A name \in PlanIds : file[name] # Absent => file'[name] = file[name]
  BY <1>1, FilesStay
<1>3. PlansStillThere /\ DirectDepsLanded
  BY <1>2 DEF LandedInv
<1>4. ASSUME NEW w \in KnownWork' PROVE file'[w.plan.plan] = w.plan
  <2>1. w \in KnownWork /\ w.plan \in Contents /\ w.plan.plan \in PlanIds
    BY <1>1, <1>4, KnownWorkLoads
  <2>2. file[w.plan.plan] = w.plan /\ w.plan # Absent
    BY <1>3, <2>1, ContentsAreTexts DEF PlansStillThere
  <2>3. QED
    BY <1>2, <2>1, <2>2
<1>5. DirectDepsLanded'
  BY <1>3 DEF DirectDepsLanded
<1>6. QED
  BY <1>4, <1>5 DEF LandedInv, PlansStillThere

(* A run that starts finds the work of what it depends on in the branch:   *)
(* the markers it is let in by are those of the very plan it runs.         *)
LEMMA StartedDepsLanded ==
  ASSUME OwnNames = TRUE, PlanInv, LandedInv, ~amended,
         NEW name \in PlanIds, Readable(file[name]), file[name] \in Contents,
         NEW i \in DOMAIN file[name].slices,
         DependenciesMet(Markers(name), file[name].slices[i].deps)
  PROVE  /\ file[name].plan = name
         /\ \A t \in DepsOf(file[name], file[name].slices[i].id) :
              [plan |-> file[name], slice |-> t] \in Landed
<1> DEFINE d == file[name]
<1>1. FilesOwnTheirNames /\ TreeTyped
  BY DEF PlanInv, FilesInv
<1>2. NothingUndone /\ PlansStillThere /\ MarkersTrue
  BY DEF LandedInv
<1>3. d.plan = name
  BY <1>1 DEF FilesOwnTheirNames
<1>4. DepsOf(d, d.slices[i].id) = d.slices[i].deps
  BY ContentsAreTexts, DepsOfSlice DEF Readable, Loads
<1>5. ASSUME NEW t \in d.slices[i].deps PROVE [plan |-> d, slice |-> t] \in Landed
  <2>1. t \in Markers(name)
    BY <1>5 DEF DependenciesMet
  <2>2. PICK n \in DOMAIN log : <<name, t>> \in log[n].markers
    BY <2>1 DEF Markers
  <2>3. PICK w \in log[n].work : <<name, t>> = <<w.plan.plan, w.slice>>
    BY <1>2, <2>2 DEF MarkersTrue
  <2>4. w \in Landed
    BY <1>1, <1>2, <2>3, LandedWhole
  <2>5. w \in KnownWork
    BY <2>4 DEF KnownWork
  <2>6. w \in Work /\ w.plan = d /\ w.slice = t
    BY <1>1, <1>2, <2>3, <2>5, KnownWorkLoads DEF PlansStillThere
  <2>7. w = [plan |-> d, slice |-> t]
    BY <2>6 DEF Work
  <2>8. QED
    BY <2>4, <2>7
<1>6. QED
  BY <1>3, <1>4, <1>5

LEMMA LandedInvPreserved ==
  ASSUME OwnNames = TRUE, PlanInv, LandedInv, [Next]_vars
  PROVE  LandedInv'
<1> SUFFICES ASSUME ~amended' PROVE LandedInv'
  BY DEF LandedInv
<1>1. FilesTyped /\ FlagsTyped /\ TreeTyped
  BY DEF PlanInv, FilesInv
<1>2. ~amended
  BY <1>1, FilesStay
<1>3. NothingUndone /\ PlansStillThere /\ MarkersTrue /\ DirectDepsLanded
  BY <1>2 DEF LandedInv
<1>4. ASSUME UNCHANGED log PROVE Landed' = Landed /\ NothingUndone' /\ MarkersTrue'
  BY <1>3, <1>4 DEF Landed, NothingUndone, MarkersTrue
<1>5. CASE UNCHANGED treeVars
  <2>1. KnownWork' = KnownWork
    BY <1>4, <1>5 DEF KnownWork, treeVars
  <2>2. QED
    BY <1>4, <1>5, <2>1, KnownWorkStays DEF treeVars
<1>6. ASSUME NEW k \in Planners,
             \/ StartPlanner(k) \/ AnswerFeedback(k) \/ BeginSave(k) \/ FillTemp(k)
             \/ RenameTemp(k) \/ AbandonPlanner(k) \/ KillSave(k)
      PROVE  LandedInv'
  BY <1>5, <1>6 DEF StartPlanner, AnswerFeedback, BeginSave, FillTemp, RenameTemp,
                    AbandonPlanner, KillSave
<1>7. ~HandEdit /\ ~Revert
  BY DEF HandEdit, Revert
<1>8. ASSUME NEW r \in Runners, PlansRun(r) PROVE LandedInv'
  <2>1. PICK name \in PlanIds, apply \in BOOLEAN :
          /\ Readable(file[name]) /\ file[name] \in Contents
          /\ \E i \in DOMAIN file[name].slices :
               /\ DependenciesMet(Markers(name), file[name].slices[i].deps)
               /\ run' = [run EXCEPT ![r] =
                    [active |-> TRUE, apply |-> apply,
                     work |-> [plan |-> file[name], slice |-> file[name].slices[i].id]]]
    BY <1>1, <1>8, StartedRun
  <2>2. PICK i \in DOMAIN file[name].slices :
          /\ DependenciesMet(Markers(name), file[name].slices[i].deps)
          /\ run' = [run EXCEPT ![r] =
               [active |-> TRUE, apply |-> apply,
                work |-> [plan |-> file[name], slice |-> file[name].slices[i].id]]]
    BY <2>1
  <2> DEFINE w == [plan |-> file[name], slice |-> file[name].slices[i].id]
  <2>3. /\ w.plan = file[name] /\ file[w.plan.plan] = w.plan
        /\ \A t \in DepsOf(w.plan, w.slice) : [plan |-> w.plan, slice |-> t] \in Landed
    BY <1>2, <2>1, <2>2, StartedDepsLanded
  <2>4. /\ run'[r].work = w
        /\ \A q \in Runners \ {r} : run'[q] = run[q]
    BY <1>1, <2>2 DEF TreeTyped
  <2>5. UNCHANGED <<file, orphans, edits, log>>
    BY <1>8 DEF PlansRun, planVars
  <2> HIDE DEF w
  <2>6. Landed' = Landed /\ NothingUndone' /\ MarkersTrue'
    BY <1>4, <2>5
  <2>7. KnownWork' \subseteq KnownWork \union {w}
    BY <2>4, <2>5, <2>6 DEF KnownWork
  <2>8. PlansStillThere'
    BY <1>3, <2>3, <2>5, <2>7 DEF PlansStillThere
  <2>9. DirectDepsLanded'
    BY <1>3, <2>3, <2>6, <2>7 DEF DirectDepsLanded
  <2>10. QED
    BY <2>6, <2>8, <2>9 DEF LandedInv
<1>9. ASSUME NEW w \in AtWork, EditFor(w) PROVE LandedInv'
  <2>1. edits' = edits \union {w} /\ UNCHANGED <<run, orphans, log>>
    BY <1>9 DEF EditFor
  <2>2. KnownWork' \subseteq KnownWork
    BY <1>4, <2>1 DEF KnownWork, AtWork
  <2>3. QED
    BY <1>4, <2>1, <2>2, KnownWorkStays
<1>10. ASSUME NEW r \in Runners, RunEnds(r) PROVE LandedInv'
  <2>1. run' = [run EXCEPT ![r] = NoRun] /\ UNCHANGED <<edits, log>> /\ orphans' \subseteq AtWork
    BY <1>1, <1>10, EndedRun
  <2>2. ~run'[r].active /\ \A q \in Runners \ {r} : run'[q] = run[q]
    BY <1>1, <2>1 DEF TreeTyped, NoRun
  <2>3. AtWork \subseteq KnownWork
    BY DEF AtWork, KnownWork
  <2>4. KnownWork' \subseteq KnownWork
    BY <1>4, <2>1, <2>2, <2>3 DEF KnownWork
  <2>5. QED
    BY <1>4, <2>1, <2>4, KnownWorkStays
<1>14. CASE OrphanExits
  <2>1. orphans' \subseteq orphans /\ UNCHANGED <<run, edits, log>>
    BY <1>14 DEF OrphanExits
  <2>2. KnownWork' \subseteq KnownWork
    BY <1>4, <2>1 DEF KnownWork
  <2>3. QED
    BY <1>4, <2>1, <2>2, KnownWorkStays
<1>11. CASE Commit
  <2>1. PICK markers \in {{}, CommitMarkers(edits)} :
          log' = Append(log, [markers |-> markers, work |-> edits,
                              excused |-> excused, undoes |-> 0])
    BY <1>11 DEF Commit
  <2> DEFINE c == [markers |-> markers, work |-> edits, excused |-> excused, undoes |-> 0]
  <2>2. CommitMarkers(edits) \subseteq PlanIds \X SliceIds
    BY <1>1 DEF TreeTyped, CommitMarkers, Work, Loads
  <2>3. c \in Commits /\ c.work = edits /\ c.undoes = 0 /\ c.markers = markers
    BY <1>1, <2>1, <2>2 DEF Commits, TreeTyped, FlagsTyped
  <2>4. edits' = {} /\ UNCHANGED <<run, orphans>> /\ log' = Append(log, c)
    BY <1>11, <2>1 DEF Commit
  <2> HIDE DEF c
  <2>5. /\ DOMAIN log' = 1 .. Len(log) + 1 /\ DOMAIN log = 1 .. Len(log) /\ Len(log) \in Nat
        /\ log'[Len(log) + 1] = c /\ \A n \in 1 .. Len(log) : log'[n] = log[n]
    BY <1>1, <2>3, <2>4, AppendProperties, LenProperties DEF TreeTyped
  <2>6. \A n \in DOMAIN log' : log'[n] = c \/ (n \in DOMAIN log /\ log'[n] = log[n])
    BY <2>5
  <2>7. NothingUndone'
    BY <1>3, <2>3, <2>6 DEF NothingUndone
  <2>8. \A m \in c.markers : \E w \in c.work : m = <<w.plan.plan, w.slice>>
    BY <2>1, <2>3 DEF CommitMarkers
  <2>9. MarkersTrue'
    BY <1>3, <2>6, <2>8 DEF MarkersTrue
  <2>10. Landed = UNION {log[n].work : n \in DOMAIN log}
    BY <1>1, <1>3, LandedWhole
  <2>11. Landed' = UNION {log'[n].work : n \in DOMAIN log'}
    <3>1. \A k \in DOMAIN log' : \A m \in DOMAIN log' : log'[m].undoes # k
      BY <2>5, <2>7 DEF NothingUndone
    <3>2. {k \in DOMAIN log' : \A m \in DOMAIN log' : log'[m].undoes # k} = DOMAIN log'
      BY <3>1
    <3>3. QED
      BY <3>2 DEF Landed
  <2>12. Landed \subseteq Landed' /\ Landed' \subseteq Landed \union edits
    BY <2>3, <2>5, <2>6, <2>10, <2>11
  <2>13. KnownWork' \subseteq KnownWork
    BY <2>4, <2>12 DEF KnownWork
  <2>14. QED
    BY <2>7, <2>9, <2>12, <2>13, KnownWorkStays
<1>12. CASE UNCHANGED vars
  BY <1>5, <1>12 DEF vars, treeVars
<1>13. QED
  BY <1>6, <1>7, <1>8, <1>9, <1>10, <1>11, <1>12, <1>14, EditsAreOfWorkers DEF Next

LEMMA LandedInvInitially == Init => LandedInv
<1> SUFFICES ASSUME Init PROVE LandedInv
  OBVIOUS
<1>1. DOMAIN log = {} /\ orphans = {} /\ edits = {} /\ \A r \in Runners : ~run[r].active
  BY DEF Init, NoRun
<1>2. KnownWork = {}
  BY <1>1 DEF KnownWork, Landed
<1>3. QED
  BY <1>1, <1>2 DEF LandedInv, NothingUndone, PlansStillThere, MarkersTrue, DirectDepsLanded

(* Where plans are saved under their own names: a slice runs on a branch   *)
(* that holds the work of every slice it builds on, through however many   *)
(* others, as long as no plan file was replaced and no merged work was     *)
(* reverted.                                                               *)
THEOREM RunsAfterItsDependencies ==
  ASSUME OwnNames = TRUE
  PROVE  Spec => []DependenciesLanded
<1>1. Init => PlanInv /\ LandedInv
  BY PlanInvInitially, LandedInvInitially
<1>2. PlanInv /\ LandedInv /\ [Next]_vars => (PlanInv /\ LandedInv)'
  BY PlanInvPreserved, LandedInvPreserved
<1>3. PlanInv /\ LandedInv => DependenciesLanded
  <2> SUFFICES ASSUME PlanInv, LandedInv, ~amended, NEW r \in Runners, run[r].active,
                      NEW s \in BuildsOn(run[r].work.plan, run[r].work.slice)
               PROVE  [plan |-> run[r].work.plan, slice |-> s] \in Landed
    BY DEF DependenciesLanded
  <2> DEFINE d == run[r].work.plan
             there == {t \in SliceIds : [plan |-> d, slice |-> t] \in Landed}
  <2>1. TreeTyped /\ DirectDepsLanded
    BY DEF PlanInv, LandedInv
  <2>2. ASSUME NEW w \in KnownWork, w.plan = d, NEW t \in DepsOf(d, w.slice)
        PROVE  t \in there
    <3>1. [plan |-> d, slice |-> t] \in Landed
      BY <2>1, <2>2 DEF DirectDepsLanded
    <3>2. [plan |-> d, slice |-> t] \in Work
      BY <2>1, <3>1, KnownWorkLoads DEF KnownWork
    <3>3. t \in SliceIds
      BY <3>2 DEF Work
    <3>4. QED
      BY <3>1, <3>3
  <2>3. DepsOf(d, run[r].work.slice) \subseteq there
    <3>1. run[r].work \in KnownWork
      BY DEF KnownWork
    <3>2. QED
      BY <2>2, <3>1
  <2>4. \A u \in there : DepsOf(d, u) \subseteq there
    <3> SUFFICES ASSUME NEW u \in there PROVE DepsOf(d, u) \subseteq there
      OBVIOUS
    <3>1. [plan |-> d, slice |-> u] \in KnownWork
      BY DEF KnownWork
    <3>2. QED
      BY <2>2, <3>1
  <2>5. s \in there
    <3>1. there \in SUBSET SliceIds
      OBVIOUS
    <3> HIDE DEF there
    <3>2. QED
      BY <2>3, <2>4, <3>1 DEF BuildsOn
  <2>6. QED
    BY <2>5
<1>4. QED
  BY <1>1, <1>2, <1>3, PTL DEF Spec
=============================================================================
