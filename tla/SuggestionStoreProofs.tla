------------------------ MODULE SuggestionStoreProofs ------------------------
(***************************************************************************)
(* Proofs about SuggestionStore, for any number of runs and of accepts     *)
(* that interleave, and any number of kills.                               *)
(***************************************************************************)
EXTENDS SuggestionStore, SequenceTheorems, TLAPS

(* A clerk whose command ended holds nothing.                              *)
LEMMA IdleClerkTyped == IdleClerk \in ClerkStates /\ IdleClerk.at = "idle"
<1>1. <<>> \in Seq(Runs \union {Notes})
  OBVIOUS
<1>2. QED
  BY <1>1 DEF IdleClerk, ClerkStates

LEMMA TypeOKInitially == Init => TypeOK
<1> SUFFICES ASSUME Init PROVE TypeOK
  OBVIOUS
<1>1. memory \in Seq(Runs \union {Notes})
  <2>1. <<>> \in Seq(Runs \union {Notes}) /\ <<Notes>> \in Seq(Runs \union {Notes})
    OBVIOUS
  <2>2. memory = <<>> \/ memory = <<Notes>>
    BY DEF Init
  <2>3. QED
    BY <2>1, <2>2
<1>2. clerk \in [Clerks -> ClerkStates] /\ \A c \in Clerks : clerk[c].at = "idle"
  BY IdleClerkTyped DEF Init
<1>3. run \in [Runs -> RunStates] /\ \A r \in Runs : run[r].at = "running"
  BY DEF Init, RunStates
<1>4. QED
  BY <1>1, <1>2, <1>3 DEF Init, TypeOK

(* What a step of a single clerk owes: the clerk's new state, and the rest *)
(* of the types where they are disturbed.                                  *)
LEMMA ClerkStepTyped ==
  ASSUME TypeOK, NEW c \in Clerks, NEW k \in ClerkStates,
         clerk' = [clerk EXCEPT ![c] = k],
         k.at # "idle" => k.id \in Ids /\ k.entry \in Runs,
         pending' \in [Ids -> Runs \union {Absent, Torn}],
         archive' \in [Ids -> Runs \union {Absent, Torn}],
         memory' \in Seq(Runs \union {Notes}),
         crashes' \in Nat, run' = run
  PROVE  TypeOK'
BY DEF TypeOK

LEMMA TypeOKPreserved ==
  ASSUME TypeOK, [Next]_vars
  PROVE  TypeOK'
<1>1. ASSUME NEW r \in Runs, SkipSuggestion(r) PROVE TypeOK'
  BY <1>1 DEF SkipSuggestion, TypeOK, RunStates
<1>2. ASSUME NEW r \in Runs, CheckId(r) PROVE TypeOK'
  <2>1. PICK id \in Ids :
          run' = [run EXCEPT ![r] =
                    [at |-> IF pending[id] = Absent THEN "writing" ELSE "silent", id |-> id]]
    BY <1>2 DEF CheckId
  <2>2. UNCHANGED <<pending, archive, memory, clerk, crashes>>
    BY <1>2 DEF CheckId
  <2>3. QED
    BY <2>1, <2>2 DEF TypeOK, RunStates
<1>3. ASSUME NEW r \in Runs, WriteSuggestion(r) PROVE TypeOK'
  BY <1>3 DEF WriteSuggestion, TypeOK, RunStates
<1>4. ASSUME NEW r \in Runs, CrashRun(r) PROVE TypeOK'
  <2>1. pending' = pending \/ pending' = [pending EXCEPT ![run[r].id] = Torn]
    BY <1>4 DEF CrashRun
  <2>2. pending' \in [Ids -> Runs \union {Absent, Torn}]
    BY <2>1 DEF TypeOK
  <2>3. QED
    BY <1>4, <2>2 DEF CrashRun, TypeOK, RunStates
<1>5. ASSUME NEW c \in Clerks, LoadSuggestion(c) PROVE TypeOK'
  <2>1. PICK id \in Ids :
          /\ pending[id] \in Runs
          /\ clerk' = [clerk EXCEPT ![c] =
                         [IdleClerk EXCEPT !.at = "loaded", !.id = id, !.entry = pending[id]]]
    BY <1>5 DEF LoadSuggestion
  <2> DEFINE k == [IdleClerk EXCEPT !.at = "loaded", !.id = id, !.entry = pending[id]]
  <2>2. k \in ClerkStates /\ k.id \in Ids /\ k.entry \in Runs
    BY <2>1, IdleClerkTyped DEF ClerkStates
  <2>3. UNCHANGED <<pending, archive, memory, run, crashes>>
    BY <1>5 DEF LoadSuggestion
  <2>4. clerk' = [clerk EXCEPT ![c] = k]
    BY <2>1
  <2> HIDE DEF k
  <2>5. QED
    BY <2>2, <2>3, <2>4, ClerkStepTyped DEF TypeOK
<1>6. ASSUME NEW c \in Clerks, ReadMemory(c) PROVE TypeOK'
  <2> DEFINE k == [clerk[c] EXCEPT !.at = "read", !.text = memory]
  <2>1. k \in ClerkStates /\ k.id = clerk[c].id /\ k.entry = clerk[c].entry
    BY DEF TypeOK, ClerkStates
  <2>2. clerk' = [clerk EXCEPT ![c] = k]
    BY <1>6 DEF ReadMemory, TypeOK
  <2>3. clerk[c].at = "loaded" /\ UNCHANGED <<pending, archive, memory, run, crashes>>
    BY <1>6 DEF ReadMemory
  <2> HIDE DEF k
  <2>4. QED
    BY <2>1, <2>2, <2>3, ClerkStepTyped DEF TypeOK
<1>7. ASSUME NEW c \in Clerks, TruncateMemory(c) \/ FillMemory(c) PROVE TypeOK'
  <2>1. \E at \in {"truncated", "filled"} : clerk' = [clerk EXCEPT ![c].at = at]
    BY <1>7 DEF TruncateMemory, FillMemory
  <2>2. PICK at \in {"truncated", "filled"} : clerk' = [clerk EXCEPT ![c].at = at]
    BY <2>1
  <2> DEFINE k == [clerk[c] EXCEPT !.at = at]
  <2>3. k \in ClerkStates /\ k.id = clerk[c].id /\ k.entry = clerk[c].entry
    BY <2>2 DEF TypeOK, ClerkStates
  <2>4. clerk[c].at # "idle"
    BY <1>7 DEF TruncateMemory, FillMemory
  <2>5. clerk[c].text \in Seq(Runs \union {Notes}) /\ clerk[c].entry \in Runs
    BY <2>4 DEF TypeOK, ClerkStates
  <2>6. memory' \in Seq(Runs \union {Notes})
    <3>1. Append(clerk[c].text, clerk[c].entry) \in Seq(Runs \union {Notes})
      BY <2>5, AppendProperties
    <3>2. <<>> \in Seq(Runs \union {Notes})
      OBVIOUS
    <3>3. QED
      BY <1>7, <3>1, <3>2 DEF TruncateMemory, FillMemory, NewText
  <2>7. UNCHANGED <<pending, archive, run, crashes>>
    BY <1>7 DEF TruncateMemory, FillMemory
  <2>8. clerk' = [clerk EXCEPT ![c] = k]
    BY <2>2 DEF TypeOK
  <2> HIDE DEF k
  <2>9. QED
    BY <2>3, <2>4, <2>6, <2>7, <2>8, ClerkStepTyped DEF TypeOK
<1>8. ASSUME NEW c \in Clerks, Archive(c) PROVE TypeOK'
  <2>1. clerk[c].id \in Ids
    BY <1>8 DEF Archive, TypeOK
  <2>2. /\ pending' \in [Ids -> Runs \union {Absent, Torn}]
        /\ archive' \in [Ids -> Runs \union {Absent, Torn}]
    BY <1>8, <2>1 DEF Archive, TypeOK
  <2>3. clerk' = [clerk EXCEPT ![c] = IdleClerk] /\ UNCHANGED <<memory, run, crashes>>
    BY <1>8 DEF Archive
  <2>4. QED
    BY <2>2, <2>3, IdleClerkTyped, ClerkStepTyped DEF TypeOK
<1>9. ASSUME NEW c \in Clerks, CrashClerk(c) PROVE TypeOK'
  <2>1. clerk' = [clerk EXCEPT ![c] = IdleClerk] /\ crashes' = crashes + 1
    BY <1>9 DEF CrashClerk
  <2>2. UNCHANGED <<pending, archive, memory, run>>
    BY <1>9 DEF CrashClerk
  <2>3. crashes' \in Nat
    BY <2>1 DEF TypeOK
  <2>4. QED
    BY <2>1, <2>2, <2>3, IdleClerkTyped, ClerkStepTyped DEF TypeOK
<1>10. CASE UNCHANGED vars
  BY <1>10 DEF vars, TypeOK
<1>11. QED
  BY <1>1, <1>2, <1>3, <1>4, <1>5, <1>6, <1>7, <1>8, <1>9, <1>10 DEF Next

(* Files hold suggestions, and a clerk that has begun holds one, whatever  *)
(* the interleaving of runs, accepts and kills.                            *)
THEOREM StoreTyped == Spec => []TypeOK
<1>1. QED
  BY TypeOKInitially, TypeOKPreserved, PTL DEF Spec
----------------------------------------------------------------------------
(* Who wrote what lies under an id: a suggestion there is of a run that    *)
(* reported it under that id, and a torn file is of a run that was killed  *)
(* writing it, which stays the owner of the id for good.                   *)
Owned ==
  /\ \A r \in Runs : run[r].at = "running" => run[r].id = Absent
  /\ \A id \in Ids : \A f \in {pending[id], archive[id]} :
       /\ f \in Runs => run[f].at = "reported" /\ run[f].id = id
       /\ f = Torn => \E s \in Runs : run[s].at = "silent" /\ run[s].id = id

(* A reported suggestion is under its own id, or another run has that id.  *)
UnderOwnId ==
  \A r \in Runs : run[r].at = "reported" =>
    \/ r \in {pending[run[r].id], archive[run[r].id]}
    \/ \E s \in Runs \ {r} : run[s].id = run[r].id

SurvivalInv == TypeOK /\ Owned /\ UnderOwnId

LEMMA SurvivalInvInitially == Init => SurvivalInv
<1> SUFFICES ASSUME Init PROVE SurvivalInv
  OBVIOUS
<1>1. Absent \notin Runs /\ Absent # Torn
  BY StoreConstants
<1>2. Owned
  BY <1>1 DEF Init, Owned
<1>3. UnderOwnId
  BY DEF Init, UnderOwnId
<1>4. QED
  BY <1>2, <1>3, TypeOKInitially DEF SurvivalInv

(* Who owns an id never loses it: the facts hold through any step that     *)
(* leaves the files alone and takes no id from a run.                      *)
LEMMA RunsStepSurvives ==
  ASSUME SurvivalInv, UNCHANGED <<pending, archive>>, NEW r \in Runs,
         NEW s \in RunStates, run' = [run EXCEPT ![r] = s],
         run[r].at \in {"running", "writing"}, s.at \in {"writing", "silent"},
         run[r].at = "writing" => s.id = run[r].id
  PROVE  Owned' /\ UnderOwnId'
<1>1. run'[r] = s /\ \A q \in Runs \ {r} : run'[q] = run[q]
  BY DEF SurvivalInv, TypeOK
<1>2. Owned'
  BY <1>1 DEF SurvivalInv, Owned
<1>3. ASSUME NEW q \in Runs, run'[q].at = "reported"
      PROVE  \/ q \in {pending'[run'[q].id], archive'[run'[q].id]}
             \/ \E t \in Runs \ {q} : run'[t].id = run'[q].id
  <2>1. q # r /\ run'[q] = run[q] /\ run[q].id \in Ids
    BY <1>1, <1>3 DEF SurvivalInv, TypeOK
  <2>2. CASE q \in {pending[run[q].id], archive[run[q].id]}
    BY <2>1, <2>2
  <2>3. CASE \E t \in Runs \ {q} : run[t].id = run[q].id
    <3>1. PICK t \in Runs \ {q} : run[t].id = run[q].id
      BY <2>3
    <3>2. t = r => run[r].at # "running"
      BY <2>1, <3>1, StoreConstants DEF SurvivalInv, Owned
    <3>3. run'[t].id = run[t].id
      BY <1>1, <3>2
    <3>4. QED
      BY <2>1, <3>1, <3>3
  <2>4. QED
    BY <1>3, <2>1, <2>2, <2>3 DEF SurvivalInv, UnderOwnId
<1>4. QED
  BY <1>2, <1>3 DEF UnderOwnId

LEMMA SurvivalInvPreserved ==
  ASSUME SurvivalInv, [Next]_vars
  PROVE  SurvivalInv'
<1>1. TypeOK /\ Owned /\ UnderOwnId
  BY DEF SurvivalInv
<1>2. TypeOK'
  BY <1>1, TypeOKPreserved
<1>3. Absent \notin Runs /\ Absent \notin Ids /\ Torn \notin Runs /\ Absent # Torn
  BY StoreConstants
<1> SUFFICES Owned' /\ UnderOwnId'
  BY <1>2 DEF SurvivalInv
<1>4. ASSUME NEW r \in Runs, SkipSuggestion(r) PROVE Owned' /\ UnderOwnId'
  <2> DEFINE s == [run[r] EXCEPT !.at = "silent"]
  <2>1. s \in RunStates /\ s.at = "silent" /\ s.id = run[r].id
    BY <1>1 DEF TypeOK, RunStates
  <2>2. /\ run[r].at = "running" /\ run' = [run EXCEPT ![r] = s]
        /\ UNCHANGED <<pending, archive>>
    BY <1>4 DEF SkipSuggestion
  <2> HIDE DEF s
  <2>3. QED
    BY <2>1, <2>2, RunsStepSurvives
<1>5. ASSUME NEW r \in Runs, CheckId(r) PROVE Owned' /\ UnderOwnId'
  <2>1. PICK id \in Ids :
          run' = [run EXCEPT ![r] =
                    [at |-> IF pending[id] = Absent THEN "writing" ELSE "silent", id |-> id]]
    BY <1>5 DEF CheckId
  <2> DEFINE s == [at |-> IF pending[id] = Absent THEN "writing" ELSE "silent", id |-> id]
  <2>2. s \in RunStates /\ s.at \in {"writing", "silent"}
    BY DEF RunStates
  <2>3. run[r].at = "running" /\ UNCHANGED <<pending, archive>>
    BY <1>5 DEF CheckId
  <2>4. run' = [run EXCEPT ![r] = s]
    BY <2>1
  <2> HIDE DEF s
  <2>5. QED
    BY <2>2, <2>3, <2>4, RunsStepSurvives
<1>6. ASSUME NEW r \in Runs, WriteSuggestion(r) PROVE Owned' /\ UnderOwnId'
  <2> DEFINE id == run[r].id
  <2>1. id \in Ids /\ run[r].at = "writing"
    BY <1>1, <1>6 DEF WriteSuggestion, TypeOK
  <2>2. pending' = [pending EXCEPT ![id] = r] /\ archive' = archive
    BY <1>6 DEF WriteSuggestion
  <2>3. /\ run'[r].at = "reported" /\ run'[r].id = id
        /\ \A q \in Runs \ {r} : run'[q] = run[q]
    BY <1>1, <1>6 DEF WriteSuggestion, TypeOK, RunStates
  <2>4. pending'[id] = r /\ \A i \in Ids \ {id} : pending'[i] = pending[i]
    BY <1>1, <2>1, <2>2 DEF TypeOK
  <2> HIDE DEF id
  <2>5. Owned'
    <3>1. \A q \in Runs : run[q].at \in {"silent", "reported"} => run'[q] = run[q]
      BY <2>1, <2>3
    <3>2. \A i \in Ids : \A f \in {pending'[i], archive'[i]} : f \in Runs =>
            run'[f].at = "reported" /\ run'[f].id = i
      BY <1>1, <2>2, <2>3, <2>4, <3>1 DEF Owned
    <3>3. \A i \in Ids : \A f \in {pending'[i], archive'[i]} : f = Torn =>
            \E q \in Runs : run'[q].at = "silent" /\ run'[q].id = i
      <4> SUFFICES ASSUME NEW i \in Ids, Torn \in {pending'[i], archive'[i]}
                   PROVE  \E q \in Runs : run'[q].at = "silent" /\ run'[q].id = i
        OBVIOUS
      <4>1. Torn \in {pending[i], archive[i]}
        BY <1>3, <2>2, <2>4
      <4>2. PICK q \in Runs : run[q].at = "silent" /\ run[q].id = i
        BY <1>1, <4>1 DEF Owned
      <4>3. QED
        BY <3>1, <4>2
    <3>4. \A q \in Runs : run'[q].at = "running" => run'[q].id = Absent
      BY <1>1, <2>3 DEF Owned
    <3>5. QED
      BY <3>2, <3>3, <3>4 DEF Owned
  <2>6. ASSUME NEW q \in Runs, run'[q].at = "reported"
        PROVE  \/ q \in {pending'[run'[q].id], archive'[run'[q].id]}
               \/ \E t \in Runs \ {q} : run'[t].id = run'[q].id
    <3>1. CASE q = r
      BY <2>3, <2>4, <3>1
    <3>2. CASE q # r /\ run[q].id = id
      BY <2>3, <3>2
    <3>3. CASE q # r /\ run[q].id # id
      <4>1. run'[q] = run[q] /\ run[q].at = "reported" /\ run[q].id \in Ids
        BY <1>1, <2>3, <2>6, <3>3 DEF TypeOK
      <4>2. pending'[run[q].id] = pending[run[q].id] /\ archive' = archive
        BY <2>2, <2>4, <3>3, <4>1
      <4>3. \A t \in Runs : run'[t].id = run[t].id
        BY <2>3 DEF id
      <4>4. QED
        BY <1>1, <4>1, <4>2, <4>3 DEF UnderOwnId
    <3>4. QED
      BY <3>1, <3>2, <3>3
  <2>7. QED
    BY <2>5, <2>6 DEF UnderOwnId
<1>7. ASSUME NEW r \in Runs, CrashRun(r) PROVE Owned' /\ UnderOwnId'
  <2> DEFINE id == run[r].id
  <2>1. id \in Ids /\ run[r].at = "writing" /\ archive' = archive
    BY <1>1, <1>7 DEF CrashRun, TypeOK
  <2>2. /\ run'[r].at = "silent" /\ run'[r].id = id
        /\ \A q \in Runs \ {r} : run'[q] = run[q]
    BY <1>1, <1>7 DEF CrashRun, TypeOK, RunStates
  <2>3. \A i \in Ids \ {id} : pending'[i] = pending[i]
    BY <1>1, <1>7, <2>1 DEF CrashRun, TypeOK
  <2>4. pending'[id] \in {pending[id], Torn}
    BY <1>1, <1>7, <2>1 DEF CrashRun, TypeOK
  <2> HIDE DEF id
  <2>5. Owned'
    <3>1. \A q \in Runs : run[q].at \in {"silent", "reported"} => run'[q] = run[q]
      BY <2>1, <2>2
    <3>2. \A i \in Ids : \A f \in {pending'[i], archive'[i]} : f \in Runs =>
            run'[f].at = "reported" /\ run'[f].id = i
      BY <1>1, <1>3, <2>1, <2>3, <2>4, <3>1 DEF Owned
    <3>3. \A i \in Ids : \A f \in {pending'[i], archive'[i]} : f = Torn =>
            \E q \in Runs : run'[q].at = "silent" /\ run'[q].id = i
      <4> SUFFICES ASSUME NEW i \in Ids, Torn \in {pending'[i], archive'[i]}
                   PROVE  \E q \in Runs : run'[q].at = "silent" /\ run'[q].id = i
        OBVIOUS
      <4>1. CASE i = id
        BY <2>2, <4>1
      <4>2. CASE i # id
        <5>1. PICK q \in Runs : run[q].at = "silent" /\ run[q].id = i
          BY <1>1, <2>1, <2>3, <4>2 DEF Owned
        <5>2. QED
          BY <3>1, <5>1
      <4>3. QED
        BY <4>1, <4>2
    <3>4. \A q \in Runs : run'[q].at = "running" => run'[q].id = Absent
      BY <1>1, <2>2 DEF Owned
    <3>5. QED
      BY <3>2, <3>3, <3>4 DEF Owned
  <2>6. ASSUME NEW q \in Runs, run'[q].at = "reported"
        PROVE  \/ q \in {pending'[run'[q].id], archive'[run'[q].id]}
               \/ \E t \in Runs \ {q} : run'[t].id = run'[q].id
    <3>1. q # r /\ run'[q] = run[q] /\ run[q].at = "reported" /\ run[q].id \in Ids
      BY <1>1, <2>2, <2>6 DEF TypeOK
    <3>2. CASE run[q].id = id
      BY <2>2, <3>1, <3>2
    <3>3. CASE run[q].id # id
      <4>1. pending'[run[q].id] = pending[run[q].id] /\ archive' = archive
        BY <2>1, <2>3, <3>1, <3>3
      <4>2. \A t \in Runs : run'[t].id = run[t].id
        BY <2>2 DEF id
      <4>3. QED
        BY <1>1, <3>1, <4>1, <4>2 DEF UnderOwnId
    <3>4. QED
      BY <3>2, <3>3
  <2>7. QED
    BY <2>5, <2>6 DEF UnderOwnId
<1>8. ASSUME NEW c \in Clerks, Archive(c) PROVE Owned' /\ UnderOwnId'
  <2> DEFINE id == clerk[c].id
  <2>1. id \in Ids /\ run' = run
    BY <1>1, <1>8 DEF Archive, TypeOK
  <2>2. CASE pending[id] = Absent
    BY <1>1, <1>8, <2>1, <2>2 DEF Archive, Owned, UnderOwnId
  <2>3. CASE pending[id] # Absent
    <3>1. /\ archive'[id] = pending[id] /\ pending'[id] = Absent
          /\ \A i \in Ids \ {id} : archive'[i] = archive[i] /\ pending'[i] = pending[i]
      BY <1>1, <1>8, <2>1, <2>3 DEF Archive, TypeOK
    <3> HIDE DEF id
    <3>2. Owned'
      <4>1. ASSUME NEW i \in Ids, NEW f \in {pending'[i], archive'[i]}
            PROVE  f \in {pending[i], archive[i]} \/ f = Absent
        BY <2>1, <3>1
      <4>2. QED
        BY <1>1, <1>3, <2>1, <4>1 DEF Owned
    <3>3. ASSUME NEW q \in Runs, run[q].at = "reported"
          PROVE  \/ q \in {pending'[run[q].id], archive'[run[q].id]}
                 \/ \E t \in Runs \ {q} : run[t].id = run[q].id
      <4>1. run[q].id \in Ids
        BY <1>1, <3>3 DEF TypeOK
      <4>2. CASE run[q].id # id
        BY <1>1, <3>1, <3>3, <4>1, <4>2 DEF UnderOwnId
      <4>3. CASE run[q].id = id /\ pending[id] = q
        BY <3>1, <4>3
      <4>4. CASE run[q].id = id /\ pending[id] \in Runs \ {q}
        BY <1>1, <2>1, <4>4 DEF Owned
      <4>5. CASE run[q].id = id /\ pending[id] = Torn
        <5>1. PICK t \in Runs : run[t].at = "silent" /\ run[t].id = id
          BY <1>1, <2>1, <4>5 DEF Owned
        <5>2. QED
          BY <3>3, <4>5, <5>1
      <4>6. pending[id] \in Runs \/ pending[id] = Torn
        BY <1>1, <2>1, <2>3 DEF TypeOK
      <4>7. QED
        BY <4>2, <4>3, <4>4, <4>5, <4>6
    <3>4. QED
      BY <2>1, <3>2, <3>3 DEF UnderOwnId
  <2>4. QED
    BY <2>2, <2>3
<1>9. CASE UNCHANGED <<pending, archive, run>>
  BY <1>1, <1>9 DEF Owned, UnderOwnId
<1>10. ASSUME NEW c \in Clerks,
              \/ LoadSuggestion(c) \/ ReadMemory(c) \/ TruncateMemory(c)
              \/ FillMemory(c) \/ CrashClerk(c)
       PROVE  Owned' /\ UnderOwnId'
  BY <1>9, <1>10 DEF LoadSuggestion, ReadMemory, TruncateMemory, FillMemory, CrashClerk
<1>11. CASE UNCHANGED vars
  BY <1>9, <1>11 DEF vars
<1>12. QED
  BY <1>4, <1>5, <1>6, <1>7, <1>8, <1>10, <1>11 DEF Next

LEMMA SurvivalInvSurvives == SurvivalInv => SuggestionsSurvive
<1>1. ASSUME SurvivalInv, NEW r \in Runs, run[r].at = "reported"
      PROVE  run[r].id \in Ids
  BY <1>1 DEF SurvivalInv, TypeOK
<1>2. QED
  BY <1>1 DEF SurvivalInv, UnderOwnId, SuggestionsSurvive

(* A suggestion that a run reported stays on disk, for any number of runs, *)
(* of accepts that interleave and of kills: only a run that ended with the *)
(* same id can take its place.                                             *)
THEOREM ReportedSuggestionsSurvive == Spec => []SuggestionsSurvive
<1>1. QED
  BY SurvivalInvInitially, SurvivalInvPreserved, SurvivalInvSurvives, PTL DEF Spec
----------------------------------------------------------------------------
(* Facts about logs, that is, sequences to which entries are appended.     *)

LEMMA ToSetOfAppend ==
  ASSUME NEW S, NEW s \in Seq(S), NEW e \in S
  PROVE  ToSet(Append(s, e)) = ToSet(s) \union {e}
<1> DEFINE t == Append(s, e)
<1>1. /\ t \in Seq(S) /\ Len(t) = Len(s) + 1 /\ t[Len(s) + 1] = e
      /\ \A i \in 1 .. Len(s) : t[i] = s[i]
  BY AppendProperties
<1>2. DOMAIN s = 1 .. Len(s) /\ Len(s) \in Nat /\ DOMAIN t = 1 .. Len(t)
  BY <1>1, LenProperties
<1> HIDE DEF t
<1>3. ASSUME NEW x \in ToSet(t) PROVE x \in ToSet(s) \union {e}
  <2>1. PICK i \in 1 .. Len(s) + 1 : t[i] = x
    BY <1>1, <1>2, <1>3 DEF ToSet
  <2>2. CASE i = Len(s) + 1
    BY <1>1, <2>1, <2>2
  <2>3. CASE i \in 1 .. Len(s)
    BY <1>1, <1>2, <2>1, <2>3 DEF ToSet
  <2>4. QED
    BY <1>2, <2>2, <2>3
<1>4. ToSet(s) \subseteq ToSet(t)
  BY <1>1, <1>2 DEF ToSet
<1>5. e \in ToSet(t)
  BY <1>1, <1>2 DEF ToSet
<1>6. QED
  BY <1>3, <1>4, <1>5 DEF t

(* A beginning of a log is one of the longer log too.                      *)
LEMMA PrefixOfAppend ==
  ASSUME NEW S, NEW p \in Seq(S), NEW s \in Seq(S), NEW e \in S, IsPrefix(p, s)
  PROVE  IsPrefix(p, Append(s, e))
<1> DEFINE t == Append(s, e)
<1>1. /\ t \in Seq(S) /\ Len(t) = Len(s) + 1
      /\ \A i \in 1 .. Len(s) : t[i] = s[i]
  BY AppendProperties
<1>2. Len(p) \in Nat /\ Len(s) \in Nat /\ Len(p) <= Len(s)
  BY LenProperties DEF IsPrefix
<1> HIDE DEF t
<1>3. SubSeq(t, 1, Len(p)) = SubSeq(s, 1, Len(p))
  <2>1. \A i \in 1 .. Len(p) : t[i] = s[i] /\ s[i] \in S
    BY <1>1, <1>2, ElementOfSeq
  <2>2. /\ SubSeq(t, 1, Len(p)) \in Seq(S) /\ Len(SubSeq(t, 1, Len(p))) = Len(p)
        /\ \A i \in 1 .. Len(p) : SubSeq(t, 1, Len(p))[i] = t[i]
    <3>1. \A i \in 1 .. Len(p) : t[i] \in S
      BY <2>1
    <3>2. QED
      BY <1>2, <3>1, SubSeqProperties
  <2>3. /\ SubSeq(s, 1, Len(p)) \in Seq(S) /\ Len(SubSeq(s, 1, Len(p))) = Len(p)
        /\ \A i \in 1 .. Len(p) : SubSeq(s, 1, Len(p))[i] = s[i]
    BY <1>2, <2>1, SubSeqProperties
  <2>4. QED
    BY <2>1, <2>2, <2>3, SeqEqual
<1>4. IsPrefix(p, t)
  BY <1>1, <1>2, <1>3 DEF IsPrefix
<1>5. QED
  BY <1>4 DEF t

(* Nothing and the whole of it are beginnings of a log.                    *)
LEMMA PrefixTrivially ==
  ASSUME NEW S, NEW s \in Seq(S)
  PROVE  IsPrefix(<<>>, s) /\ IsPrefix(s, s)
<1>1. Len(<<>>) = 0 /\ Len(s) \in Nat
  BY EmptySeq, LenProperties
<1>2. SubSeq(s, 1, 0) = <<>> /\ SubSeq(<<>>, 1, 0) = <<>>
  BY SubSeqEmpty
<1>3. QED
  BY <1>1, <1>2 DEF IsPrefix
----------------------------------------------------------------------------
(* No two accepts at once.                                                 *)
OneAtATime == \A c, d \in Clerks : c = d

(* With one accept at a time, until a kill: only reported suggestions are  *)
(* in the log; one that is pending is not, unless its accept has only to   *)
(* move the file; and what an accept holds is what it needs to append.     *)
LogInv ==
  /\ \A r \in Runs : r \in ToSet(LogOf) => run[r].at = "reported"
  /\ \A id \in Ids : pending[id] \in Runs /\ pending[id] \in ToSet(LogOf) =>
       \E c \in Clerks : clerk[c].at = "filled" /\ clerk[c].id = id
  /\ \A c \in Clerks :
       /\ clerk[c].at # "idle" =>
            run[clerk[c].entry].at = "reported" /\ run[clerk[c].entry].id = clerk[c].id
       /\ clerk[c].at \in {"loaded", "read", "truncated"} => clerk[c].entry \notin ToSet(LogOf)
       /\ clerk[c].at = "read" => clerk[c].text = memory
       /\ clerk[c].at = "truncated" => memory = <<>>
       /\ clerk[c].at = "filled" => clerk[c].entry \in ToSet(LogOf)

LEMMA LogOfOneClerk ==
  ASSUME OneAtATime, NEW c \in Clerks
  PROVE  LogOf = IF clerk[c].at = "truncated" THEN clerk[c].text ELSE memory
BY DEF OneAtATime, LogOf, Rewriting

LEMMA LogOfOneClerkNext ==
  ASSUME OneAtATime, NEW c \in Clerks
  PROVE  LogOf' = IF clerk'[c].at = "truncated" THEN clerk'[c].text ELSE memory'
BY DEF OneAtATime, LogOf, Rewriting

(* The log is a file's text.                                               *)
LEMMA LogOfTyped ==
  ASSUME TypeOK
  PROVE  LogOf \in Seq(Runs \union {Notes})
BY DEF TypeOK, ClerkStates, LogOf, Rewriting

LEMMA LogInvInitially ==
  ASSUME Init
  PROVE  LogInv /\ ToSet(LogOf) \intersect Runs = {}
<1>1. \A c \in Clerks : clerk[c].at = "idle"
  BY IdleClerkTyped DEF Init
<1>2. LogOf = memory
  BY <1>1 DEF LogOf, Rewriting
<1>3. ToSet(memory) \subseteq {Notes}
  BY DEF Init, ToSet
<1>4. ToSet(LogOf) \intersect Runs = {}
  BY <1>2, <1>3, StoreConstants
<1>5. QED
  BY <1>1, <1>4 DEF LogInv

(* Runs that are on their way do not touch the log.                        *)
LEMMA RunStepKeepsLog ==
  ASSUME TypeOK, LogInv, UNCHANGED <<memory, clerk>>,
         \A r \in Runs : run[r].at = "reported" => run'[r] = run[r],
         \A id \in Ids : pending'[id] \in Runs =>
           pending'[id] = pending[id] \/ run[pending'[id]].at # "reported"
  PROVE  LogInv' /\ LogOf' = LogOf
<1>1. LogOf' = LogOf
  BY DEF LogOf, Rewriting
<1>2. \A r \in Runs : r \in ToSet(LogOf') => run'[r].at = "reported"
  BY <1>1 DEF LogInv
<1>3. ASSUME NEW id \in Ids, pending'[id] \in Runs, pending'[id] \in ToSet(LogOf')
      PROVE  \E c \in Clerks : clerk'[c].at = "filled" /\ clerk'[c].id = id
  BY <1>1, <1>3 DEF LogInv
<1>4. ASSUME NEW c \in Clerks
      PROVE  /\ clerk'[c].at # "idle" =>
                  /\ run'[clerk'[c].entry].at = "reported"
                  /\ run'[clerk'[c].entry].id = clerk'[c].id
             /\ clerk'[c].at \in {"loaded", "read", "truncated"} =>
                  clerk'[c].entry \notin ToSet(LogOf')
             /\ clerk'[c].at = "read" => clerk'[c].text = memory'
             /\ clerk'[c].at = "truncated" => memory' = <<>>
             /\ clerk'[c].at = "filled" => clerk'[c].entry \in ToSet(LogOf')
  BY <1>1 DEF LogInv, TypeOK
<1>5. QED
  BY <1>1, <1>2, <1>3, <1>4 DEF LogInv

(* Where the one clerk moves on and the log stays, the clerk's part of the *)
(* invariant is what there is to show.                                     *)
LEMMA ClerkStepKeepsLog ==
  ASSUME OneAtATime, LogInv, NEW c \in Clerks, run' = run, LogOf' = LogOf,
         \A id \in Ids : pending'[id] \in Runs /\ pending'[id] \in ToSet(LogOf) =>
           clerk'[c].at = "filled" /\ clerk'[c].id = id,
         clerk'[c].at # "idle" =>
           run[clerk'[c].entry].at = "reported" /\ run[clerk'[c].entry].id = clerk'[c].id,
         clerk'[c].at \in {"loaded", "read", "truncated"} =>
           clerk'[c].entry \notin ToSet(LogOf),
         clerk'[c].at = "read" => clerk'[c].text = memory',
         clerk'[c].at = "truncated" => memory' = <<>>,
         clerk'[c].at = "filled" => clerk'[c].entry \in ToSet(LogOf)
  PROVE  LogInv'
<1>1. \A d \in Clerks : d = c
  BY DEF OneAtATime
<1>2. QED
  BY <1>1 DEF LogInv

(* One accept at a time appends an entry that the log lacks, or leaves it  *)
(* as it is.                                                               *)
LEMMA LogStep ==
  ASSUME OneAtATime, SurvivalInv, LogInv, Next, crashes' = crashes
  PROVE  /\ LogInv'
         /\ \/ LogOf' = LogOf
            \/ \E r \in Runs :
                 /\ run[r].at = "reported" /\ r \notin ToSet(LogOf)
                 /\ LogOf' = Append(LogOf, r) /\ run' = run
<1> DEFINE Goal == /\ LogInv'
                   /\ \/ LogOf' = LogOf
                      \/ \E r \in Runs :
                           /\ run[r].at = "reported" /\ r \notin ToSet(LogOf)
                           /\ LogOf' = Append(LogOf, r) /\ run' = run
<1>1. TypeOK /\ Owned
  BY DEF SurvivalInv
<1>2. ASSUME NEW r \in Runs, SkipSuggestion(r) PROVE Goal
  <2>1. \A q \in Runs : run[q].at = "reported" => run'[q] = run[q]
    BY <1>1, <1>2 DEF SkipSuggestion, TypeOK
  <2>2. UNCHANGED <<memory, clerk, pending>>
    BY <1>2 DEF SkipSuggestion
  <2>3. QED
    BY <1>1, <2>1, <2>2, RunStepKeepsLog
<1>3. ASSUME NEW r \in Runs, CheckId(r) PROVE Goal
  <2>1. \A q \in Runs : run[q].at = "reported" => run'[q] = run[q]
    BY <1>1, <1>3 DEF CheckId, TypeOK
  <2>2. UNCHANGED <<memory, clerk, pending>>
    BY <1>3 DEF CheckId
  <2>3. QED
    BY <1>1, <2>1, <2>2, RunStepKeepsLog
<1>4. ASSUME NEW r \in Runs, WriteSuggestion(r) PROVE Goal
  <2>1. \A q \in Runs : run[q].at = "reported" => run'[q] = run[q]
    BY <1>1, <1>4 DEF WriteSuggestion, TypeOK
  <2>2. UNCHANGED <<memory, clerk>>
    BY <1>4 DEF WriteSuggestion
  <2>3. \A id \in Ids : pending'[id] = pending[id] \/ pending'[id] = r
    BY <1>1, <1>4 DEF WriteSuggestion, TypeOK
  <2>4. run[r].at # "reported"
    BY <1>4 DEF WriteSuggestion
  <2>5. QED
    BY <1>1, <2>1, <2>2, <2>3, <2>4, RunStepKeepsLog
<1>5. ASSUME NEW c \in Clerks, LoadSuggestion(c) PROVE Goal
  <2>1. PICK id \in Ids :
          /\ pending[id] \in Runs
          /\ clerk' = [clerk EXCEPT ![c] =
                         [IdleClerk EXCEPT !.at = "loaded", !.id = id, !.entry = pending[id]]]
    BY <1>5 DEF LoadSuggestion
  <2>2. clerk[c].at = "idle" /\ UNCHANGED <<pending, memory, run>>
    BY <1>5 DEF LoadSuggestion
  <2>3. clerk'[c].at = "loaded" /\ clerk'[c].id = id /\ clerk'[c].entry = pending[id]
    BY <1>1, <2>1, IdleClerkTyped DEF TypeOK, ClerkStates, IdleClerk
  <2>4. LogOf = memory /\ LogOf' = memory
    BY <2>2, <2>3, LogOfOneClerk, LogOfOneClerkNext
  <2>5. \A i \in Ids : ~(pending[i] \in Runs /\ pending[i] \in ToSet(LogOf))
    BY <2>2 DEF LogInv, OneAtATime
  <2>6. run[pending[id]].at = "reported" /\ run[pending[id]].id = id
    BY <1>1, <2>1 DEF Owned
  <2>7. LogInv'
    BY <2>1, <2>2, <2>3, <2>4, <2>5, <2>6, ClerkStepKeepsLog
  <2>8. QED
    BY <2>4, <2>7
<1>6. ASSUME NEW c \in Clerks, ReadMemory(c) PROVE Goal
  <2>1. /\ clerk'[c].at = "read" /\ clerk'[c].text = memory
        /\ clerk'[c].id = clerk[c].id /\ clerk'[c].entry = clerk[c].entry
    BY <1>1, <1>6 DEF ReadMemory, TypeOK, ClerkStates
  <2>2. clerk[c].at = "loaded" /\ UNCHANGED <<pending, memory, run>>
    BY <1>6 DEF ReadMemory
  <2>3. LogOf = memory /\ LogOf' = memory
    BY <2>1, <2>2, LogOfOneClerk, LogOfOneClerkNext
  <2>4. \A i \in Ids : ~(pending[i] \in Runs /\ pending[i] \in ToSet(LogOf))
    BY <2>2 DEF LogInv, OneAtATime
  <2>5. /\ run[clerk[c].entry].at = "reported" /\ run[clerk[c].entry].id = clerk[c].id
        /\ clerk[c].entry \notin ToSet(LogOf)
    BY <2>2 DEF LogInv
  <2>6. LogInv'
    BY <2>1, <2>2, <2>3, <2>4, <2>5, ClerkStepKeepsLog
  <2>7. QED
    BY <2>3, <2>6
<1>7. ASSUME NEW c \in Clerks, TruncateMemory(c) PROVE Goal
  <2>1. /\ clerk'[c].at = "truncated" /\ clerk'[c].text = clerk[c].text
        /\ clerk'[c].id = clerk[c].id /\ clerk'[c].entry = clerk[c].entry
    BY <1>1, <1>7 DEF TruncateMemory, TypeOK, ClerkStates
  <2>2. clerk[c].at = "read" /\ UNCHANGED <<pending, run>> /\ memory' = <<>>
    BY <1>7 DEF TruncateMemory
  <2>3. clerk[c].text = memory
    BY <2>2 DEF LogInv
  <2>4. LogOf = memory /\ LogOf' = memory
    BY <2>1, <2>2, <2>3, LogOfOneClerk, LogOfOneClerkNext
  <2>5. \A i \in Ids : ~(pending[i] \in Runs /\ pending[i] \in ToSet(LogOf))
    BY <2>2 DEF LogInv, OneAtATime
  <2>6. /\ run[clerk[c].entry].at = "reported" /\ run[clerk[c].entry].id = clerk[c].id
        /\ clerk[c].entry \notin ToSet(LogOf)
    BY <2>2 DEF LogInv
  <2>7. LogInv'
    BY <2>1, <2>2, <2>4, <2>5, <2>6, ClerkStepKeepsLog
  <2>8. QED
    BY <2>4, <2>7
<1>8. ASSUME NEW c \in Clerks, FillMemory(c) PROVE Goal
  <2> DEFINE e == clerk[c].entry
  <2>1. /\ clerk'[c].at = "filled"
        /\ clerk'[c].id = clerk[c].id /\ clerk'[c].entry = e
    BY <1>1, <1>8 DEF FillMemory, TypeOK, ClerkStates
  <2>2. clerk[c].at = "truncated" /\ UNCHANGED <<pending, run>>
    BY <1>8 DEF FillMemory
  <2>3. memory' = Append(clerk[c].text, e)
    BY <1>8 DEF FillMemory, NewText
  <2>4. LogOf = clerk[c].text /\ LogOf' = Append(LogOf, e)
    BY <2>1, <2>2, <2>3, LogOfOneClerk, LogOfOneClerkNext
  <2>5. e \in Runs /\ LogOf \in Seq(Runs \union {Notes})
    BY <1>1, <2>2, LogOfTyped DEF TypeOK
  <2>6. ToSet(LogOf') = ToSet(LogOf) \union {e}
    BY <2>4, <2>5, ToSetOfAppend
  <2>7. /\ run[e].at = "reported" /\ run[e].id = clerk[c].id /\ e \notin ToSet(LogOf)
    BY <2>2 DEF LogInv
  <2> HIDE DEF e
  <2>8. \A i \in Ids : ~(pending[i] \in Runs /\ pending[i] \in ToSet(LogOf))
    BY <2>2 DEF LogInv, OneAtATime
  <2>9. \A i \in Ids : pending[i] = e => i = clerk[c].id
    BY <1>1, <2>5, <2>7 DEF Owned
  <2>10. \A d \in Clerks : d = c
    BY DEF OneAtATime
  <2>11. \A r \in Runs : r \in ToSet(LogOf') => run'[r].at = "reported"
    BY <2>2, <2>6, <2>7 DEF LogInv
  <2>12. \A i \in Ids : pending'[i] \in Runs /\ pending'[i] \in ToSet(LogOf') =>
           clerk'[c].at = "filled" /\ clerk'[c].id = i
    BY <2>1, <2>2, <2>6, <2>8, <2>9
  <2>13. LogInv'
    BY <2>1, <2>2, <2>6, <2>7, <2>10, <2>11, <2>12 DEF LogInv
  <2>14. QED
    BY <2>2, <2>4, <2>5, <2>7, <2>13
<1>9. ASSUME NEW c \in Clerks, Archive(c) PROVE Goal
  <2>1. clerk[c].at = "filled" /\ UNCHANGED <<memory, run>> /\ clerk[c].id \in Ids
    BY <1>1, <1>9 DEF Archive, TypeOK
  <2>2. clerk'[c].at = "idle"
    BY <1>1, <1>9, IdleClerkTyped DEF Archive, TypeOK
  <2>3. LogOf = memory /\ LogOf' = memory
    BY <2>1, <2>2, LogOfOneClerk, LogOfOneClerkNext
  <2>4. pending'[clerk[c].id] = Absent /\ \A i \in Ids \ {clerk[c].id} : pending'[i] = pending[i]
    BY <1>1, <1>9, <2>1 DEF Archive, TypeOK
  <2>5. \A i \in Ids : pending[i] \in Runs /\ pending[i] \in ToSet(LogOf) => i = clerk[c].id
    BY DEF LogInv, OneAtATime
  <2>6. \A i \in Ids : ~(pending'[i] \in Runs /\ pending'[i] \in ToSet(LogOf))
    BY <2>4, <2>5, StoreConstants
  <2>7. LogInv'
    BY <2>1, <2>2, <2>3, <2>6, ClerkStepKeepsLog
  <2>8. QED
    BY <2>3, <2>7
<1>10. ~\E r \in Runs : CrashRun(r)
  BY <1>1 DEF CrashRun, TypeOK
<1>11. ~\E c \in Clerks : CrashClerk(c)
  BY <1>1 DEF CrashClerk, TypeOK
<1>12. QED
  BY <1>2, <1>3, <1>4, <1>5, <1>6, <1>7, <1>8, <1>9, <1>10, <1>11 DEF Next

Reported == {r \in Runs : run[r].at = "reported"}

(* Suggestions are offered one by one, and the log stays as it is.         *)
LEMMA OfferStep ==
  ASSUME TypeOK, Next
  PROVE  \/ Reported' = Reported
         \/ LogOf' = LogOf /\ \E r \in Runs \ Reported : Reported' = Reported \union {r}
<1>1. ASSUME NEW r \in Runs, WriteSuggestion(r)
      PROVE  LogOf' = LogOf /\ \E q \in Runs \ Reported : Reported' = Reported \union {q}
  <2>1. /\ run[r].at = "writing" /\ run'[r].at = "reported"
        /\ \A q \in Runs \ {r} : run'[q] = run[q]
    BY <1>1 DEF WriteSuggestion, TypeOK, RunStates
  <2>2. LogOf' = LogOf
    BY <1>1 DEF WriteSuggestion, LogOf, Rewriting
  <2>3. r \in Runs \ Reported /\ Reported' = Reported \union {r}
    BY <2>1 DEF Reported
  <2>4. QED
    BY <2>2, <2>3
<1>2. CASE run' = run
  BY <1>2 DEF Reported
<1>3. ASSUME NEW r \in Runs, SkipSuggestion(r) \/ CheckId(r) \/ CrashRun(r)
      PROVE  Reported' = Reported
  <2>1. run[r].at \in {"running", "writing"} /\ run'[r].at \in {"writing", "silent"}
    BY <1>3 DEF SkipSuggestion, CheckId, CrashRun, TypeOK, RunStates
  <2>2. \A q \in Runs \ {r} : run'[q] = run[q]
    BY <1>3 DEF SkipSuggestion, CheckId, CrashRun, TypeOK
  <2>3. QED
    BY <2>1, <2>2 DEF Reported
<1>4. ASSUME NEW c \in Clerks,
             \/ LoadSuggestion(c) \/ ReadMemory(c) \/ TruncateMemory(c)
             \/ FillMemory(c) \/ Archive(c) \/ CrashClerk(c)
      PROVE  run' = run
  BY <1>4 DEF LoadSuggestion, ReadMemory, TruncateMemory, FillMemory, Archive, CrashClerk
<1>5. QED
  BY <1>1, <1>2, <1>3, <1>4 DEF Next

(* Kills are only counted up.                                              *)
LEMMA CrashesOnlyGrow ==
  ASSUME TypeOK, Next
  PROVE  crashes' = crashes \/ (crashes' = crashes + 1 /\ crashes' # 0)
<1>1. crashes' = crashes \/ crashes' = crashes + 1
  BY DEF Next, SkipSuggestion, CheckId, WriteSuggestion, CrashRun, LoadSuggestion,
         ReadMemory, TruncateMemory, FillMemory, Archive, CrashClerk
<1>2. QED
  BY <1>1 DEF TypeOK
----------------------------------------------------------------------------
(* Runs that end in different seconds have different ids.                  *)
DistinctIds ==
  \A r, s \in Runs : run[r].id \in Ids /\ run[r].id = run[s].id => r = s

(* The pending file of an accept under way is the one it loaded, and what  *)
(* was archived is in the log.                                             *)
RecordInv ==
  /\ \A c \in Clerks : clerk[c].at # "idle" => pending[clerk[c].id] = clerk[c].entry
  /\ \A id \in Ids : archive[id] # Absent => archive[id] \in ToSet(LogOf)

LEMMA DistinctIdsPreserved ==
  ASSUME SameSecond = FALSE, TypeOK, DistinctIds, [Next]_vars
  PROVE  DistinctIds'
<1>1. ASSUME NEW r \in Runs, CheckId(r) PROVE DistinctIds'
  <2>1. PICK id \in Ids :
          /\ \A s \in Runs : run[s].id # id
          /\ run' = [run EXCEPT ![r] =
               [at |-> IF pending[id] = Absent THEN "writing" ELSE "silent", id |-> id]]
    BY <1>1 DEF CheckId
  <2>2. run'[r].id = id /\ \A s \in Runs \ {r} : run'[s] = run[s]
    BY <2>1 DEF TypeOK
  <2>3. QED
    BY <2>1, <2>2 DEF DistinctIds
<1>2. CASE \A r \in Runs : run'[r].id = run[r].id
  BY <1>2 DEF DistinctIds
<1>3. ASSUME NEW r \in Runs, SkipSuggestion(r) \/ WriteSuggestion(r) \/ CrashRun(r)
      PROVE  DistinctIds'
  <2>1. \E at \in {"silent", "reported"} : run' = [run EXCEPT ![r].at = at]
    BY <1>3 DEF SkipSuggestion, WriteSuggestion, CrashRun
  <2>2. QED
    BY <1>2, <2>1 DEF TypeOK, RunStates
<1>4. ASSUME NEW c \in Clerks,
             \/ LoadSuggestion(c) \/ ReadMemory(c) \/ TruncateMemory(c)
             \/ FillMemory(c) \/ Archive(c) \/ CrashClerk(c)
      PROVE  DistinctIds'
  BY <1>2, <1>4 DEF LoadSuggestion, ReadMemory, TruncateMemory, FillMemory, Archive, CrashClerk
<1>5. CASE UNCHANGED vars
  BY <1>2, <1>5 DEF vars
<1>6. QED
  BY <1>1, <1>3, <1>4, <1>5 DEF Next

LEMMA RecordInvPreserved ==
  ASSUME OneAtATime, SurvivalInv, DistinctIds, LogInv, RecordInv, Next, crashes' = crashes
  PROVE  RecordInv'
<1>1. TypeOK /\ Owned
  BY DEF SurvivalInv
<1>2. ToSet(LogOf) \subseteq ToSet(LogOf')
  <2>1. CASE LogOf' = LogOf
    BY <2>1
  <2>2. ASSUME NEW r \in Runs, LogOf' = Append(LogOf, r)
        PROVE  ToSet(LogOf) \subseteq ToSet(LogOf')
    <3>1. LogOf \in Seq(Runs \union {Notes})
      BY <1>1, LogOfTyped
    <3>2. QED
      BY <2>2, <3>1, ToSetOfAppend
  <2>3. QED
    BY <2>1, <2>2, LogStep
<1>3. ASSUME UNCHANGED <<pending, archive>>,
             \A c \in Clerks : clerk'[c].at # "idle" =>
               pending[clerk'[c].id] = clerk'[c].entry
      PROVE  RecordInv'
  BY <1>2, <1>3 DEF RecordInv
<1>4. ASSUME NEW r \in Runs, SkipSuggestion(r) \/ CheckId(r) PROVE RecordInv'
  BY <1>3, <1>4 DEF SkipSuggestion, CheckId, RecordInv
<1>5. ASSUME NEW r \in Runs, WriteSuggestion(r) PROVE RecordInv'
  <2>1. /\ pending' = [pending EXCEPT ![run[r].id] = r] /\ UNCHANGED <<archive, clerk>>
        /\ run[r].at = "writing" /\ run[r].id \in Ids
    BY <1>1, <1>5 DEF WriteSuggestion, TypeOK
  <2>2. ASSUME NEW c \in Clerks, clerk[c].at # "idle"
        PROVE  pending'[clerk[c].id] = clerk[c].entry
    <3>1. clerk[c].id \in Ids /\ clerk[c].entry \in Runs
      BY <1>1, <2>2 DEF TypeOK
    <3>2. run[clerk[c].entry].at = "reported" /\ run[clerk[c].entry].id = clerk[c].id
      BY <2>2 DEF LogInv
    <3>3. run[r].id # clerk[c].id
      BY <2>1, <3>1, <3>2 DEF DistinctIds
    <3>4. QED
      BY <1>1, <2>1, <2>2, <3>1, <3>3 DEF RecordInv, TypeOK
  <2>3. QED
    BY <1>2, <2>1, <2>2 DEF RecordInv
<1>6. ASSUME NEW c \in Clerks, LoadSuggestion(c) PROVE RecordInv'
  <2>1. PICK id \in Ids :
          clerk' = [clerk EXCEPT ![c] =
                      [IdleClerk EXCEPT !.at = "loaded", !.id = id, !.entry = pending[id]]]
    BY <1>6 DEF LoadSuggestion
  <2>2. clerk'[c].id = id /\ clerk'[c].entry = pending[id]
    BY <1>1, <2>1 DEF TypeOK, IdleClerk
  <2>3. \A d \in Clerks : d = c
    BY DEF OneAtATime
  <2>4. QED
    BY <1>3, <1>6, <2>2, <2>3 DEF LoadSuggestion
<1>7. ASSUME NEW c \in Clerks, ReadMemory(c) \/ TruncateMemory(c) \/ FillMemory(c)
      PROVE  RecordInv'
  <2>1. clerk[c].at # "idle" /\ UNCHANGED <<pending, archive>>
    BY <1>7 DEF ReadMemory, TruncateMemory, FillMemory
  <2>2. clerk'[c].id = clerk[c].id /\ clerk'[c].entry = clerk[c].entry
    BY <1>1, <1>7 DEF ReadMemory, TruncateMemory, FillMemory, TypeOK, ClerkStates
  <2>3. \A d \in Clerks : d = c
    BY DEF OneAtATime
  <2>4. QED
    BY <1>3, <2>1, <2>2, <2>3 DEF RecordInv
<1>8. ASSUME NEW c \in Clerks, Archive(c) PROVE RecordInv'
  <2> DEFINE id == clerk[c].id
  <2>1. clerk[c].at = "filled" /\ id \in Ids /\ clerk[c].entry \in Runs
    BY <1>1, <1>8 DEF Archive, TypeOK
  <2>2. pending[id] = clerk[c].entry /\ clerk[c].entry \in ToSet(LogOf) /\ pending[id] # Absent
    BY <2>1, StoreConstants DEF RecordInv, LogInv
  <2>3. archive'[id] = clerk[c].entry /\ \A i \in Ids \ {id} : archive'[i] = archive[i]
    BY <1>1, <1>8, <2>1, <2>2 DEF Archive, TypeOK
  <2>4. \A d \in Clerks : clerk'[d].at = "idle"
    BY <1>1, <1>8, IdleClerkTyped DEF Archive, TypeOK, OneAtATime
  <2>5. QED
    BY <1>2, <2>2, <2>3, <2>4 DEF RecordInv
<1>9. ~\E r \in Runs : CrashRun(r)
  BY <1>1 DEF CrashRun, TypeOK
<1>10. ~\E c \in Clerks : CrashClerk(c)
  BY <1>1 DEF CrashClerk, TypeOK
<1>11. QED
  BY <1>4, <1>5, <1>6, <1>7, <1>8, <1>9, <1>10 DEF Next

(* While nothing was killed, what an accept archives is in the memory file *)
(* whenever nobody is halfway - if there is one accept at a time and no    *)
(* two runs end with the same id.  Where either fails, so does this.       *)
THEOREM ArchivedIsRecordedOneAtATime ==
  ASSUME OneAtATime, SameSecond = FALSE
  PROVE  Spec => [](crashes = 0 => ArchivedIsRecorded)
<1> DEFINE IInv == SurvivalInv /\ DistinctIds /\ (crashes = 0 => LogInv /\ RecordInv)
<1>1. Init => IInv
  <2> SUFFICES ASSUME Init PROVE IInv
    OBVIOUS
  <2>1. DistinctIds
    BY StoreConstants DEF Init, DistinctIds
  <2>2. RecordInv
    BY IdleClerkTyped DEF Init, RecordInv
  <2>3. QED
    BY <2>1, <2>2, SurvivalInvInitially, LogInvInitially
<1>2. IInv /\ [Next]_vars => IInv'
  <2> SUFFICES ASSUME IInv, [Next]_vars PROVE IInv'
    OBVIOUS
  <2>1. SurvivalInv' /\ DistinctIds'
    BY SurvivalInvPreserved, DistinctIdsPreserved DEF SurvivalInv
  <2>2. ASSUME crashes' = 0 PROVE crashes = 0
    <3>1. CASE Next
      BY <2>2, <3>1, CrashesOnlyGrow DEF SurvivalInv
    <3>2. CASE UNCHANGED vars
      BY <2>2, <3>2 DEF vars
    <3>3. QED
      BY <3>1, <3>2
  <2>3. ASSUME crashes' = 0 PROVE LogInv' /\ RecordInv'
    <3>1. CASE Next
      BY <2>2, <2>3, <3>1, LogStep, RecordInvPreserved
    <3>2. CASE UNCHANGED vars
      <4>1. LogOf' = LogOf
        BY <3>2 DEF vars, LogOf, Rewriting
      <4>2. QED
        BY <2>2, <2>3, <3>2, <4>1 DEF vars, LogInv, RecordInv
    <3>3. QED
      BY <3>1, <3>2
  <2>4. QED
    BY <2>1, <2>3
<1>3. IInv => (crashes = 0 => ArchivedIsRecorded)
  <2> SUFFICES ASSUME RecordInv, \A c \in Clerks : clerk[c].at = "idle"
               PROVE  \A id \in Ids : archive[id] # Absent => archive[id] \in ToSet(memory)
    BY DEF ArchivedIsRecorded
  <2>1. LogOf = memory
    BY DEF LogOf, Rewriting
  <2>2. QED
    BY <2>1 DEF RecordInv
<1>4. QED
  BY <1>1, <1>2, <1>3, PTL DEF Spec
=============================================================================
