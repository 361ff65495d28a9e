--------------------------- MODULE EnvEditsProofs ---------------------------
(* Proofs about the environment along a chain of processes, for any        *)
(* variables, values, depth cap and chain; and about the git recorder and  *)
(* its trace, for any calls, chunks and size of pipe.                      *)
EXTENDS EnvEdits, Trace, SequenceTheorems, FiniteSetTheorems, TLAPS

(* Reverting gives what the user wants, so the wrapper's entry restores    *)
(* exactly that, whatever happened before.                                 *)
LEMMA EnterRestores ==
  ASSUME env \in [Vars -> {Unset} \cup Value], want \in [Vars -> {Unset} \cup Value],
         Recoverable, Enter
  PROVE  env' = want
BY DEF Recoverable, Enter

(* One more entry makes a value of a value.                                *)
LEMMA OneEntry ==
  ASSUME NEW e \in Entry
  PROVE  /\ <<e>> \in Value /\ Len(<<e>>) = 1 /\ <<e>>[1] = e
BY DEF Value
LEMMA OneMore ==
  ASSUME NEW x \in Value, NEW e \in Entry
  PROVE  /\ Append(x, e) \in Value
         /\ Len(x) \in Nat /\ Len(Append(x, e)) = Len(x) + 1
         /\ \A i \in 1..Len(x) : Append(x, e)[i] = x[i]
         /\ Append(x, e)[Len(x) + 1] = e
BY AppendProperties DEF Value
LEMMA Entries ==
  /\ Own \in Entry <=> pid \in Nat
  /\ GitEntry \in Entry
  /\ Own[1] = "own" /\ GitEntry[1] = "user"
BY DEF Own, GitEntry, Entry

(* TypeOK in three parts, which the provers take one at a time.            *)
TypeOfPlaces ==
    /\ at \in {"script", "entry", "route", "gh", "not gh", "too deep"}
    /\ pid \in Nat /\ parent \in Nat
TypeOfValues ==
    /\ env \in [Vars -> {Unset} \cup Value] /\ want \in [Vars -> {Unset} \cup Value]
    /\ orig \in [Vars -> {Unset} \cup Value] /\ set \in [Vars -> {Unset} \cup Value]
    /\ saved \subseteq Vars
TypeOfCounts ==
    /\ launcher \in Nat /\ depth \in Nat /\ entered \in Nat
    /\ changes \in 0..MaxChanges

LEMMA PlacesStep ==
  ASSUME TypeOfPlaces, [Next]_vars
  PROVE  TypeOfPlaces'
<1>1. at' \in {"script", "entry", "route", "gh", "not gh", "too deep"}
  BY DEF Next, vars, Execs, Spawns, Refuse, Enter, Launch, StepAside,
     Delegate, GhIsTheWrapper, GhRunsScript, ScriptRunsWrapper, ScriptChanges,
     GitAppends, TypeOfPlaces
<1>2. \/ pid' = pid /\ parent' = parent
      \/ pid' = pid + 1 /\ parent' = pid
  BY Zenon DEF Next, vars, Execs, Spawns, Refuse, Enter, Launch, StepAside,
     Delegate, GhIsTheWrapper, GhRunsScript, ScriptRunsWrapper, ScriptChanges,
     GitAppends
<1>3. pid \in Nat /\ parent \in Nat
  BY DEF TypeOfPlaces
<1>4. pid + 1 \in Nat
  BY <1>3
<1>5. pid' \in Nat /\ parent' \in Nat
  BY <1>2, <1>3, <1>4, Zenon
<1>6. QED
  BY <1>1, <1>5 DEF TypeOfPlaces

LEMMA CountsStep ==
  ASSUME TypeOfCounts, TypeOfPlaces, [Next]_vars
  PROVE  TypeOfCounts'
<1> USE EnvAssumption DEF TypeOfCounts, book
<1>1. CASE Refuse \/ Delegate \/ GhIsTheWrapper \/ GhRunsScript \/ ScriptRunsWrapper
  BY <1>1 DEF Refuse, Delegate, GhIsTheWrapper, GhRunsScript, ScriptRunsWrapper
<1>2. CASE Enter
  BY <1>2 DEF Enter
<1>3. CASE Launch
  BY <1>3 DEF Launch, TypeOfPlaces
<1>4. CASE StepAside
  BY <1>4 DEF StepAside
<1>5. CASE ScriptChanges \/ GitAppends
  BY <1>5 DEF ScriptChanges, GitAppends
<1>6. CASE UNCHANGED vars
  BY <1>6 DEF vars
<1>7. QED
  BY <1>1, <1>2, <1>3, <1>4, <1>5, <1>6 DEF Next

LEMMA BooleanStep ==
  ASSUME asGh \in BOOLEAN, [Next]_vars
  PROVE  asGh' \in BOOLEAN
BY Zenon DEF Next, vars, Refuse, Enter, Launch, StepAside, Delegate,
  GhIsTheWrapper, GhRunsScript, ScriptRunsWrapper, ScriptChanges, GitAppends

LEMMA ValuesStep ==
  ASSUME TypeOfValues, TypeOfPlaces, Recoverable, [Next]_vars
  PROVE  TypeOfValues'
<1> USE DEF TypeOfValues, book
<1>1. CASE Refuse \/ Delegate \/ GhIsTheWrapper \/ GhRunsScript \/ ScriptRunsWrapper
  BY <1>1 DEF Refuse, Delegate, GhIsTheWrapper, GhRunsScript, ScriptRunsWrapper
<1>2. CASE Enter
  <2>1. env' = want
    BY <1>2, EnterRestores
  <2>2. QED
    BY <1>2, <2>1 DEF Enter
<1>3. CASE Launch
  <2>1. PICK host \in {{}, HostEdit} :
          Apply(LaunchEdits(SetVars \cup TokenVars \cup {Gcp} \cup host), {})
    BY <1>3 DEF Launch
  <2>2. \A v \in SetVars \cup TokenVars \cup {Gcp} \cup host :
          LaunchEdits(SetVars \cup TokenVars \cup {Gcp} \cup host)[v] \in {Unset} \cup Value
    <3>1. Own \in Entry
      BY Entries DEF TypeOfPlaces
    <3>2. <<Own>> \in Value
      BY <3>1, OneEntry
    <3>3. Gcp \in Vars
      BY DEF Vars
    <3>4. env[Gcp] # Unset => Append(env[Gcp], Own) \in Value
      BY <3>1, <3>3, OneMore
    <3>5. QED
      BY <3>2, <3>4, EnvAssumption DEF LaunchEdits
  <2>3. SetVars \cup TokenVars \cup {Gcp} \cup host \subseteq Vars
    BY DEF HostEdit, Vars
  <2>4. DOMAIN LaunchEdits(SetVars \cup TokenVars \cup {Gcp} \cup host)
          = SetVars \cup TokenVars \cup {Gcp} \cup host
    BY DEF LaunchEdits
  <2>5. want' = want
    BY <1>3 DEF Launch
  <2>6. QED
    BY <2>1, <2>2, <2>3, <2>4, <2>5 DEF Apply
<1>4. CASE StepAside
  <2>1. Apply([v \in HostEdit |-> ForgeHost], TokenVars)
    BY <1>4 DEF StepAside
  <2>2. HostEdit \subseteq Vars
    BY DEF HostEdit, Vars
  <2>3. want' \in [Vars -> {Unset} \cup Value]
    BY <1>4 DEF StepAside
  <2>4. QED
    BY <2>1, <2>2, <2>3, EnvAssumption DEF Apply
<1>5. CASE ScriptChanges
  BY <1>5, EnvAssumption DEF ScriptChanges
<1>6. CASE GitAppends
  <2>1. \A x \in {Unset} \cup Value : After(x) \in Value
    BY Entries, OneEntry, OneMore DEF After
  <2>2. QED
    BY <1>6, <2>1 DEF GitAppends
<1>7. CASE UNCHANGED vars
  BY <1>7 DEF vars
<1>8. QED
  BY <1>1, <1>2, <1>3, <1>4, <1>5, <1>6, <1>7 DEF Next

LEMMA TypeStep ==
  ASSUME IInv, [Next]_vars
  PROVE  TypeOK'
<1>1. TypeOfPlaces /\ TypeOfValues /\ TypeOfCounts /\ asGh \in BOOLEAN /\ Recoverable
  BY DEF IInv, TypeOK, TypeOfPlaces, TypeOfValues, TypeOfCounts
<1>2. TypeOfPlaces' /\ TypeOfValues' /\ TypeOfCounts'
  BY <1>1, PlacesStep, ValuesStep, CountsStep
<1>3. asGh' \in BOOLEAN
  BY <1>1, BooleanStep
<1>4. QED
  BY <1>2, <1>3, Zenon DEF TypeOK, TypeOfPlaces, TypeOfValues, TypeOfCounts

-----------------------------------------------------------------------------
(* What git appends after the launcher's entries is appended to what       *)
(* remains once those are taken away.                                      *)
LEMMA RemainsAppend ==
  ASSUME NEW s \in Value, NEW x \in Value, NEW e \in Entry, Len(s) <= Len(x)
  PROVE  /\ Remains(x, s) \in Value
         /\ Remains(Append(x, e), s) = Append(Remains(x, s), e)
         /\ Len(s) = Len(x) => Remains(Append(x, e), s) = <<e>>
<1>1. Len(s) \in Nat /\ Len(x) \in Nat /\ Append(x, e) \in Value /\ Len(Append(x, e)) = Len(x) + 1
  BY OneMore DEF Value
<1>2. Remains(x, s) \in Value
  BY <1>1 DEF Remains, Value
<1>3. Len(Remains(x, s)) = Len(x) - Len(s)
  BY <1>1 DEF Remains, Value
<1>4. Append(Remains(x, s), e) \in Value /\ Len(Append(Remains(x, s), e)) = Len(x) - Len(s) + 1
  BY <1>2, <1>3, OneMore
<1>5. Remains(Append(x, e), s) \in Value /\ Len(Remains(Append(x, e), s)) = Len(x) - Len(s) + 1
  BY <1>1 DEF Remains, Value
<1>6. \A i \in 1..(Len(x) - Len(s) + 1) : Remains(Append(x, e), s)[i] = Append(Remains(x, s), e)[i]
  <2> SUFFICES ASSUME NEW i \in 1..(Len(x) - Len(s) + 1)
               PROVE  Remains(Append(x, e), s)[i] = Append(Remains(x, s), e)[i]
    OBVIOUS
  <2>1. Remains(Append(x, e), s)[i] = Append(x, e)[i + Len(s)]
    BY <1>1 DEF Remains
  <2>2. CASE i = Len(x) - Len(s) + 1
    <3>1. Append(Remains(x, s), e)[i] = e
      BY <1>2, <1>3, <2>2, OneMore
    <3>2. i + Len(s) = Len(x) + 1
      BY <1>1, <2>2
    <3>3. QED
      BY <2>1, <3>1, <3>2, OneMore
  <2>3. CASE i \in 1..(Len(x) - Len(s))
    <3>1. Append(Remains(x, s), e)[i] = Remains(x, s)[i]
      BY <1>2, <1>3, <2>3, OneMore
    <3>2. Remains(x, s)[i] = x[i + Len(s)]
      BY <2>3 DEF Remains
    <3>3. i + Len(s) \in 1..Len(x)
      BY <1>1, <2>3
    <3>4. QED
      BY <2>1, <3>1, <3>2, <3>3, OneMore
  <2>4. Len(x) - Len(s) \in Nat
    BY <1>1
  <2>5. i = Len(x) - Len(s) + 1 \/ i \in 1..(Len(x) - Len(s))
    BY <2>4
  <2>6. QED
    BY <2>2, <2>3, <2>5, Zenon
<1>7. Remains(Append(x, e), s) = Append(Remains(x, s), e)
  BY <1>4, <1>5, <1>6, SeqEqual DEF Value
<1>8. ASSUME Len(s) = Len(x) PROVE Remains(Append(x, e), s) = <<e>>
  <2>1. Append(Remains(x, s), e)[1] = e
    BY <1>1, <1>2, <1>3, <1>8, OneMore
  <2>2. <<e>> \in Value /\ Len(<<e>>) = 1 /\ <<e>>[1] = e
    BY OneEntry
  <2>3. Len(Append(Remains(x, s), e)) = 1
    BY <1>1, <1>4, <1>8
  <2>4. \A i \in 1..1 : Append(Remains(x, s), e)[i] = <<e>>[i]
    BY <2>1, <2>2
  <2>5. QED
    BY <1>4, <1>7, <2>2, <2>3, <2>4, SeqEqual DEF Value
<1>9. QED
  BY <1>2, <1>7, <1>8

LEMMA ConcatAppend ==
  ASSUME NEW x \in Value, NEW y \in Value, NEW e \in Entry
  PROVE  /\ x \o Append(y, e) = Append(x \o y, e)
         /\ x \o <<e>> = Append(x, e)
BY AppendProperties, ConcatProperties, SeqEqual DEF Value

(* An entry nobody but the launcher writes tells its value from all others.*)
LEMMA Told ==
  ASSUME NEW s \in Value, NEW x \in Value, NEW e \in Entry,
         Len(s) > 0, s[Len(s)] # e
  PROVE  /\ x = s \/ Extends(x, s) => Extends(Append(x, e), s)
         /\ Append(x, e) # s
         /\ x # s /\ ~Extends(x, s) => ~Extends(Append(x, e), s)
<1>1. Len(s) \in Nat /\ Len(x) \in Nat
  BY DEF Value
<1>2. Append(x, e) # s
  BY <1>1, OneMore
<1>3. x = s \/ Extends(x, s) => Extends(Append(x, e), s)
  BY <1>1, OneMore DEF Extends
<1>4. ASSUME Extends(Append(x, e), s) PROVE x = s \/ Extends(x, s)
  <2>1. Len(x) >= Len(s)
    BY <1>1, <1>4, OneMore DEF Extends
  <2>2. \A i \in 1..Len(s) : x[i] = s[i]
    BY <1>1, <1>4, <2>1, OneMore DEF Extends
  <2>3. CASE Len(x) = Len(s)
    BY <2>2, <2>3, SeqEqual DEF Value
  <2>4. CASE Len(x) > Len(s)
    BY <2>2, <2>4 DEF Extends
  <2>5. QED
    BY <1>1, <2>1, <2>3, <2>4
<1>5. QED
  BY <1>2, <1>3, <1>4

-----------------------------------------------------------------------------
LEMMA Initially == Init => IInv
<1> SUFFICES ASSUME Init PROVE IInv
  OBVIOUS
<1> USE EnvAssumption DEF Init
<1>1. asGh \in BOOLEAN /\ ~asGh
  BY Zenon
<1>2. TypeOfPlaces /\ TypeOfValues /\ TypeOfCounts
  BY DEF TypeOfPlaces, TypeOfValues, TypeOfCounts
<1>3. TypeOK
  BY <1>1, <1>2, Zenon DEF TypeOK, TypeOfPlaces, TypeOfValues, TypeOfCounts
<1>4. Recoverable
  BY DEF Recoverable, Reverted
<1>5. Recorded
  BY DEF Recorded
<1>6. Parented
  BY <1>1 DEF Parented
<1>7. Counted
  BY DEF Counted
<1>8. QED
  BY <1>3, <1>4, <1>5, <1>6, <1>7 DEF IInv

(* What only some actions touch.                                           *)
LEMMA SameRecovery ==
  ASSUME Recoverable, UNCHANGED <<env, orig, set, saved, want>>
  PROVE  Recoverable'
BY DEF Recoverable, Reverted, Appended

LEMMA CountedStep ==
  ASSUME TypeOfCounts, Counted, [Next]_vars
  PROVE  Counted'
<1> USE EnvAssumption DEF TypeOfCounts, Counted
<1>1. CASE Enter
  BY <1>1 DEF Enter, Guard3
<1>2. CASE ~Enter
  <2>1. depth' = depth /\ entered' = entered
    BY <1>2, Zenon DEF Next, vars, Refuse, Launch, StepAside, Delegate,
      GhIsTheWrapper, GhRunsScript, ScriptRunsWrapper, ScriptChanges, GitAppends
  <2>2. QED
    BY <2>1
<1>3. QED
  BY <1>1, <1>2

LEMMA ParentedStep ==
  ASSUME TypeOfPlaces, TypeOfCounts, asGh \in BOOLEAN, Parented, [Next]_vars
  PROVE  Parented'
<1> USE DEF Parented
<1>0. pid \in Nat /\ parent \in Nat /\ launcher \in Nat
  BY DEF TypeOfPlaces, TypeOfCounts
<1>a. parent > 0 /\ pid > parent
  OBVIOUS
<1>b. asGh \/ launcher < parent
  BY Zenon
<1>c. launcher = parent \/ launcher < parent
  BY Zenon
<1> HIDE DEF Parented
<1>d. pid > 0 /\ pid + 1 > pid
  BY <1>0, <1>a
<1>e. launcher < pid
  BY <1>0, <1>a, <1>c
<1>f. launcher = parent => asGh
  <2>1. launcher = parent => ~(launcher < parent)
    BY <1>0
  <2>2. QED
    BY <1>b, <2>1, Zenon
<1> USE DEF Parented
<1>1. CASE Refuse
  <2>1. UNCHANGED <<pid, parent, launcher, asGh>> /\ at = "entry"
    BY <1>1, Zenon DEF Refuse, book
  <2>2. CASE Guard2
    <3>1. at' = "not gh" /\ launcher = parent
      BY <1>1, <2>2, Zenon DEF Refuse, Guard2
    <3>2. asGh
      BY <1>f, <3>1
    <3>3. QED
      BY <2>1, <3>1, <3>2
  <2>3. CASE ~Guard2
    <3>1. at' = "too deep" /\ launcher # parent
      BY <1>1, <2>3, Zenon DEF Refuse, Guard2
    <3>2. QED
      BY <2>1, <3>1
  <2>4. QED
    BY <2>2, <2>3
<1>2. CASE Enter
  BY <1>2, <1>0 DEF Enter, Guard2
<1>3. CASE Launch
  <2>1. pid' = pid + 1 /\ parent' = pid /\ at' = "gh" /\ launcher' = pid /\ asGh'
    BY <1>3, Zenon DEF Launch, Spawns
  <2>2. parent' > 0 /\ pid' > parent' /\ launcher' = parent'
    BY <1>d, <2>1, Zenon
  <2>3. QED
    BY <2>1, <2>2
<1>4. CASE StepAside \/ Delegate
  <2>1. at' = "gh" /\ ~asGh' /\ launcher' = launcher /\ at = "route"
    BY <1>4, Zenon DEF StepAside, Delegate, Execs, Spawns, book
  <2>2. \/ pid' = pid /\ parent' = parent
        \/ pid' = pid + 1 /\ parent' = pid
    BY <1>4, Zenon DEF StepAside, Delegate, Execs, Spawns
  <2>3. ~asGh
    BY <2>1
  <2>4. QED
    BY <1>0, <2>1, <2>2, <2>3
<1>5. CASE GhIsTheWrapper \/ GhRunsScript \/ ScriptRunsWrapper
  <2>1. launcher' = launcher /\ at' \in {"entry", "script"}
    BY <1>5, Zenon DEF GhIsTheWrapper, GhRunsScript, ScriptRunsWrapper, Execs, Spawns, book
  <2>2. \/ pid' = pid /\ parent' = parent /\ asGh' = asGh /\ at' = "entry"
        \/ pid' = pid + 1 /\ parent' = pid /\ ~asGh'
    BY <1>5, Zenon DEF GhIsTheWrapper, GhRunsScript, ScriptRunsWrapper, Execs, Spawns
  <2>3. CASE pid' = pid /\ parent' = parent /\ asGh' = asGh /\ at' = "entry"
    BY <2>1, <2>3
  <2>4. CASE pid' = pid + 1 /\ parent' = pid /\ ~asGh'
    <3>1. parent' > 0 /\ pid' > parent' /\ launcher' < parent'
      BY <1>d, <1>e, <2>1, <2>4, Zenon
    <3>2. QED
      BY <2>1, <2>4, <3>1
  <2>5. QED
    BY <2>2, <2>3, <2>4
<1>6. CASE ScriptChanges \/ GitAppends \/ UNCHANGED vars
  <2>1. launcher' = launcher /\ at' = at /\ pid' = pid /\ parent' = parent /\ asGh' = asGh
    BY <1>6, Zenon DEF ScriptChanges, GitAppends, vars, book
  <2>2. QED
    BY <2>1
<1>7. QED
  BY <1>1, <1>2, <1>3, <1>4, <1>5, <1>6 DEF Next

LEMMA RecordedStep ==
  ASSUME TypeOfPlaces, TypeOfValues, Recorded, [Next]_vars
  PROVE  Recorded'
<1> USE DEF Recorded
<1>1. CASE Enter
  BY <1>1 DEF Enter, TypeOfValues
<1>2. CASE Launch
  <2>1. PICK host \in {{}, HostEdit} :
          Apply(LaunchEdits(SetVars \cup TokenVars \cup {Gcp} \cup host), {})
    BY <1>2 DEF Launch
  <2> DEFINE names == SetVars \cup TokenVars \cup {Gcp} \cup host
  <2>2. DOMAIN LaunchEdits(names) = names /\ Gcp \in names /\ Gcp \in Vars /\ Gcp \notin TokenVars /\ Gcp # Host
    BY EnvAssumption DEF LaunchEdits, Vars
  <2>3. saved = {} /\ at' # "route"
    BY <1>2 DEF Launch, Spawns
  <2>4. saved' = names /\ set'[Gcp] = LaunchEdits(names)[Gcp]
    BY <2>1, <2>2 DEF Apply
  <2>5. \A v \in Vars : v \notin saved' => orig'[v] = Unset /\ set'[v] = Unset
    BY <2>1, <2>2, <2>3, <2>4 DEF Apply
  <2>6. /\ Own \in Entry /\ Own[1] = "own" /\ <<Own>> \in Value /\ Len(<<Own>>) = 1 /\ <<Own>>[1] = Own
    BY Entries, OneEntry DEF TypeOfPlaces
  <2>7. set'[Gcp] = IF env[Gcp] # Unset THEN Append(env[Gcp], Own) ELSE <<Own>>
    BY <2>2, <2>4 DEF LaunchEdits
  <2>8. CASE env[Gcp] # Unset
    <3>1. env[Gcp] \in Value
      BY <2>2, <2>8 DEF TypeOfValues
    <3>2. /\ set'[Gcp] \in Value /\ Len(set'[Gcp]) \in Nat /\ Len(set'[Gcp]) > 0
          /\ set'[Gcp][Len(set'[Gcp])] = Own
      BY <2>6, <2>7, <2>8, <3>1, OneMore
    <3>3. set'[Gcp] # Unset
      BY <3>2, EnvAssumption
    <3>4. QED
      BY <2>3, <2>5, <2>6, <3>2, <3>3
  <2>9. CASE env[Gcp] = Unset
    BY <2>3, <2>5, <2>6, <2>7, <2>9, EnvAssumption
  <2>10. QED
    BY <2>8, <2>9
<1>3. CASE StepAside
  <2>1. Apply([v \in HostEdit |-> ForgeHost], TokenVars) /\ saved = {} /\ at' # "route"
    BY <1>3 DEF StepAside, Execs, Spawns
  <2>2. Gcp \notin HostEdit
    BY EnvAssumption DEF HostEdit
  <2>3. QED
    BY <2>1, <2>2 DEF Apply
<1>4. CASE Refuse \/ Delegate \/ GhIsTheWrapper \/ GhRunsScript \/ ScriptRunsWrapper
           \/ ScriptChanges \/ GitAppends \/ UNCHANGED vars
  <2>1. UNCHANGED book /\ (at' = "route" => at = "route")
    BY <1>4, Zenon DEF Refuse, Delegate, GhIsTheWrapper, GhRunsScript, ScriptRunsWrapper,
      ScriptChanges, GitAppends, Execs, Spawns, vars, book
  <2>2. QED
    BY <2>1 DEF book
<1>5. QED
  BY <1>1, <1>2, <1>3, <1>4 DEF Next

-----------------------------------------------------------------------------
(* A launch, a script's change and git's append keep the environment       *)
(* recoverable.                                                            *)
LEMMA LaunchRecoverable ==
  ASSUME TypeOfValues, Recoverable, Recorded, Launch
  PROVE  Recoverable'
<1>1. PICK host \in {{}, HostEdit} :
        Apply(LaunchEdits(SetVars \cup TokenVars \cup {Gcp} \cup host), {})
  BY DEF Launch
<1> DEFINE names == SetVars \cup TokenVars \cup {Gcp} \cup host
<1>2. DOMAIN LaunchEdits(names) = names /\ Gcp \in names
  BY DEF LaunchEdits
<1>3. saved = {} /\ want' = want
  BY DEF Launch, Recorded
<1>4. \A v \in Vars : env[v] = want[v]
  BY <1>3 DEF Recoverable, Reverted
<1>5. saved' = names
  BY <1>1, <1>2 DEF Apply
<1>6. \A v \in Vars : v \in names => env'[v] = set'[v] /\ orig'[v] = env[v]
  BY <1>1, <1>2 DEF Apply
<1>7. \A v \in Vars : v \notin names => env'[v] = env[v]
  BY <1>1, <1>2 DEF Apply
<1>8. QED
  BY <1>3, <1>4, <1>5, <1>6, <1>7 DEF Recoverable, Reverted

LEMMA StepAsideRecoverable ==
  ASSUME TypeOfValues, Recoverable, Recorded, StepAside
  PROVE  Recoverable'
<1>1. Apply([v \in HostEdit |-> ForgeHost], TokenVars)
  BY DEF StepAside
<1>2. saved = {} /\ want' = [v \in Vars |-> IF v \in TokenVars THEN Unset ELSE want[v]]
  BY DEF StepAside, Recorded
<1>3. \A v \in Vars : env[v] = want[v]
  BY <1>2 DEF Recoverable, Reverted
<1>4. saved' = HostEdit /\ HostEdit \cap TokenVars = {}
  BY <1>1, <1>2, EnvAssumption DEF Apply, HostEdit
<1>5. \A v \in Vars : v \in TokenVars => env'[v] = Unset
  BY <1>1 DEF Apply
<1>6. \A v \in Vars : v \in HostEdit => env'[v] = set'[v] /\ orig'[v] = env[v]
  BY <1>1, <1>4 DEF Apply
<1>7. \A v \in Vars : v \notin HostEdit \cup TokenVars => env'[v] = env[v]
  BY <1>1 DEF Apply
<1>8. QED
  BY <1>2, <1>3, <1>4, <1>5, <1>6, <1>7 DEF Recoverable, Reverted

(* What a user gives a variable never passes for what a launcher set.      *)
LEMMA UserValueTold ==
  ASSUME NEW s \in Value, Len(s) > 0, s[Len(s)][1] = "own", NEW x \in UserValues
  PROVE  ~Extends(x, s)
<1> SUFFICES ASSUME Extends(x, s) PROVE FALSE
  OBVIOUS
<1>1. Len(s) \in Nat /\ Len(x) \in Nat /\ x \in Value
  BY EnvAssumption DEF Value
<1>2. Len(s) \in 1..Len(s) /\ Len(s) \in 1..Len(x)
  BY <1>1 DEF Extends
<1>3. x[Len(s)] = s[Len(s)]
  BY <1>2 DEF Extends
<1>4. x[Len(s)][1] = "user"
  BY <1>2, EnvAssumption
<1>5. QED
  BY <1>3, <1>4

LEMMA ChangeRecoverable ==
  ASSUME TypeOfValues, Recoverable, Recorded, ScriptChanges
  PROVE  Recoverable'
<1>1. PICK v \in Vars, x \in UserValues \cup {Unset} :
        /\ v \in saved => x # set[v]
        /\ env' = [env EXCEPT ![v] = x]
        /\ want' = [want EXCEPT ![v] = x]
  BY DEF ScriptChanges
<1>2. UNCHANGED <<orig, set, saved>>
  BY DEF ScriptChanges, book
<1>3. SUFFICES ASSUME NEW w \in Vars PROVE Reverted(w)' = want'[w]
  BY DEF Recoverable
<1>4. CASE w # v
  <2>1. env'[w] = env[w] /\ want'[w] = want[w]
    BY <1>1, <1>4 DEF TypeOfValues
  <2>2. QED
    BY <1>2, <2>1 DEF Recoverable, Reverted, Appended
<1>5. CASE w = v
  <2>1. env'[v] = x /\ want'[v] = x
    BY <1>1 DEF TypeOfValues
  <2>2. CASE v \notin saved
    BY <1>2, <1>5, <2>1, <2>2 DEF Reverted
  <2>3. CASE v \in saved
    <3>1. ~Appended(v)'
      <4>1. SUFFICES ASSUME v = Gcp, x # Unset, Extends(x, set[Gcp]) PROVE FALSE
        BY <1>2, <2>1 DEF Appended
      <4>2. /\ set[Gcp] \in Value /\ Len(set[Gcp]) > 0
            /\ set[Gcp][Len(set[Gcp])][1] = "own"
        BY <2>3, <4>1 DEF Recorded, TypeOfValues
      <4>3. QED
        BY <4>1, <4>2, UserValueTold
    <3>2. QED
      BY <1>1, <1>2, <1>5, <2>1, <2>3, <3>1 DEF Reverted
  <2>4. QED
    BY <2>2, <2>3
<1>6. QED
  BY <1>4, <1>5

LEMMA AppendRecoverable ==
  ASSUME TypeOfValues, Recoverable, Recorded, GitAppends
  PROVE  Recoverable'
<1>1. UNCHANGED <<orig, set, saved>> /\ Gcp \in Vars
  BY DEF GitAppends, book, Vars
<1>2. /\ \A w \in Vars : w # Gcp => env'[w] = env[w] /\ want'[w] = want[w]
      /\ env'[Gcp] = After(env[Gcp]) /\ want'[Gcp] = After(want[Gcp])
  BY <1>1 DEF GitAppends, TypeOfValues
<1>3. \A w \in Vars : w # Gcp => Reverted(w)' = want'[w]
  BY <1>1, <1>2 DEF Recoverable, Reverted, Appended
<1>4. CASE Gcp \notin saved
  <2>1. Reverted(Gcp)' = want'[Gcp]
    BY <1>1, <1>2, <1>4 DEF Recoverable, Reverted
  <2>2. QED
    BY <1>3, <2>1 DEF Recoverable
<1>5. CASE Gcp \in saved
  <2> DEFINE s == set[Gcp]
             x == env[Gcp]
             o == orig[Gcp]
             g == GitEntry
  <2>1. /\ s \in Value /\ s # Unset /\ Len(s) > 0 /\ Len(s) \in Nat
        /\ s[Len(s)][1] = "own"
    BY <1>1, <1>5 DEF Recorded, TypeOfValues, Value
  <2>2. g \in Entry /\ s[Len(s)] # g
    BY <2>1, Entries
  <2>3. x \in {Unset} \cup Value /\ o \in {Unset} \cup Value
    BY <1>1 DEF TypeOfValues
  <2>4. CASE x = Unset
    <3>1. Reverted(Gcp) = Unset /\ env'[Gcp] = <<g>> /\ want'[Gcp] = <<g>>
      BY <1>1, <1>2, <1>5, <2>1, <2>4 DEF Recoverable, Reverted, Appended, After
    <3>2. <<g>> \in Value /\ Len(<<g>>) = 1 /\ <<g>>[1] = g
      BY <2>2, OneEntry
    <3>3. <<g>> # s
      BY <2>1, <2>2, <3>2
    <3>4. ~Extends(<<g>>, s)
      BY <2>1, <3>2 DEF Extends
    <3>5. Reverted(Gcp)' = <<g>>
      BY <1>1, <1>5, <3>1, <3>3, <3>4 DEF Reverted, Appended
    <3>6. QED
      BY <1>3, <3>1, <3>5 DEF Recoverable
  <2>5. CASE x # Unset
    <3>1. x \in Value /\ Append(x, g) \in Value /\ Append(x, g) # Unset
      BY <2>2, <2>3, <2>5, OneMore, EnvAssumption
    <3>2. env'[Gcp] = Append(x, g)
      BY <1>2, <2>5 DEF After
    <3>3. Append(x, g) # s
      BY <2>1, <2>2, <3>1, Told
    <3>4. CASE x # s /\ ~Extends(x, s)
      <4>1. ~Extends(Append(x, g), s)
        BY <2>1, <2>2, <3>1, <3>4, Told
      <4>2. Reverted(Gcp) = x
        BY <3>4, <2>5 DEF Reverted, Appended
      <4>3. want'[Gcp] = Append(x, g)
        BY <1>1, <1>2, <2>5, <4>2 DEF Recoverable, After
      <4>4. Reverted(Gcp)' = Append(x, g)
        BY <1>1, <1>5, <3>2, <3>3, <4>1 DEF Reverted, Appended
      <4>5. QED
        BY <1>3, <4>3, <4>4 DEF Recoverable
    <3>5. CASE x = s \/ Extends(x, s)
      <4>1. Extends(Append(x, g), s)
        BY <2>1, <2>2, <3>1, <3>5, Told
      <4>2. Len(s) <= Len(x)
        <5>1. CASE x = s
          BY <2>1, <5>1
        <5>2. CASE Extends(x, s)
          BY <2>1, <3>1, <5>2, OneMore DEF Extends
        <5>3. QED
          BY <3>5, <5>1, <5>2
      <4>3. /\ Remains(x, s) \in Value
            /\ Remains(Append(x, g), s) = Append(Remains(x, s), g)
            /\ x = s => Remains(Append(x, g), s) = <<g>>
        BY <2>1, <2>2, <3>1, <4>2, RemainsAppend
      <4>4. Reverted(Gcp)' = IF o = Unset THEN Remains(Append(x, g), s)
                                          ELSE o \o Remains(Append(x, g), s)
        BY <1>1, <1>5, <2>1, <3>1, <3>2, <3>3, <4>1 DEF Reverted, Appended
      <4>5. CASE x = s
        <5>1. want[Gcp] = o
          BY <1>1, <1>5, <4>5 DEF Recoverable, Reverted
        <5>2. want'[Gcp] = IF o = Unset THEN <<g>> ELSE Append(o, g)
          BY <1>2, <5>1 DEF After
        <5>3. o # Unset => o \o <<g>> = Append(o, g)
          BY <2>2, <2>3, ConcatAppend
        <5>4. QED
          BY <1>3, <4>3, <4>4, <4>5, <5>2, <5>3 DEF Recoverable
      <4>6. CASE x # s
        <5>1. Extends(x, s)
          BY <3>5, <4>6
        <5>2. want[Gcp] = IF o = Unset THEN Remains(x, s) ELSE o \o Remains(x, s)
          BY <1>1, <1>5, <2>1, <2>5, <4>6, <5>1 DEF Recoverable, Reverted, Appended
        <5>3. want[Gcp] \in Value
          BY <2>3, <4>3, <5>2, ConcatProperties DEF Value
        <5>4. want'[Gcp] = Append(want[Gcp], g)
          BY <1>2, <5>3, EnvAssumption DEF After
        <5>5. o # Unset => o \o Append(Remains(x, s), g) = Append(o \o Remains(x, s), g)
          BY <2>2, <2>3, <4>3, ConcatAppend
        <5>6. QED
          BY <1>3, <4>3, <4>4, <5>2, <5>4, <5>5 DEF Recoverable
      <4>7. QED
        BY <4>5, <4>6
    <3>6. QED
      BY <3>4, <3>5
  <2>6. QED
    BY <2>4, <2>5
<1>6. QED
  BY <1>4, <1>5

LEMMA RecoverableStep ==
  ASSUME TypeOfValues, Recoverable, Recorded, [Next]_vars
  PROVE  Recoverable'
<1>1. CASE Enter
  <2>1. env' = want /\ want' = want /\ saved' = {}
    BY <1>1, EnterRestores DEF Enter, TypeOfValues
  <2>2. QED
    BY <2>1 DEF Recoverable, Reverted
<1>2. CASE Refuse \/ Delegate \/ GhIsTheWrapper \/ GhRunsScript \/ ScriptRunsWrapper \/ UNCHANGED vars
  <2>1. UNCHANGED <<env, orig, set, saved, want>>
    BY <1>2, Zenon DEF Refuse, Delegate, GhIsTheWrapper, GhRunsScript, ScriptRunsWrapper, vars, book
  <2>2. QED
    BY <2>1, SameRecovery
<1>3. QED
  BY <1>1, <1>2, LaunchRecoverable, StepAsideRecoverable, ChangeRecoverable, AppendRecoverable DEF Next

-----------------------------------------------------------------------------
(* The inductive invariant holds in every state.  (env.rs, launcher.rs     *)
(* guards, start.rs edits.)                                                *)
THEOREM Invariance == Spec => []IInv
<1>1. Init => IInv
  BY Initially
<1>2. IInv /\ [Next]_vars => IInv'
  <2> SUFFICES ASSUME IInv, [Next]_vars PROVE IInv'
    OBVIOUS
  <2>1. TypeOfPlaces /\ TypeOfValues /\ TypeOfCounts /\ asGh \in BOOLEAN
    BY DEF IInv, TypeOK, TypeOfPlaces, TypeOfValues, TypeOfCounts
  <2>2. Recoverable /\ Recorded /\ Parented /\ Counted
    BY DEF IInv
  <2>3. TypeOK'
    BY TypeStep
  <2>4. Recoverable' /\ Recorded'
    BY <2>1, <2>2, RecoverableStep, RecordedStep
  <2>5. Parented' /\ Counted'
    BY <2>1, <2>2, ParentedStep, CountedStep
  <2>6. QED
    BY <2>3, <2>4, <2>5 DEF IInv
<1>3. QED
  BY <1>1, <1>2, PTL DEF Spec

(* Every variable keeps its type.                                          *)
THEOREM TypeCorrect == Spec => []TypeOK
<1>1. IInv => TypeOK
  BY DEF IInv
<1>2. QED
  BY <1>1, Invariance, PTL

(* A nested wrapper routes with the user's own environment.  (env.rs       *)
(* revert.)                                                                *)
THEOREM RoutesAsTheUser == Spec => []UserEnvBack
<1>1. IInv => UserEnvBack
  <2> SUFFICES ASSUME IInv, at = "route" PROVE env = want
    BY DEF UserEnvBack
  <2>1. saved = {}
    BY DEF IInv, Recorded
  <2>2. \A v \in Vars : env[v] = want[v]
    BY <2>1 DEF IInv, Recoverable, Reverted
  <2>3. QED
    BY <2>2 DEF IInv, TypeOK
<1>2. QED
  BY <1>1, Invariance, PTL

(* And with no record left of any launch.  (env.rs revert.)                *)
THEOREM NothingRecorded == Spec => []RecordGone
<1>1. IInv => RecordGone
  BY DEF IInv, Recorded, RecordGone
<1>2. QED
  BY <1>1, Invariance, PTL

(* No chain gets more than MAX_DEPTH wrappers deep.  (launcher.rs guard 3.)*)
THEOREM BoundedDepth == Spec => []DepthBounded
<1>1. IInv => TypeOfCounts /\ Counted
  BY DEF IInv, TypeOK, TypeOfCounts
<1>2. TypeOfCounts /\ Counted => DepthBounded
  BY EnvAssumption DEF TypeOfCounts, Counted, DepthBounded
<1>3. QED
  BY <1>1, <1>2, Invariance, PTL

(* Guard 2 refuses the wrapper in real gh's place and no other.            *)
(* (launcher.rs guard 2.)                                                  *)
THEOREM NeverItsOwnGh == Spec => []OnlyRealGh
<1>1. IInv => OnlyRealGh
  BY DEF IInv, Parented, OnlyRealGh
<1>2. QED
  BY <1>1, Invariance, PTL

(* Chains of wrappers end, each in the user's environment.                 *)
THEOREM Sound == Spec => []NestedSound
<1>1. UserEnvBack /\ DepthBounded /\ OnlyRealGh => NestedSound
  BY DEF NestedSound
<1>2. QED
  BY <1>1, RoutesAsTheUser, BoundedDepth, NeverItsOwnGh, PTL

(***************************************************************************)
(* Trace: the git recorder changes nothing of what git gives.  The         *)
(* argument follows a chunk: what was written is what was counted and what *)
(* is still in the pipe, in this order, and once a forwarder has ended     *)
(* nothing can be written.                                                 *)
(***************************************************************************)

Ends == {"0", "1", "137"}
Steps == {"start", "running", "waited", "append", "ended"}
Record == [of: Calls, part: {"whole", "cut", "bare"}, code: Ends \union {"127"}, count: [Streams -> Nat]]

TraceTypeOK ==
    /\ step \in [Calls -> Steps] /\ git \in [Calls -> {"none", "running"} \union Ends]
    /\ behind \subseteq Calls
    /\ pipe \in [Calls -> [Streams -> Seq(Nat)]] /\ forwarded \in [Calls -> [Streams -> Seq(Nat)]]
    /\ count \in [Calls -> [Streams -> Nat]] /\ wrote \in [Calls -> [Streams -> Nat]]
    /\ reading \in [Calls -> SUBSET Streams] /\ ends \in [Calls -> SUBSET Streams]
    /\ code \in [Calls -> Ends \union {"127"}]
    /\ file \in Seq(Record)

\* A stream: counted, then piped, makes up what was written.
FlowOK(c, s) ==
    /\ count[c][s] + Len(pipe[c][s]) = wrote[c][s]
    /\ \A i \in 1..Len(pipe[c][s]) : pipe[c][s][i] = count[c][s] + i
    /\ Len(forwarded[c][s]) <= count[c][s]
    /\ s \in reading[c] => Len(forwarded[c][s]) = count[c][s]
    /\ \A i \in 1..Len(forwarded[c][s]) : forwarded[c][s][i] = i

\* A call: where it is tells how far git and the forwarders are.
OrderOK(c) ==
    /\ c \in behind => git[c] \in Ends
    /\ step[c] = "start" => git[c] = "none" /\ ends[c] = {}
    /\ step[c] = "running" => git[c] # "none"
    /\ step[c] = "waited" => git[c] \in Ends /\ code[c] = git[c]
    /\ step[c] \in {"append", "ended"} /\ git[c] # "none" =>
          git[c] \in Ends /\ code[c] = git[c] /\ ends[c] = Streams
    /\ \A s \in ends[c] : pipe[c][s] = <<>> /\ ~Holds(c)

\* A record: its call is over, and it says what git did.
FileOK ==
    \A i \in 1..Len(file) :
        LET c == file[i].of IN
        /\ step[c] = "ended"
        /\ git[c] # "none" => file[i].code = git[c] /\ file[i].count = wrote[c]

\* A call has one piece.
OnePiece == \A i, j \in 1..Len(file) : file[i].of = file[j].of => i = j

TraceInv ==
    /\ TraceTypeOK /\ FileOK /\ OnePiece
    /\ \A c \in Calls : OrderOK(c) /\ \A s \in Streams : FlowOK(c, s)

(***************************************************************************)

\* What an action on another call leaves as it is.
Same(d) ==
    /\ step'[d] = step[d] /\ git'[d] = git[d] /\ code'[d] = code[d]
    /\ d \in behind' <=> d \in behind
    /\ pipe'[d] = pipe[d] /\ reading'[d] = reading[d] /\ forwarded'[d] = forwarded[d]
    /\ count'[d] = count[d] /\ wrote'[d] = wrote[d] /\ ends'[d] = ends[d]

\* The types, one fact for each variable.
LEMMA Types ==
    ASSUME TraceTypeOK, NEW c \in Calls
    PROVE  /\ step[c] \in Steps /\ git[c] \in {"none", "running"} \union Ends
           /\ code[c] \in Ends \union {"127"}
           /\ reading[c] \in SUBSET Streams /\ ends[c] \in SUBSET Streams
           /\ count[c] \in [Streams -> Nat] /\ wrote[c] \in [Streams -> Nat]
           /\ pipe[c] \in [Streams -> Seq(Nat)] /\ forwarded[c] \in [Streams -> Seq(Nat)]
           /\ \A s \in Streams :
                 /\ count[c][s] \in Nat /\ wrote[c][s] \in Nat
                 /\ pipe[c][s] \in Seq(Nat) /\ forwarded[c][s] \in Seq(Nat)
                 /\ Len(pipe[c][s]) \in Nat /\ Len(forwarded[c][s]) \in Nat
  BY DEF TraceTypeOK

\* A call nothing happens to keeps its place and its streams.
LEMMA Frame ==
    ASSUME NEW d \in Calls, Same(d), OrderOK(d), \A s \in Streams : FlowOK(d, s)
    PROVE  OrderOK(d)' /\ \A s \in Streams : FlowOK(d, s)'
  <1>1. OrderOK(d)'
    BY DEF Same, OrderOK, Holds
  <1>2. \A s \in Streams : FlowOK(d, s)'
    BY DEF Same, FlowOK
  <1> QED
    BY <1>1, <1>2

\* The records stay true as long as no call that is over changes.
LEMMA FileKept ==
    ASSUME TraceTypeOK, FileOK, file' = file,
           \A d \in Calls : step[d] = "ended" =>
               step'[d] = "ended" /\ git'[d] = git[d] /\ wrote'[d] = wrote[d]
    PROVE  FileOK'
  <1> SUFFICES ASSUME NEW i \in 1..Len(file)
               PROVE  LET c == file[i].of IN
                      /\ step'[c] = "ended"
                      /\ git'[c] # "none" => file[i].code = git'[c] /\ file[i].count = wrote'[c]
    BY DEF FileOK
  <1>1. file[i] \in Record
    BY ElementOfSeq DEF TraceTypeOK
  <1>2. file[i].of \in Calls
    BY <1>1 DEF Record
  <1> QED
    BY <1>2 DEF FileOK

\* What a step on one call leaves to show.
LEMMA Whole ==
    ASSUME TraceInv, TraceTypeOK', FileOK', OnePiece', NEW c \in Calls,
           \A d \in Calls \ {c} : Same(d),
           OrderOK(c)', \A s \in Streams : FlowOK(c, s)'
    PROVE  TraceInv'
  <1> SUFFICES ASSUME NEW d \in Calls
               PROVE  OrderOK(d)' /\ \A s \in Streams : FlowOK(d, s)'
    BY DEF TraceInv
  <1>1. CASE d = c
    BY <1>1
  <1>2. CASE d # c
    BY <1>2, Frame DEF TraceInv
  <1> QED
    BY <1>1, <1>2

LEMMA Start == TraceInit => TraceInv
  <1> SUFFICES ASSUME TraceInit PROVE TraceInv
    OBVIOUS
  <1> <<>> \in Seq(Nat) /\ <<>> \in Seq(Record)
    BY EmptySeq
  <1>1. /\ step \in [Calls -> Steps] /\ git \in [Calls -> {"none", "running"} \union Ends]
        /\ behind \subseteq Calls /\ code \in [Calls -> Ends \union {"127"}]
    BY DEF TraceInit, Steps, Ends
  <1>2. pipe \in [Calls -> [Streams -> Seq(Nat)]] /\ forwarded \in [Calls -> [Streams -> Seq(Nat)]]
    BY DEF TraceInit
  <1>3. count \in [Calls -> [Streams -> Nat]] /\ wrote \in [Calls -> [Streams -> Nat]]
    BY DEF TraceInit
  <1>4. reading \in [Calls -> SUBSET Streams] /\ ends \in [Calls -> SUBSET Streams]
    BY DEF TraceInit
  <1>5. TraceTypeOK
    BY <1>1, <1>2, <1>3, <1>4 DEF TraceInit, TraceTypeOK
  <1>6. FileOK /\ OnePiece
    BY DEF TraceInit, FileOK, OnePiece
  <1>7. ASSUME NEW c \in Calls PROVE OrderOK(c)
    BY DEF TraceInit, OrderOK
  <1>8. ASSUME NEW c \in Calls, NEW s \in Streams PROVE FlowOK(c, s)
    BY DEF TraceInit, FlowOK
  <1> QED
    BY <1>5, <1>6, <1>7, <1>8 DEF TraceInv

(***************************************************************************)
(* git                                                                     *)
(***************************************************************************)

LEMMA WriteStep ==
    ASSUME TraceInv, NEW c \in Calls, NEW s \in Streams, Write(c, s)
    PROVE  TraceInv'
  <1> DEFINE n == wrote[c][s] + 1
  <1>t. TraceTypeOK
    BY DEF TraceInv
  <1>0. /\ wrote' = [wrote EXCEPT ![c] = [wrote[c] EXCEPT ![s] = n]]
        /\ pipe' = [pipe EXCEPT ![c] = [pipe[c] EXCEPT ![s] = Append(pipe[c][s], n)]]
        /\ UNCHANGED <<step, git, behind, reading, forwarded, count, ends, code, file>>
        /\ Holds(c)
    BY DEF Write
  <1>n. n \in Nat /\ Append(pipe[c][s], n) \in Seq(Nat)
    BY <1>t, Types, AppendProperties
  <1>1. TraceTypeOK'
    <2>1. wrote' \in [Calls -> [Streams -> Nat]]
      BY <1>0, <1>n, <1>t, Types DEF TraceTypeOK
    <2>2. pipe' \in [Calls -> [Streams -> Seq(Nat)]]
      BY <1>0, <1>n, <1>t, Types DEF TraceTypeOK
    <2> QED
      BY <1>0, <1>t, <2>1, <2>2 DEF TraceTypeOK
  <1>v. /\ wrote'[c] = [wrote[c] EXCEPT ![s] = n]
        /\ pipe'[c] = [pipe[c] EXCEPT ![s] = Append(pipe[c][s], n)]
    BY <1>0, <1>t DEF TraceTypeOK
  <1>w. /\ wrote'[c][s] = n /\ pipe'[c][s] = Append(pipe[c][s], n)
        /\ \A r \in Streams \ {s} : wrote'[c][r] = wrote[c][r] /\ pipe'[c][r] = pipe[c][r]
    BY <1>v, <1>t, Types
  <1>2. \A d \in Calls \ {c} : Same(d)
    BY <1>0, <1>t DEF Same, TraceTypeOK
  <1>3. OrderOK(c)'
    <2>1. ends[c] = {}
      BY <1>0 DEF TraceInv, OrderOK
    <2> QED
      BY <1>0, <2>1 DEF TraceInv, OrderOK, Holds
  <1>4. ASSUME NEW r \in Streams PROVE FlowOK(c, r)'
    <2>0. FlowOK(c, r)
      BY DEF TraceInv
    <2>1. CASE r # s
      BY <1>0, <1>w, <2>0, <2>1 DEF FlowOK
    <2>2. CASE r = s
      <3> DEFINE q == pipe[c][s]
      <3>1. /\ Len(Append(q, n)) = Len(q) + 1
            /\ \A i \in 1..Len(q) : Append(q, n)[i] = q[i]
            /\ Append(q, n)[Len(q) + 1] = n
        BY <1>n, <1>t, Types, AppendProperties
      <3>2. /\ Len(q) \in Nat /\ count[c][s] \in Nat /\ wrote[c][s] \in Nat
        BY <1>t, Types
      <3>3. /\ count[c][s] + Len(q) = wrote[c][s]
            /\ \A i \in 1..Len(q) : q[i] = count[c][s] + i
        BY <2>0, <2>2 DEF FlowOK
      <3>4. \A i \in 1..(Len(q) + 1) : Append(q, n)[i] = count[c][s] + i
        <4> SUFFICES ASSUME NEW i \in 1..(Len(q) + 1) PROVE Append(q, n)[i] = count[c][s] + i
          OBVIOUS
        <4>1. CASE i \in 1..Len(q)
          BY <3>1, <3>3, <4>1
        <4>2. CASE i = Len(q) + 1
          BY <3>1, <3>2, <3>3, <4>2
        <4> QED
          BY <3>2, <4>1, <4>2
      <3>5. count[c][s] + (Len(q) + 1) = n
        BY <3>2, <3>3
      <3>6. /\ Len(forwarded[c][s]) <= count[c][s]
            /\ s \in reading[c] => Len(forwarded[c][s]) = count[c][s]
            /\ \A i \in 1..Len(forwarded[c][s]) : forwarded[c][s][i] = i
        BY <2>0, <2>2 DEF FlowOK
      <3> HIDE DEF q, n
      <3>7. pipe'[c][s] = Append(q, n) /\ wrote'[c][s] = n
        BY <1>w DEF q
      <3> QED
        BY <1>0, <2>2, <3>1, <3>4, <3>5, <3>6, <3>7 DEF FlowOK
    <2> QED
      BY <2>1, <2>2
  <1>5. FileOK'
    <2>1. step[c] # "ended"
      BY <1>0 DEF TraceInv, OrderOK, Holds, Streams, Ends
    <2> QED
      BY <1>0, <1>2, <1>t, <2>1, FileKept DEF TraceInv, Same
  <1>6. OnePiece'
    BY <1>0 DEF TraceInv, OnePiece
  <1> QED
    BY <1>1, <1>2, <1>3, <1>4, <1>5, <1>6, Whole

LEMMA GitEndsStep ==
    ASSUME TraceInv, NEW c \in Calls, NEW how \in Ends, NEW leaves \in BOOLEAN, GitEnds(c, how, leaves)
    PROVE  TraceInv'
  <1>t. TraceTypeOK
    BY DEF TraceInv
  <1>0. /\ git[c] = "running" /\ git' = [git EXCEPT ![c] = how]
        /\ behind' = behind \/ behind' = behind \union {c}
        /\ UNCHANGED <<step, reading, pipe, forwarded, count, wrote, ends, code, file>>
    BY DEF GitEnds, flow
  <1>1. TraceTypeOK'
    <2>1. behind' \subseteq Calls
      BY <1>0, <1>t DEF TraceTypeOK
    <2>2. git' \in [Calls -> {"none", "running"} \union Ends]
      BY <1>0, <1>t DEF TraceTypeOK
    <2> QED
      BY <1>0, <1>t, <2>1, <2>2 DEF TraceTypeOK
  <1>2. \A d \in Calls \ {c} : Same(d)
    BY <1>0, <1>t DEF Same, TraceTypeOK
  <1>s. step[c] = "running" /\ ends[c] = {} /\ git'[c] = how
    <2>1. git'[c] = how
      BY <1>0, <1>t DEF TraceTypeOK
    <2>2. OrderOK(c)
      BY DEF TraceInv
    <2>3. step[c] = "running"
      BY <1>0, <1>t, <2>2, Types DEF OrderOK, Steps, Ends
    <2>4. ends[c] = {}
      BY <1>0, <2>2 DEF OrderOK, Holds
    <2> QED
      BY <2>1, <2>3, <2>4
  <1>3. OrderOK(c)'
    BY <1>0, <1>s DEF OrderOK, Holds, Ends
  <1>4. ASSUME NEW r \in Streams PROVE FlowOK(c, r)'
    BY <1>0 DEF TraceInv, FlowOK
  <1>5. FileOK'
    BY <1>0, <1>2, <1>t, <1>s, FileKept DEF TraceInv, Same
  <1>6. OnePiece'
    BY <1>0 DEF TraceInv, OnePiece
  <1> QED
    BY <1>1, <1>2, <1>3, <1>4, <1>5, <1>6, Whole

LEMMA BehindEndsStep ==
    ASSUME TraceInv, NEW c \in Calls, BehindEnds(c)
    PROVE  TraceInv'
  <1>t. TraceTypeOK
    BY DEF TraceInv
  <1>0. /\ c \in behind /\ behind' = behind \ {c}
        /\ UNCHANGED <<step, git, reading, pipe, forwarded, count, wrote, ends, code, file>>
    BY DEF BehindEnds, flow
  <1>1. TraceTypeOK'
    BY <1>0, <1>t DEF TraceTypeOK
  <1>2. \A d \in Calls \ {c} : Same(d)
    BY <1>0 DEF Same
  <1>3. OrderOK(c)'
    BY <1>0 DEF TraceInv, OrderOK, Holds
  <1>4. ASSUME NEW r \in Streams PROVE FlowOK(c, r)'
    BY <1>0 DEF TraceInv, FlowOK
  <1>5. FileOK'
    BY <1>0, <1>t, FileKept DEF TraceInv
  <1>6. OnePiece'
    BY <1>0 DEF TraceInv, OnePiece
  <1> QED
    BY <1>1, <1>2, <1>3, <1>4, <1>5, <1>6, Whole

LEMMA StopReadingStep ==
    ASSUME TraceInv, NEW c \in Calls, NEW s \in Streams, StopReading(c, s)
    PROVE  TraceInv'
  <1>t. TraceTypeOK
    BY DEF TraceInv
  <1>0. /\ reading' = [reading EXCEPT ![c] = reading[c] \ {s}]
        /\ UNCHANGED <<step, git, behind, pipe, forwarded, count, wrote, ends, code, file>>
    BY DEF StopReading, flow
  <1>1. TraceTypeOK'
    <2>1. reading' \in [Calls -> SUBSET Streams]
      BY <1>0, <1>t, Types DEF TraceTypeOK
    <2> QED
      BY <1>0, <1>t, <2>1 DEF TraceTypeOK
  <1>2. \A d \in Calls \ {c} : Same(d)
    BY <1>0, <1>t DEF Same, TraceTypeOK
  <1>3. OrderOK(c)'
    BY <1>0 DEF TraceInv, OrderOK, Holds
  <1>4. ASSUME NEW r \in Streams PROVE FlowOK(c, r)'
    <2>1. reading'[c] = reading[c] \ {s}
      BY <1>0, <1>t DEF TraceTypeOK
    <2> QED
      BY <1>0, <2>1 DEF TraceInv, FlowOK
  <1>5. FileOK'
    BY <1>0, <1>t, FileKept DEF TraceInv
  <1>6. OnePiece'
    BY <1>0 DEF TraceInv, OnePiece
  <1> QED
    BY <1>1, <1>2, <1>3, <1>4, <1>5, <1>6, Whole

(***************************************************************************)
(* run_git_recorder                                                        *)
(***************************************************************************)

LEMMA BeginStep ==
    ASSUME TraceInv, NEW c \in Calls, Begin(c)
    PROVE  TraceInv'
  <1>t. TraceTypeOK
    BY DEF TraceInv
  <1>0. /\ step[c] = "start"
        /\ UNCHANGED <<behind, reading, pipe, forwarded, count, wrote, ends, file>>
    BY DEF Begin, flow
  <1>s. git[c] = "none" /\ ends[c] = {} /\ c \notin behind
    BY <1>0 DEF TraceInv, OrderOK, Ends
  <1>a. \/ /\ step' = [step EXCEPT ![c] = "running"] /\ git' = [git EXCEPT ![c] = "running"]
           /\ code' = code
        \/ /\ step' = [step EXCEPT ![c] = "append"] /\ code' = [code EXCEPT ![c] = "127"]
           /\ git' = git
    BY DEF Begin
  <1>1. TraceTypeOK'
    <2>1. step' \in [Calls -> Steps]
      BY <1>a, <1>t DEF TraceTypeOK, Steps
    <2>2. git' \in [Calls -> {"none", "running"} \union Ends]
      BY <1>a, <1>t DEF TraceTypeOK
    <2>3. code' \in [Calls -> Ends \union {"127"}]
      BY <1>a, <1>t DEF TraceTypeOK
    <2> QED
      BY <1>0, <1>t, <2>1, <2>2, <2>3 DEF TraceTypeOK
  <1>2. \A d \in Calls \ {c} : Same(d)
    BY <1>0, <1>a, <1>t DEF Same, TraceTypeOK
  <1>3. OrderOK(c)'
    <2>1. \/ step'[c] = "running" /\ git'[c] = "running"
          \/ step'[c] = "append" /\ git'[c] = "none"
      BY <1>a, <1>s, <1>t DEF TraceTypeOK
    <2> QED
      BY <1>0, <1>s, <2>1 DEF OrderOK
  <1>4. ASSUME NEW r \in Streams PROVE FlowOK(c, r)'
    BY <1>0 DEF TraceInv, FlowOK
  <1>5. FileOK'
    BY <1>0, <1>2, <1>t, FileKept DEF TraceInv, Same
  <1>6. OnePiece'
    BY <1>0 DEF TraceInv, OnePiece
  <1> QED
    BY <1>1, <1>2, <1>3, <1>4, <1>5, <1>6, Whole

LEMMA ForwardStep ==
    ASSUME TraceInv, NEW c \in Calls, NEW s \in Streams, Forward(c, s)
    PROVE  TraceInv'
  <1> DEFINE q == pipe[c][s]
             f == forwarded[c][s]
             k == count[c][s]
             g == IF s \in reading[c] THEN Append(f, Head(q)) ELSE f
  <1>t. TraceTypeOK
    BY DEF TraceInv
  <1>0. /\ q # <<>> /\ s \notin ends[c]
        /\ pipe' = [pipe EXCEPT ![c] = [pipe[c] EXCEPT ![s] = Tail(q)]]
        /\ count' = [count EXCEPT ![c] = [count[c] EXCEPT ![s] = k + 1]]
        /\ forwarded' = [forwarded EXCEPT ![c] = [forwarded[c] EXCEPT ![s] = g]]
        /\ UNCHANGED <<step, git, behind, reading, wrote, ends, code, file>>
    BY DEF Forward
  <1>q. /\ q \in Seq(Nat) /\ f \in Seq(Nat) /\ k \in Nat /\ wrote[c][s] \in Nat
        /\ Len(q) \in Nat /\ Len(f) \in Nat
    BY <1>t, Types
  <1>h. /\ Head(q) \in Nat /\ Head(q) = q[1] /\ Tail(q) \in Seq(Nat)
        /\ Len(Tail(q)) = Len(q) - 1 /\ Len(q) > 0
        /\ \A i \in 1..Len(Tail(q)) : Tail(q)[i] = q[i + 1]
    BY <1>0, <1>q, HeadTailProperties
  <1>g. g \in Seq(Nat)
    BY <1>q, <1>h, AppendProperties
  <1>1. TraceTypeOK'
    <2>1. pipe' \in [Calls -> [Streams -> Seq(Nat)]]
      BY <1>0, <1>h, <1>t, Types DEF TraceTypeOK
    <2>2. forwarded' \in [Calls -> [Streams -> Seq(Nat)]]
      <3> HIDE DEF g
      <3> QED
        BY <1>0, <1>g, <1>t, Types DEF TraceTypeOK
    <2>3. count' \in [Calls -> [Streams -> Nat]]
      BY <1>0, <1>q, <1>t, Types DEF TraceTypeOK
    <2> QED
      BY <1>0, <1>t, <2>1, <2>2, <2>3 DEF TraceTypeOK
  <1>2. \A d \in Calls \ {c} : Same(d)
    BY <1>0, <1>t DEF Same, TraceTypeOK
  <1>3. OrderOK(c)'
    <2>1. /\ pipe'[c] = [pipe[c] EXCEPT ![s] = Tail(q)]
          /\ \A r \in Streams \ {s} : pipe'[c][r] = pipe[c][r]
      BY <1>0, <1>t, Types DEF TraceTypeOK
    <2>2. OrderOK(c) /\ ends[c] \subseteq Streams
      BY <1>t, Types DEF TraceInv
    <2>3. \A r \in ends'[c] : pipe'[c][r] = <<>> /\ ~Holds(c)'
      BY <1>0, <2>1, <2>2 DEF OrderOK, Holds
    <2> QED
      BY <1>0, <2>2, <2>3 DEF OrderOK
  <1>4. ASSUME NEW r \in Streams PROVE FlowOK(c, r)'
    <2>0. FlowOK(c, r)
      BY DEF TraceInv
    <2>v. /\ pipe'[c] = [pipe[c] EXCEPT ![s] = Tail(q)]
          /\ count'[c] = [count[c] EXCEPT ![s] = k + 1]
          /\ forwarded'[c] = [forwarded[c] EXCEPT ![s] = g]
      BY <1>0, <1>t DEF TraceTypeOK
    <2>w. /\ pipe'[c][s] = Tail(q) /\ count'[c][s] = k + 1 /\ forwarded'[c][s] = g
          /\ \A o \in Streams \ {s} :
                pipe'[c][o] = pipe[c][o] /\ count'[c][o] = count[c][o] /\ forwarded'[c][o] = forwarded[c][o]
      BY <2>v, <1>t, Types
    <2>1. CASE r # s
      BY <1>0, <2>w, <2>0, <2>1 DEF FlowOK
    <2>2. CASE r = s
      <3>0. /\ k + Len(q) = wrote[c][s]
            /\ \A i \in 1..Len(q) : q[i] = k + i
            /\ Len(f) <= k /\ (s \in reading[c] => Len(f) = k)
            /\ \A i \in 1..Len(f) : f[i] = i
        BY <2>0, <2>2 DEF FlowOK
      <3>1. (k + 1) + Len(Tail(q)) = wrote[c][s]
        <4> HIDE DEF g, f, k, q
        <4> QED
          BY <1>q, <1>h, <3>0
      <3>2. \A i \in 1..Len(Tail(q)) : Tail(q)[i] = (k + 1) + i
        <4> SUFFICES ASSUME NEW i \in 1..Len(Tail(q)) PROVE Tail(q)[i] = (k + 1) + i
          OBVIOUS
        <4> HIDE DEF g, f, k, q
        <4>1. i + 1 \in 1..Len(q) /\ Tail(q)[i] = q[i + 1]
          BY <1>q, <1>h
        <4>2. q[i + 1] = k + (i + 1)
          BY <3>0, <4>1
        <4>3. i \in Nat /\ k \in Nat
          BY <1>q, <1>h
        <4> QED
          BY <4>1, <4>2, <4>3
      <3>3. /\ Len(g) <= k + 1 /\ (s \in reading[c] => Len(g) = k + 1)
            /\ \A i \in 1..Len(g) : g[i] = i
        <4>1. CASE s \notin reading[c]
          BY <1>q, <3>0, <4>1
        <4>2. CASE s \in reading[c]
          <5>1. /\ g = Append(f, Head(q)) /\ Len(g) = Len(f) + 1
                /\ \A i \in 1..Len(f) : g[i] = f[i]
                /\ g[Len(f) + 1] = Head(q)
            BY <1>q, <1>h, <4>2, AppendProperties
          <5>2. Head(q) = k + 1 /\ Len(f) = k
            BY <1>q, <1>h, <3>0, <4>2
          <5> HIDE DEF g, f, k, q
          <5>3. ASSUME NEW i \in 1..Len(g) PROVE g[i] = i
            <6>1. CASE i \in 1..Len(f)
              BY <3>0, <5>1, <6>1
            <6>2. CASE i = Len(f) + 1
              BY <5>1, <5>2, <6>2
            <6> QED
              BY <1>q, <5>1, <6>1, <6>2
          <5> QED
            BY <1>q, <5>1, <5>2, <5>3
        <4> QED
          BY <4>1, <4>2
      <3> HIDE DEF g, f, k, q
      <3> QED
        BY <1>0, <2>2, <2>w, <3>1, <3>2, <3>3 DEF FlowOK
    <2> QED
      BY <2>1, <2>2
  <1>5. FileOK'
    BY <1>0, <1>t, FileKept DEF TraceInv
  <1>6. OnePiece'
    BY <1>0 DEF TraceInv, OnePiece
  <1> QED
    BY <1>1, <1>2, <1>3, <1>4, <1>5, <1>6, Whole

LEMMA EndForwardStep ==
    ASSUME TraceInv, NEW c \in Calls, NEW s \in Streams, EndForward(c, s)
    PROVE  TraceInv'
  <1>t. TraceTypeOK
    BY DEF TraceInv
  <1>0. /\ step[c] \in {"running", "waited"} /\ pipe[c][s] = <<>> /\ ~Holds(c)
        /\ ends' = [ends EXCEPT ![c] = ends[c] \union {s}]
        /\ UNCHANGED <<step, git, behind, pipe, reading, forwarded, count, wrote, code, file>>
    BY DEF EndForward
  <1>1. TraceTypeOK'
    <2>1. ends' \in [Calls -> SUBSET Streams]
      BY <1>0, <1>t, Types DEF TraceTypeOK
    <2> QED
      BY <1>0, <1>t, <2>1 DEF TraceTypeOK
  <1>2. \A d \in Calls \ {c} : Same(d)
    BY <1>0, <1>t DEF Same, TraceTypeOK
  <1>3. OrderOK(c)'
    <2>1. ends'[c] = ends[c] \union {s}
      BY <1>0, <1>t DEF TraceTypeOK
    <2>2. \A r \in ends'[c] : pipe'[c][r] = <<>> /\ ~Holds(c)'
      BY <1>0, <2>1 DEF TraceInv, OrderOK, Holds
    <2> QED
      BY <1>0, <2>2 DEF TraceInv, OrderOK
  <1>4. ASSUME NEW r \in Streams PROVE FlowOK(c, r)'
    BY <1>0 DEF TraceInv, FlowOK
  <1>5. FileOK'
    BY <1>0, <1>t, FileKept DEF TraceInv
  <1>6. OnePiece'
    BY <1>0 DEF TraceInv, OnePiece
  <1> QED
    BY <1>1, <1>2, <1>3, <1>4, <1>5, <1>6, Whole

LEMMA WaitStep ==
    ASSUME TraceInv, NEW c \in Calls, Wait(c)
    PROVE  TraceInv'
  <1>t. TraceTypeOK
    BY DEF TraceInv
  <1>0. /\ step[c] = "running" /\ git[c] # "running"
        /\ step' = [step EXCEPT ![c] = "waited"] /\ code' = [code EXCEPT ![c] = git[c]]
        /\ UNCHANGED <<git, behind, reading, pipe, forwarded, count, wrote, ends, file>>
    BY DEF Wait, flow
  <1>s. git[c] \in Ends
    BY <1>0, <1>t, Types DEF TraceInv, OrderOK
  <1>1. TraceTypeOK'
    <2>1. step' \in [Calls -> Steps] /\ code' \in [Calls -> Ends \union {"127"}]
      BY <1>0, <1>s, <1>t DEF TraceTypeOK, Steps
    <2> QED
      BY <1>0, <1>t, <2>1 DEF TraceTypeOK
  <1>2. \A d \in Calls \ {c} : Same(d)
    BY <1>0, <1>t DEF Same, TraceTypeOK
  <1>3. OrderOK(c)'
    <2>1. step'[c] = "waited" /\ code'[c] = git[c]
      BY <1>0, <1>t DEF TraceTypeOK
    <2> QED
      BY <1>0, <1>s, <2>1 DEF TraceInv, OrderOK, Holds
  <1>4. ASSUME NEW r \in Streams PROVE FlowOK(c, r)'
    BY <1>0 DEF TraceInv, FlowOK
  <1>5. FileOK'
    BY <1>0, <1>2, <1>t, FileKept DEF TraceInv, Same
  <1>6. OnePiece'
    BY <1>0 DEF TraceInv, OnePiece
  <1> QED
    BY <1>1, <1>2, <1>3, <1>4, <1>5, <1>6, Whole

LEMMA JoinStep ==
    ASSUME TraceInv, NEW c \in Calls, Join(c)
    PROVE  TraceInv'
  <1>t. TraceTypeOK
    BY DEF TraceInv
  <1>0. /\ step[c] = "waited" /\ ends[c] = Streams
        /\ step' = [step EXCEPT ![c] = "append"]
        /\ UNCHANGED <<git, behind, reading, pipe, forwarded, count, wrote, ends, code, file>>
    BY DEF Join, flow
  <1>1. TraceTypeOK'
    <2>1. step' \in [Calls -> Steps]
      BY <1>0, <1>t DEF TraceTypeOK, Steps
    <2> QED
      BY <1>0, <1>t, <2>1 DEF TraceTypeOK
  <1>2. \A d \in Calls \ {c} : Same(d)
    BY <1>0, <1>t DEF Same, TraceTypeOK
  <1>3. OrderOK(c)'
    <2>1. step'[c] = "append"
      BY <1>0, <1>t DEF TraceTypeOK
    <2> QED
      BY <1>0, <2>1 DEF TraceInv, OrderOK, Holds
  <1>4. ASSUME NEW r \in Streams PROVE FlowOK(c, r)'
    BY <1>0 DEF TraceInv, FlowOK
  <1>5. FileOK'
    BY <1>0, <1>2, <1>t, FileKept DEF TraceInv, Same
  <1>6. OnePiece'
    BY <1>0 DEF TraceInv, OnePiece
  <1> QED
    BY <1>1, <1>2, <1>3, <1>4, <1>5, <1>6, Whole

(***************************************************************************)
(* append_jsonl                                                            *)
(***************************************************************************)

\* What a call has counted when its record is written is what was written.
LEMMA AllCounted ==
    ASSUME TraceInv, NEW c \in Calls, step[c] = "append", git[c] # "none"
    PROVE  code[c] = git[c] /\ count[c] = wrote[c]
  <1>1. TraceTypeOK /\ code[c] = git[c] /\ ends[c] = Streams
    BY DEF TraceInv, OrderOK
  <1>2. ASSUME NEW s \in Streams PROVE count[c][s] = wrote[c][s]
    <2>1. pipe[c][s] = <<>>
      BY <1>1 DEF TraceInv, OrderOK
    <2>2. count[c][s] + Len(pipe[c][s]) = wrote[c][s]
      BY DEF TraceInv, FlowOK
    <2>3. Len(pipe[c][s]) = 0
      BY <2>1
    <2> QED
      BY <1>1, <2>2, <2>3, Types
  <1> QED
    BY <1>1, <1>2, Types

LEMMA AppendRecordStep ==
    ASSUME TraceInv, NEW c \in Calls, AppendRecord(c)
    PROVE  TraceInv'
  <1>t. TraceTypeOK
    BY DEF TraceInv
  <1>0. /\ step[c] = "append" /\ step' = [step EXCEPT ![c] = "ended"]
        /\ UNCHANGED <<git, behind, reading, pipe, forwarded, count, wrote, ends, code>>
    BY DEF AppendRecord, flow
  <1>a. file' = file \/ \E part \in {"whole", "cut", "bare"} : file' = Append(file, Piece(c, part))
    BY DEF AppendRecord
  <1>s. step'[c] = "ended"
    BY <1>0, <1>t DEF TraceTypeOK
  <1>p. ASSUME NEW part \in {"whole", "cut", "bare"}
        PROVE  /\ Piece(c, part) \in Record /\ Piece(c, part).of = c
               /\ Piece(c, part).code = code[c] /\ Piece(c, part).count = count[c]
    BY <1>t, Types DEF Piece, Record
  <1>2. \A d \in Calls \ {c} : Same(d)
    BY <1>0, <1>t DEF Same, TraceTypeOK
  <1>1. TraceTypeOK'
    <2>1. step' \in [Calls -> Steps]
      BY <1>0, <1>t DEF TraceTypeOK, Steps
    <2>2. file' \in Seq(Record)
      <3>1. file \in Seq(Record)
        BY <1>t DEF TraceTypeOK
      <3>2. ASSUME NEW part \in {"whole", "cut", "bare"}
            PROVE  Append(file, Piece(c, part)) \in Seq(Record)
        BY <1>p, <3>1, AppendProperties
      <3> QED
        BY <1>a, <3>1, <3>2
    <2> QED
      BY <1>0, <1>t, <2>1, <2>2 DEF TraceTypeOK
  <1>3. OrderOK(c)'
    BY <1>0, <1>s DEF TraceInv, OrderOK, Holds
  <1>4. ASSUME NEW r \in Streams PROVE FlowOK(c, r)'
    BY <1>0 DEF TraceInv, FlowOK
  <1>5. FileOK'
    <2>1. CASE file' = file
      BY <1>0, <1>2, <1>s, <1>t, <2>1, FileKept DEF TraceInv, Same
    <2>2. CASE \E part \in {"whole", "cut", "bare"} : file' = Append(file, Piece(c, part))
      <3>1. PICK part \in {"whole", "cut", "bare"} : file' = Append(file, Piece(c, part))
        BY <2>2
      <3> DEFINE p == Piece(c, part)
      <3>p. p \in Record /\ p.of = c /\ p.code = code[c] /\ p.count = count[c]
        BY <1>p
      <3> HIDE DEF p
      <3>2. /\ file \in Seq(Record) /\ Len(file) \in Nat /\ Len(file') = Len(file) + 1
            /\ \A i \in 1..Len(file) : file'[i] = file[i]
            /\ file'[Len(file) + 1] = p
        <4>1. file' = Append(file, p)
          BY <3>1 DEF p
        <4>2. file \in Seq(Record)
          BY <1>t DEF TraceTypeOK
        <4> QED
          BY <3>p, <4>1, <4>2, AppendProperties, LenProperties
      <3> SUFFICES ASSUME NEW i \in 1..(Len(file) + 1)
                   PROVE  LET d == file'[i].of IN
                          /\ step'[d] = "ended"
                          /\ git'[d] # "none" => file'[i].code = git'[d] /\ file'[i].count = wrote'[d]
        BY <3>2 DEF FileOK
      <3>3. CASE i \in 1..Len(file)
        <4>1. file[i] \in Record
          BY <3>2, <3>3, ElementOfSeq
        <4>2. file[i].of \in Calls
          BY <4>1 DEF Record
        <4>3. /\ step[file[i].of] = "ended"
              /\ git[file[i].of] # "none" =>
                    file[i].code = git[file[i].of] /\ file[i].count = wrote[file[i].of]
          BY <3>3 DEF TraceInv, FileOK
        <4>4. step'[file[i].of] = "ended"
          BY <1>0, <1>t, <4>2, <4>3 DEF TraceTypeOK
        <4> QED
          BY <1>0, <3>2, <3>3, <4>3, <4>4
      <3>4. CASE i = Len(file) + 1
        <4>1. file'[i] = p
          BY <3>2, <3>4
        <4> QED
          BY <1>0, <1>s, <3>p, <4>1, AllCounted
      <3> QED
        BY <3>2, <3>3, <3>4
    <2> QED
      BY <1>a, <2>1, <2>2
  <1>6. OnePiece'
    <2>1. CASE file' = file
      BY <2>1 DEF TraceInv, OnePiece
    <2>2. CASE \E part \in {"whole", "cut", "bare"} : file' = Append(file, Piece(c, part))
      <3>1. PICK part \in {"whole", "cut", "bare"} : file' = Append(file, Piece(c, part))
        BY <2>2
      <3>2. /\ Len(file) \in Nat /\ Len(file') = Len(file) + 1 /\ file'[Len(file) + 1].of = c
            /\ \A i \in 1..Len(file) : file'[i] = file[i]
        <4>1. Piece(c, part) \in Record /\ file \in Seq(Record)
          BY <1>p, <1>t DEF TraceTypeOK
        <4> QED
          BY <1>p, <3>1, <4>1, AppendProperties, LenProperties
      <3>3. \A i \in 1..Len(file) : file[i].of # c
        BY <1>0 DEF TraceInv, FileOK
      <3>4. \A i \in 1..(Len(file) + 1) : i \in 1..Len(file) \/ i = Len(file) + 1
        BY <3>2
      <3> QED
        BY <3>2, <3>3, <3>4 DEF TraceInv, OnePiece
    <2> QED
      BY <1>a, <2>1, <2>2
  <1> QED
    BY <1>1, <1>2, <1>3, <1>4, <1>5, <1>6, Whole

(***************************************************************************)

LEMMA Step == TraceInv /\ [TraceNext]_traceVars => TraceInv'
  <1> SUFFICES ASSUME TraceInv, [TraceNext]_traceVars PROVE TraceInv'
    OBVIOUS
  <1>1. CASE TraceNext
    <2>1. PICK c \in Calls :
             \/ Begin(c) \/ Wait(c) \/ Join(c) \/ AppendRecord(c) \/ BehindEnds(c)
             \/ \E s \in Streams : Write(c, s) \/ Forward(c, s) \/ EndForward(c, s) \/ StopReading(c, s)
             \/ \E how \in Ends, leaves \in BOOLEAN : GitEnds(c, how, leaves)
      BY <1>1 DEF TraceNext, Ends
    <2>2. CASE Begin(c) \/ Wait(c) \/ Join(c) \/ AppendRecord(c) \/ BehindEnds(c)
      BY <2>2, BeginStep, WaitStep, JoinStep, AppendRecordStep, BehindEndsStep
    <2>3. CASE \E s \in Streams : Write(c, s) \/ Forward(c, s) \/ EndForward(c, s) \/ StopReading(c, s)
      BY <2>3, WriteStep, ForwardStep, EndForwardStep, StopReadingStep
    <2>4. CASE \E how \in Ends, leaves \in BOOLEAN : GitEnds(c, how, leaves)
      BY <2>4, GitEndsStep
    <2> QED
      BY <2>1, <2>2, <2>3, <2>4
  <1>2. CASE UNCHANGED traceVars
    <2>1. TraceTypeOK'
      BY <1>2 DEF TraceInv, TraceTypeOK, traceVars
    <2>2. \A d \in Calls : Same(d)
      BY <1>2 DEF traceVars, Same
    <2>3. FileOK' /\ OnePiece'
      BY <1>2 DEF TraceInv, FileOK, OnePiece, traceVars
    <2>4. \A d \in Calls : OrderOK(d)' /\ \A s \in Streams : FlowOK(d, s)'
      BY <2>2, Frame DEF TraceInv
    <2> QED
      BY <2>1, <2>3, <2>4 DEF TraceInv
  <1> QED
    BY <1>1, <1>2

\* The inductive invariant: each stream is counted and then piped in the order
\* it was written, a forwarder ends only when nothing can follow, and a record
\* is written when both have ended (git_recorder.rs run_git_recorder).
THEOREM TraceInvariance == TraceSpec => []TraceInv
  BY Start, Step, PTL DEF TraceSpec

\* The types of the recorder and its trace hold at every step.
THEOREM TraceTypeCorrect == TraceSpec => []TraceTypeOK
  <1>1. TraceInv => TraceTypeOK
    BY DEF TraceInv
  <1> QED
    BY <1>1, TraceInvariance, PTL

LEMMA Unchanged == TraceInv => GitUnchanged
  <1> SUFFICES ASSUME TraceInv, NEW c \in Calls
      PROVE /\ step[c] = "ended" /\ git[c] # "none" =>
                  /\ code[c] = git[c]
                  /\ \A s \in reading[c] : Len(forwarded[c][s]) = wrote[c][s]
            /\ \A s \in Streams : \A i \in DOMAIN forwarded[c][s] : forwarded[c][s][i] = i
            /\ \A i \in DOMAIN file :
                  file[i].of = c /\ git[c] # "none" => file[i].code = git[c] /\ file[i].count = wrote[c]
    BY DEF GitUnchanged
  <1>t. TraceTypeOK
    BY DEF TraceInv
  <1>1. ASSUME step[c] = "ended", git[c] # "none"
        PROVE  code[c] = git[c] /\ \A s \in reading[c] : Len(forwarded[c][s]) = wrote[c][s]
    <2>1. code[c] = git[c] /\ ends[c] = Streams
      BY <1>1 DEF TraceInv, OrderOK
    <2>2. ASSUME NEW s \in reading[c] PROVE Len(forwarded[c][s]) = wrote[c][s]
      <3>1. s \in Streams
        BY <1>t, Types
      <3>2. pipe[c][s] = <<>>
        BY <2>1, <3>1 DEF TraceInv, OrderOK
      <3>3. FlowOK(c, s)
        BY <3>1 DEF TraceInv
      <3>4. Len(pipe[c][s]) = 0
        BY <3>2
      <3> QED
        BY <1>t, <3>1, <3>3, <3>4, Types DEF FlowOK
    <2> QED
      BY <2>1, <2>2
  <1>2. ASSUME NEW s \in Streams, NEW i \in DOMAIN forwarded[c][s] PROVE forwarded[c][s][i] = i
    <2>1. forwarded[c][s] \in Seq(Nat)
      BY <1>t, Types
    <2>2. i \in 1..Len(forwarded[c][s])
      BY <2>1, LenProperties
    <2> QED
      BY <2>2 DEF TraceInv, FlowOK
  <1>3. ASSUME NEW i \in DOMAIN file, file[i].of = c, git[c] # "none"
        PROVE  file[i].code = git[c] /\ file[i].count = wrote[c]
    <2>1. i \in 1..Len(file)
      BY <1>t, LenProperties DEF TraceTypeOK
    <2> QED
      BY <1>3, <2>1 DEF TraceInv, FileOK
  <1> QED
    BY <1>1, <1>2, <1>3

\* git through the recorder gives what git gives, and its record says so, for
\* any number of calls and chunks (git_recorder.rs run_git_recorder).
THEOREM RecorderTrue == TraceSpec => []GitUnchanged
  BY TraceInvariance, Unchanged, PTL

\* A line that does not load begins with a piece that was cut off, and what
\* loads is a call's only piece.
LEMMA LoadsWhole == TraceInv => TraceWhole
  <1> SUFFICES ASSUME TraceInv PROVE TraceWhole
    OBVIOUS
  <1>1. file \in Seq(Record) /\ DOMAIN file = 1..Len(file) /\ Len(file) \in Nat
    BY LenProperties DEF TraceInv, TraceTypeOK
  <1>2. \A i \in DOMAIN file : file[i].part \in {"whole", "cut", "bare"}
    <2> SUFFICES ASSUME NEW i \in DOMAIN file PROVE file[i].part \in {"whole", "cut", "bare"}
      OBVIOUS
    <2>1. file[i] \in Record
      BY <1>1, ElementOfSeq
    <2> QED
      BY <2>1 DEF Record
  <1>3. Errors \subseteq CutOff
    BY <1>2 DEF Errors, Loaded, Lines, NewLine, CutOff
  <1>4. IsFiniteSet(CutOff)
    <2>1. IsFiniteSet(DOMAIN file)
      BY <1>1, FS_Interval
    <2> QED
      BY <2>1, FS_Subset DEF CutOff
  <1>5. Cardinality(Errors) <= Cuts
    BY <1>3, <1>4, FS_Subset DEF Cuts
  <1>6. \A i, j \in Loaded : file[i].of = file[j].of => i = j
    BY <1>1 DEF TraceInv, OnePiece, Loaded, Lines
  <1>7. ASSUME NEW i \in DOMAIN file, file[i].part = "whole",
               i > 1 => file[i - 1].part \notin {"cut", "bare"}
        PROVE  i \in Loaded
    <2>1. i = 1 \/ NewLine(file[i - 1].part)
      <3>1. CASE i = 1
        BY <3>1
      <3>2. CASE i # 1
        <4>1. i > 1 /\ i - 1 \in DOMAIN file
          BY <1>1, <3>2
        <4> QED
          BY <1>2, <1>7, <4>1 DEF NewLine
      <3> QED
        BY <3>1, <3>2
    <2> QED
      BY <1>7, <2>1 DEF Loaded, Lines, NewLine
  <1> QED
    BY <1>5, <1>6, <1>7 DEF TraceWhole

\* A trace has no more bad lines than records were cut off, and gives back
\* every other record once, for any number of calls and short writes
\* (trace.rs write_once, trace_summary.rs load_trace).
THEOREM TraceReads == TraceSpec => []TraceWhole
  BY TraceInvariance, LoadsWhole, PTL
=============================================================================
