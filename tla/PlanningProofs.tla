---------------------------- MODULE PlanningProofs ----------------------------
(***************************************************************************)
(* Proofs about two more of the components that MCServices puts side by    *)
(* side: the stored rules, and the way from a plan to a workflow.          *)
(***************************************************************************)
EXTENDS ServicesProofs, FiniteSetTheorems

-----------------------------------------------------------------------------
(* The stored rules                                                        *)

RuleRow == [family: Nat, current: BOOLEAN, enabled: BOOLEAN, count: Nat]
RuleJob == [pc: {"idle", "supersede", "insert", "disable", "start", "read", "next", "write",
                 "drop"},
            id: Nat, todo: SUBSET Rules!Ids, value: Nat]

RulesType ==
    /\ last \in Nat /\ faults \in Nat
    /\ rule \in [Rules!Ids -> RuleRow]
    /\ ended \in [Rules!Ids -> Nat]
    /\ job \in [Rules!Actors -> RuleJob]
    /\ \A i \in Rules!Ids : i > last => rule[i] = Rules!Absent /\ ended[i] = 0
    /\ \A i \in Rules!Here : rule[i].family \in 1..i

\* Who counts the end of an execution of rule i.
Writes(a, i) == job[a].pc = "write" /\ job[a].id = i

\* Of the versions of a rule one is enabled, and the edit of it is on its way to
\* another one.
OneEnabled ==
    /\ \A i, j \in Rules!Here :
           /\ rule[i].enabled /\ rule[j].enabled
           /\ rule[i].family = rule[j].family /\ rule[i].family \notin reopened
           => i = j
    /\ job["api"].pc \in {"supersede", "insert"} => job["api"].id \in Rules!Here
    /\ job["api"].pc = "supersede" /\ job["api"].value = 1 => rule[job["api"].id].enabled
    /\ job["api"].pc = "insert" /\ job["api"].value = 1 =>
           \A i \in Rules!Here :
               /\ rule[i].family = rule[job["api"].id].family
               /\ rule[i].family \notin reopened
               => ~rule[i].enabled

\* One at a time counts for a rule, from what the row says.
CountsTrue ==
    /\ \A a \in Rules!Actors : job[a].pc = "write" => job[a].id \in 1..last
    /\ faults = 0 /\ ~overlap =>
           /\ \A a, b \in Rules!Actors, i \in Rules!Here : Writes(a, i) /\ Writes(b, i) => a = b
           /\ \A a \in Rules!Actors, i \in Rules!Here :
                  Writes(a, i) => job[a].value = rule[i].count + 1
           /\ \A i \in Rules!Here :
                  ended[i] = rule[i].count + IF \E a \in Rules!Actors : Writes(a, i) THEN 1 ELSE 0

RulesInv == RulesType /\ OneEnabled /\ CountsTrue


\* Insert adds one current row behind the others.
LEMMA InsertRow ==
    ASSUME RulesType, NEW family \in 1..(last + 1), NEW enabled \in BOOLEAN,
           Rules!Insert(family, enabled)
    PROVE  /\ last + 1 \in Rules!Ids /\ last' = last + 1
           /\ rule' \in [Rules!Ids -> RuleRow]
           /\ rule'[last + 1].family = family /\ rule'[last + 1].enabled = enabled
           /\ rule'[last + 1].count = 0
           /\ \A i \in Rules!Ids \ {last + 1} : rule'[i] = rule[i]
           /\ Rules!Here' = Rules!Here \cup {last + 1}
           /\ \A i \in Rules!Here : i \in 1..last
<1>1. last + 1 \in Rules!Ids /\ last' = last + 1
  BY ServicesAssumption DEF RulesType, Rules!Insert, Rules!Ids
<1> DEFINE row == [family |-> family, current |-> TRUE, enabled |-> enabled, count |-> 0]
<1>2. row \in RuleRow /\ row # Rules!Absent
  BY DEF RulesType, RuleRow, Rules!Absent
<1>3. row.family = family /\ row.enabled = enabled /\ row.count = 0
  OBVIOUS
<1>4. rule' = [rule EXCEPT ![last + 1] = row]
  BY DEF Rules!Insert
<1>5. \A i \in Rules!Here : i \in 1..last
  BY ServicesAssumption DEF RulesType, Rules!Here, Rules!Ids
<1>6. Rules!Ids' = Rules!Ids
  BY DEF Rules!Ids
<1> HIDE DEF row
<1>7. rule' \in [Rules!Ids -> RuleRow]
  BY <1>1, <1>2, <1>4 DEF RulesType
<1>8. rule'[last + 1] = row /\ \A i \in Rules!Ids \ {last + 1} : rule'[i] = rule[i]
  BY <1>1, <1>4 DEF RulesType
<1>9. Rules!Here' = Rules!Here \cup {last + 1}
  BY <1>1, <1>2, <1>8 DEF Rules!Here, Rules!Ids, Rules!Absent
<1> QED BY <1>1, <1>3, <1>5, <1>7, <1>8, <1>9

\* What an action that counts nothing has to keep.
LEMMA CountsFrame ==
    ASSUME RulesInv, RulesType', last <= last',
           \A a \in Rules!Actors : job'[a].pc = "write" => job'[a] = job[a],
           faults' = 0 =>
               /\ faults = 0 /\ overlap' = overlap
               /\ \A a \in Rules!Actors : job[a].pc = "write" => job'[a] = job[a],
           \A i \in Rules!Here' :
               \/ i \in Rules!Here /\ rule'[i].count = rule[i].count /\ ended'[i] = ended[i]
               \/ i > last /\ rule'[i].count = 0 /\ ended'[i] = 0
    PROVE  CountsTrue'
<1>0. Rules!Actors' = Rules!Actors /\ last \in Nat /\ last' \in Nat
  BY DEF Rules!Actors, RulesInv, RulesType
<1>1. \A a \in Rules!Actors : job'[a].pc = "write" => job'[a].id \in 1..last'
  BY <1>0 DEF RulesInv, CountsTrue
<1>2. ASSUME faults' = 0, ~overlap'
      PROVE  /\ \A a, b \in Rules!Actors, i \in Rules!Here' :
                    Writes(a, i)' /\ Writes(b, i)' => a = b
             /\ \A a \in Rules!Actors, i \in Rules!Here' :
                    Writes(a, i)' => job'[a].value = rule'[i].count + 1
             /\ \A i \in Rules!Here' :
                    ended'[i] = rule'[i].count
                                + IF \E a \in Rules!Actors : Writes(a, i)' THEN 1 ELSE 0
  <2>1. \A a \in Rules!Actors, i \in Rules!Here' :
            /\ Writes(a, i)' <=> Writes(a, i)
            /\ Writes(a, i) => job'[a] = job[a] /\ i \in Rules!Here
    <3> SUFFICES ASSUME NEW a \in Rules!Actors, NEW i \in Rules!Here'
                 PROVE  /\ Writes(a, i)' <=> Writes(a, i)
                        /\ Writes(a, i) => job'[a] = job[a] /\ i \in Rules!Here
      OBVIOUS
    <3>1. Writes(a, i)' <=> Writes(a, i)
      BY <1>2 DEF Writes
    <3>2. Writes(a, i) => job'[a] = job[a] /\ i \in 1..last
      BY <1>2 DEF Writes, RulesInv, CountsTrue
    <3> QED BY <1>0, <3>1, <3>2
  <2>2. \A a, b \in Rules!Actors, i \in Rules!Here' : Writes(a, i)' /\ Writes(b, i)' => a = b
    BY <1>2, <2>1 DEF RulesInv, CountsTrue
  <2>3. \A a \in Rules!Actors, i \in Rules!Here' :
            Writes(a, i)' => job'[a].value = rule'[i].count + 1
    BY <1>0, <1>2, <2>1 DEF RulesInv, CountsTrue, Writes
  <2>4. ASSUME NEW i \in Rules!Here'
        PROVE  ended'[i] = rule'[i].count
                           + IF \E a \in Rules!Actors : Writes(a, i)' THEN 1 ELSE 0
    <3>1. CASE i \in Rules!Here /\ rule'[i].count = rule[i].count /\ ended'[i] = ended[i]
      BY <1>2, <2>1, <3>1 DEF RulesInv, CountsTrue
    <3>2. CASE i > last /\ rule'[i].count = 0 /\ ended'[i] = 0
      <4>1. \A a \in Rules!Actors : ~Writes(a, i)
        BY <1>0, <3>2 DEF RulesInv, CountsTrue, Writes
      <4> QED BY <2>1, <3>2, <4>1
    <3> QED BY <3>1, <3>2
  <2> QED BY <2>2, <2>3, <2>4
<1> QED BY <1>0, <1>1, <1>2 DEF CountsTrue

\* What an action that is no part of an edit has to keep.
LEMMA EnabledFrame ==
    ASSUME RulesInv, RulesType', job'["api"].pc \notin {"supersede", "insert"},
           reopened \subseteq reopened',
           \A i \in Rules!Here' :
               /\ i \in Rules!Here /\ rule'[i].family = rule[i].family
               /\ rule'[i].enabled => rule[i].enabled
    PROVE  OneEnabled'
BY DEF RulesInv, OneEnabled

\* A row without a family, flags and counts is the absent one.
LEMMA IsAbsent ==
    ASSUME NEW row \in RuleRow, row.family = 0, ~row.current, ~row.enabled, row.count = 0
    PROVE  row = Rules!Absent
BY DEF RuleRow, Rules!Absent

\* Every step keeps the invariant of the stored rules.
LEMMA RulesStep ==
    ASSUME RulesInv, Rules!Next
    PROVE  RulesInv'
<1>0. /\ last \in Nat /\ faults \in Nat /\ rule \in [Rules!Ids -> RuleRow]
      /\ ended \in [Rules!Ids -> Nat] /\ job \in [Rules!Actors -> RuleJob]
      /\ Rules!Ids' = Rules!Ids /\ Rules!Actors' = Rules!Actors
      /\ RulesType /\ OneEnabled /\ CountsTrue
      /\ "api" \in Rules!Actors /\ "worker" \in Rules!Actors
      /\ \A i \in Rules!Ids : i \in Nat /\ i >= 1
      /\ Rules!Here \subseteq Rules!Ids /\ \A i \in Rules!Here : i \in 1..last
  BY ServicesAssumption DEF RulesInv, RulesType, Rules!Ids, Rules!Actors, Rules!Here
<1>j. /\ Rules!Idle \in RuleJob /\ Rules!Idle.pc = "idle"
      /\ \A j \in RuleJob : /\ j.pc \in {"idle", "supersede", "insert", "disable", "start",
                                         "read", "next", "write", "drop"}
                            /\ j.id \in Nat /\ j.todo \subseteq Rules!Ids /\ j.value \in Nat
  BY DEF RuleJob, Rules!Idle
\* An action with a job of one process or thread.
<1>t. ASSUME NEW a \in Rules!Actors, NEW j \in RuleJob, job' = [job EXCEPT ![a] = j]
      PROVE  /\ job' \in [Rules!Actors -> RuleJob]
             /\ job'[a] = j /\ \A b \in Rules!Actors \ {a} : job'[b] = job[b]
  BY <1>0, <1>t
\* An action that leaves the rows alone.
<1>r. ASSUME UNCHANGED <<rule, last, reopened>>, job' \in [Rules!Actors -> RuleJob],
             faults' \in Nat, ended' \in [Rules!Ids -> Nat],
             \A i \in Rules!Ids : i > last => ended'[i] = ended[i]
      PROVE  /\ RulesType' /\ Rules!Here' = Rules!Here
             /\ job'["api"].pc \notin {"supersede", "insert"} => OneEnabled'
  <2>1. RulesType' /\ Rules!Here' = Rules!Here
    BY <1>0, <1>r DEF RulesType, Rules!Here, Rules!Ids
  <2>2. \A i \in Rules!Here' : i \in Rules!Here /\ rule'[i] = rule[i]
    BY <1>r, <2>1
  <2> QED BY <1>r, <2>1, <2>2, EnabledFrame
\* Such an action that counts nothing either.
<1>s. ASSUME UNCHANGED <<rule, last, reopened, ended, overlap>>,
             job' \in [Rules!Actors -> RuleJob], faults' \in Nat,
             faults' = 0 => faults = 0,
             \A a \in Rules!Actors : job'[a].pc = "write" => job'[a] = job[a],
             faults' = 0 =>
                 \A a \in Rules!Actors : job[a].pc = "write" => job'[a] = job[a]
      PROVE  /\ RulesType' /\ Rules!Here' = Rules!Here /\ CountsTrue'
             /\ job'["api"].pc \notin {"supersede", "insert"} => RulesInv'
  <2>1. /\ RulesType' /\ Rules!Here' = Rules!Here
        /\ job'["api"].pc \notin {"supersede", "insert"} => OneEnabled'
    BY <1>0, <1>r, <1>s
  <2>2. CountsTrue'
    <3>1. \A i \in Rules!Here' :
              i \in Rules!Here /\ rule'[i].count = rule[i].count /\ ended'[i] = ended[i]
      BY <1>s, <2>1
    <3>2. last <= last'
      BY <1>0, <1>s
    <3>3. overlap' = overlap
      BY <1>s
    <3> QED BY <1>s, <2>1, <3>1, <3>2, <3>3, CountsFrame
  <2>3. RulesType' /\ OneEnabled' /\ CountsTrue' => RulesInv'
    BY DEF RulesInv
  <2> QED BY <2>1, <2>2, <2>3
<1>1. ASSUME NEW family \in {last + 1}, NEW enabled \in BOOLEAN, Rules!Insert(family, enabled),
             job' \in [Rules!Actors -> RuleJob],
             job["api"].pc = "idle", job'["api"].pc \in {"idle", "start"},
             \A b \in Rules!Actors \ {"api"} : job'[b] = job[b],
             UNCHANGED <<ended, overlap, reopened, faults>>
      PROVE  RulesInv'
  <2>1. family \in 1..(last + 1)
    BY <1>0
  <2>2. /\ last + 1 \in Rules!Ids /\ last' = last + 1
        /\ rule' \in [Rules!Ids -> RuleRow]
        /\ rule'[last + 1].family = last + 1
        /\ rule'[last + 1].count = 0
        /\ \A i \in Rules!Ids \ {last + 1} : rule'[i] = rule[i]
        /\ Rules!Here' = Rules!Here \cup {last + 1}
    BY <1>0, <1>1, <2>1, InsertRow
  <2>3. RulesType'
    BY <1>0, <1>1, <2>2 DEF RulesType, Rules!Absent
  <2>4. OneEnabled'
    <3>1. \A i \in Rules!Here : /\ rule'[i] = rule[i] /\ rule[i].family \in 1..i
                                /\ rule[i].family # last + 1 /\ i # last + 1
      BY <1>0, <2>2 DEF RulesType
    <3> QED BY <1>0, <1>1, <2>2, <3>1 DEF OneEnabled
  <2>5. CountsTrue'
    <3>1. \A i \in Rules!Here' :
              \/ i \in Rules!Here /\ rule'[i].count = rule[i].count /\ ended'[i] = ended[i]
              \/ i > last /\ rule'[i].count = 0 /\ ended'[i] = 0
      BY <1>0, <1>1, <2>2 DEF RulesType
    <3>2. last <= last'
      BY <1>0, <2>2
    <3>3. /\ \A a \in Rules!Actors : job'[a].pc = "write" => job'[a] = job[a]
          /\ \A a \in Rules!Actors : job[a].pc = "write" => job'[a] = job[a]
      BY <1>1
    <3> QED BY <1>1, <2>3, <3>1, <3>2, <3>3, CountsFrame
  <2> QED BY <2>3, <2>4, <2>5 DEF RulesInv
<1>2. ASSUME NEW enabled \in BOOLEAN, Rules!create_structured_rule(enabled)
      PROVE  RulesInv'
  BY <1>0, <1>1, <1>2 DEF Rules!create_structured_rule, Rules!Request, Rules!At
<1>3. CASE Rules!_one_shot_run
  <2>1. PICK j \in RuleJob : job' = [job EXCEPT !["api"] = j] /\ j.pc = "start"
    <3> DEFINE j == [Rules!Idle EXCEPT !.pc = "start", !.todo = {last + 1}]
    <3>1. last + 1 \in Rules!Ids
      BY <1>0, <1>3, ServicesAssumption DEF Rules!_one_shot_run, Rules!Insert, Rules!Ids
    <3>2. j \in RuleJob /\ j.pc = "start"
      BY <3>1 DEF RuleJob, Rules!Idle
    <3>3. job' = [job EXCEPT !["api"] = j]
      BY <1>3 DEF Rules!_one_shot_run
    <3> QED BY <3>2, <3>3
  <2>2. /\ job' \in [Rules!Actors -> RuleJob] /\ job'["api"].pc = "start"
        /\ \A b \in Rules!Actors \ {"api"} : job'[b] = job[b]
    BY <1>0, <1>t, <2>1
  <2>3. /\ Rules!Insert(last + 1, TRUE) /\ job["api"].pc = "idle"
        /\ UNCHANGED <<ended, overlap, reopened, faults>>
    BY <1>3 DEF Rules!_one_shot_run, Rules!Request, Rules!At
  <2> QED BY <1>1, <2>2, <2>3
<1>4. ASSUME NEW i \in Rules!Ids, Rules!apply_edit(i)  PROVE RulesInv'
  <2> DEFINE v == IF rule[i].enabled THEN 1 ELSE 0
             j == [Rules!Idle EXCEPT !.pc = "supersede", !.id = i, !.value = v]
  <2>1. j \in RuleJob /\ j.pc = "supersede" /\ j.id = i /\ j.value = v
    BY <1>0 DEF RuleJob, Rules!Idle
  <2>2. /\ job' = [job EXCEPT !["api"] = j] /\ i \in Rules!Here /\ job["api"].pc = "idle"
        /\ UNCHANGED <<rule, last, ended, overlap, reopened, faults>>
    <3>1. job' = [job EXCEPT !["api"] = j]
      BY <1>4 DEF Rules!apply_edit
    <3> QED BY <1>4, <3>1 DEF Rules!apply_edit, Rules!Request, Rules!At
  <2>3. v = 1 => rule[i].enabled
    OBVIOUS
  <2> HIDE DEF j, v
  <2>4. /\ job' \in [Rules!Actors -> RuleJob] /\ job'["api"] = j
        /\ \A b \in Rules!Actors \ {"api"} : job'[b] = job[b]
    BY <1>0, <1>t, <2>1, <2>2
  <2>5. RulesType' /\ Rules!Here' = Rules!Here /\ CountsTrue'
    BY <1>0, <1>s, <2>1, <2>2, <2>4
  <2>6. OneEnabled'
    BY <1>0, <2>1, <2>2, <2>3, <2>4, <2>5 DEF OneEnabled
  <2> QED BY <2>5, <2>6 DEF RulesInv
\* An action that changes rows that stay.
<1>w. ASSUME rule' \in [Rules!Ids -> RuleRow], \A i \in Rules!Ids : rule'[i].family = rule[i].family,
             \A i \in Rules!Ids \ Rules!Here : rule'[i] = rule[i],
             job' \in [Rules!Actors -> RuleJob], UNCHANGED <<last, ended, faults>>
      PROVE  RulesType' /\ Rules!Here' = Rules!Here
  <2>1. Rules!Here' = Rules!Here
    BY <1>0, <1>w DEF Rules!Here, RulesType, Rules!Absent
  <2>2. \A i \in Rules!Ids : i > last => i \notin Rules!Here
    BY <1>0
  <2> QED BY <1>0, <1>w, <2>1, <2>2 DEF RulesType
<1>5. CASE Rules!Supersede
  <2> DEFINE i == job["api"].id
             row == [rule[i] EXCEPT !.current = FALSE, !.enabled = FALSE]
             j == [job["api"] EXCEPT !.pc = "insert"]
  <2>1. job["api"].pc = "supersede" /\ i \in Rules!Here
    BY <1>0, <1>5 DEF Rules!Supersede, Rules!At, OneEnabled
  <2>2. /\ row \in RuleRow /\ row.family = rule[i].family /\ row.count = rule[i].count
        /\ ~row.enabled
    BY <1>0, <2>1 DEF RuleRow
  <2>3. j \in RuleJob /\ j.pc = "insert" /\ j.id = i /\ j.value = job["api"].value
    BY <1>0 DEF RuleJob
  <2>4. /\ rule' = [rule EXCEPT ![i] = row] /\ job' = [job EXCEPT !["api"] = j]
        /\ UNCHANGED <<last, ended, overlap, reopened, faults>>
    BY <1>5 DEF Rules!Supersede
  <2> HIDE DEF row, j
  <2>5. /\ job' \in [Rules!Actors -> RuleJob] /\ job'["api"] = j
        /\ \A b \in Rules!Actors \ {"api"} : job'[b] = job[b]
    BY <1>0, <1>t, <2>3, <2>4
  <2>6. /\ rule' \in [Rules!Ids -> RuleRow] /\ rule'[i] = row
        /\ \A k \in Rules!Ids \ {i} : rule'[k] = rule[k]
    BY <1>0, <2>1, <2>2, <2>4
  <2>7. RulesType' /\ Rules!Here' = Rules!Here
    BY <1>0, <1>w, <2>1, <2>2, <2>4, <2>5, <2>6
  <2> HIDE DEF i
  <2>8. OneEnabled'
    <3>1. /\ job'["api"].pc = "insert" /\ job'["api"].id = i /\ i \in Rules!Here
          /\ job'["api"].value = job["api"].value
          /\ job["api"].value = 1 => rule[i].enabled
      BY <1>0, <2>1, <2>3, <2>5 DEF OneEnabled, i
    <3>2. \A k, l \in Rules!Here' :
              rule'[k].enabled /\ rule'[l].enabled =>
              rule[k].enabled /\ rule[l].enabled /\ k # i /\ l # i
      BY <1>0, <2>2, <2>6, <2>7
    <3>3. \A k \in Rules!Here' : rule'[k].family = rule[k].family /\ (rule'[k].enabled => rule[k].enabled)
      BY <1>0, <2>2, <2>6, <2>7
    <3>4. \A k, l \in Rules!Here' :
           /\ rule'[k].enabled /\ rule'[l].enabled
           /\ rule'[k].family = rule'[l].family /\ rule'[k].family \notin reopened'
           => k = l
      BY <1>0, <2>4, <2>7, <3>3 DEF OneEnabled
    <3>5. ASSUME NEW k \in Rules!Here', job["api"].value = 1,
                 rule'[k].family = rule'[i].family, rule'[k].family \notin reopened'
          PROVE  ~rule'[k].enabled
      BY <1>0, <2>4, <2>7, <3>1, <3>2, <3>3, <3>5 DEF OneEnabled
    <3> QED BY <2>7, <3>1, <3>4, <3>5 DEF OneEnabled
  <2>9. CountsTrue'
    <3>1. \A k \in Rules!Here' :
              k \in Rules!Here /\ rule'[k].count = rule[k].count /\ ended'[k] = ended[k]
      BY <1>0, <2>2, <2>4, <2>6, <2>7
    <3> QED BY <1>0, <2>1, <2>3, <2>4, <2>5, <2>7, <3>1, CountsFrame
  <2> QED BY <2>7, <2>8, <2>9 DEF RulesInv
<1>6. CASE Rules!InsertVersion
  <2> DEFINE i == job["api"].id
             family == rule[i].family
             enabled == job["api"].value = 1
  <2>1. job["api"].pc = "insert" /\ i \in Rules!Here
    BY <1>0, <1>6 DEF Rules!InsertVersion, Rules!At, OneEnabled
  <2>2. family \in 1..(last + 1) /\ enabled \in BOOLEAN
    <3>1. family \in 1..i /\ i \in 1..last
      BY <1>0, <2>1 DEF RulesType
    <3> QED BY <1>0, <3>1
  <2>3. /\ Rules!Insert(family, enabled) /\ job' = [job EXCEPT !["api"] = Rules!Idle]
        /\ UNCHANGED <<ended, overlap, reopened, faults>>
    BY <1>6 DEF Rules!InsertVersion
  <2>4. enabled => \A k \in Rules!Here : rule[k].family = family /\ rule[k].family \notin reopened
                                         => ~rule[k].enabled
    BY <1>0, <2>1 DEF OneEnabled
  <2>5. rule[i].family = family
    OBVIOUS
  <2> HIDE DEF family, enabled
  <2>6. /\ last + 1 \in Rules!Ids /\ last' = last + 1
        /\ rule' \in [Rules!Ids -> RuleRow]
        /\ rule'[last + 1].family = family /\ rule'[last + 1].enabled = enabled
        /\ rule'[last + 1].count = 0
        /\ \A k \in Rules!Ids \ {last + 1} : rule'[k] = rule[k]
        /\ Rules!Here' = Rules!Here \cup {last + 1}
    BY <1>0, <2>2, <2>3, InsertRow
  <2>7. /\ job' \in [Rules!Actors -> RuleJob] /\ job'["api"].pc = "idle"
        /\ \A b \in Rules!Actors \ {"api"} : job'[b] = job[b]
    BY <1>0, <1>j, <1>t, <2>3
  <2> HIDE DEF i
  <2>8. RulesType'
    <3>1. /\ last' \in Nat /\ faults' \in Nat /\ ended' \in [Rules!Ids -> Nat]
      BY <1>0, <2>3, <2>6
    <3>2. \A k \in Rules!Ids : k > last' => rule'[k] = Rules!Absent /\ ended'[k] = 0
      BY <1>0, <2>3, <2>6 DEF RulesType
    <3>3. \A k \in Rules!Here' : rule'[k].family \in 1..k
      BY <1>0, <2>2, <2>6 DEF RulesType
    <3> QED BY <1>0, <2>6, <2>7, <3>1, <3>2, <3>3 DEF RulesType
  <2>9. OneEnabled'
    <3>1. \A k \in Rules!Here : rule'[k] = rule[k] /\ k # last + 1
      BY <1>0, <2>6
    <3>2. \A k, l \in Rules!Here :
           /\ rule[k].enabled /\ rule[l].enabled
           /\ rule[k].family = rule[l].family /\ rule[k].family \notin reopened
           => k = l
      BY <1>0 DEF OneEnabled
    <3>3. \A k, l \in Rules!Here' :
           /\ rule'[k].enabled /\ rule'[l].enabled
           /\ rule'[k].family = rule'[l].family /\ rule'[k].family \notin reopened'
           => k = l
      BY <2>3, <2>4, <2>6, <3>1, <3>2
    <3> QED BY <2>7, <3>3 DEF OneEnabled
  <2>10. CountsTrue'
    <3>1. \A k \in Rules!Here' :
              \/ k \in Rules!Here /\ rule'[k].count = rule[k].count /\ ended'[k] = ended[k]
              \/ k > last /\ rule'[k].count = 0 /\ ended'[k] = 0
      BY <1>0, <2>3, <2>6 DEF RulesType
    <3>2. last <= last'
      BY <1>0, <2>6
    <3>3. /\ \A a \in Rules!Actors : job'[a].pc = "write" => job'[a] = job[a]
          /\ \A a \in Rules!Actors : job[a].pc = "write" => job'[a] = job[a]
      BY <2>1, <2>7
    <3> QED BY <2>3, <2>8, <3>1, <3>2, <3>3, CountsFrame
  <2> QED BY <2>8, <2>9, <2>10 DEF RulesInv
\* The processes that stop with an error.
<1>7. CASE Rules!InsertFails \/ Rules!DropFails
  <2>1. /\ job' = [job EXCEPT !["api"] = Rules!Idle] /\ faults' = faults + 1
        /\ UNCHANGED <<rule, last, reopened, ended, overlap>>
    BY <1>7 DEF Rules!InsertFails, Rules!DropFails, Rules!Fault
  <2>2. /\ job' \in [Rules!Actors -> RuleJob] /\ job'["api"] = Rules!Idle
        /\ \A b \in Rules!Actors \ {"api"} : job'[b] = job[b]
    BY <1>0, <1>j, <1>t, <2>1
  <2>3. faults' \in Nat /\ faults' # 0
    BY <1>0, <2>1
  <2> QED BY <1>0, <1>j, <1>s, <2>1, <2>2, <2>3
<1>8. ASSUME NEW S, Rules!Die(S)  PROVE RulesInv'
  <2>1. /\ job' = [a \in Rules!Actors |-> IF a \in S THEN Rules!Idle ELSE job[a]]
        /\ faults' = faults + 1
        /\ UNCHANGED <<rule, last, reopened, ended, overlap>>
    BY <1>8 DEF Rules!Die, Rules!Fault
  <2>2. job' \in [Rules!Actors -> RuleJob]
    BY <1>0, <1>j, <2>1
  <2>3. faults' \in Nat /\ faults' # 0
    BY <1>0, <2>1
  <2>4. \A a \in Rules!Actors : job'[a] = job[a] \/ job'[a].pc = "idle"
    BY <1>j, <2>1
  <2>5. RulesType' /\ Rules!Here' = Rules!Here /\ CountsTrue'
    BY <1>0, <1>s, <2>1, <2>2, <2>3, <2>4
  <2>6. OneEnabled'
    BY <1>0, <2>1, <2>4, <2>5 DEF OneEnabled
  <2> QED BY <2>5, <2>6 DEF RulesInv
\* The actions that only give a process something else to do.
<1>9. ASSUME NEW a \in Rules!Actors, NEW j \in RuleJob, job' = [job EXCEPT ![a] = j],
             job[a].pc # "write", j.pc \notin {"supersede", "insert", "write"},
             UNCHANGED <<rule, last, reopened, ended, overlap, faults>>
      PROVE  RulesInv'
  <2>1. /\ job' \in [Rules!Actors -> RuleJob] /\ job'[a] = j
        /\ \A b \in Rules!Actors \ {a} : job'[b] = job[b]
    BY <1>9, <1>t
  <2>2. RulesType' /\ Rules!Here' = Rules!Here /\ CountsTrue'
    BY <1>0, <1>s, <1>9, <2>1
  <2>3. OneEnabled'
    <3>1. job'["api"] = job["api"] \/ job'["api"].pc \notin {"supersede", "insert"}
      BY <1>0, <1>9, <2>1
    <3> QED BY <1>0, <1>9, <2>2, <3>1 DEF OneEnabled
  <2> QED BY <2>2, <2>3 DEF RulesInv
<1>10. ASSUME NEW i \in Rules!Ids, Rules!apply_resolution(i)  PROVE RulesInv'
  <2> DEFINE j == [Rules!Idle EXCEPT !.pc = "disable", !.todo = Rules!Serving \ {i}]
  <2>1. j \in RuleJob /\ j.pc = "disable"
    BY <1>0 DEF RuleJob, Rules!Idle, Rules!Serving
  <2>2. job' = [job EXCEPT !["api"] = j]
    BY <1>10 DEF Rules!apply_resolution
  <2>3. /\ job["api"].pc = "idle"
        /\ UNCHANGED <<rule, last, reopened, ended, overlap, faults>>
    BY <1>10 DEF Rules!apply_resolution, Rules!Request, Rules!At
  <2> HIDE DEF j
  <2> QED BY <1>0, <1>9, <2>1, <2>2, <2>3
<1>11. ASSUME NEW t \in Threads, Rules!find_matching_rules(t)  PROVE RulesInv'
  <2> DEFINE j == [Rules!Idle EXCEPT !.pc = "start", !.todo = Rules!Serving]
  <2>1. j \in RuleJob /\ j.pc = "start"
    BY <1>0 DEF RuleJob, Rules!Idle, Rules!Serving
  <2>2. job' = [job EXCEPT ![t] = j]
    BY <1>11 DEF Rules!find_matching_rules
  <2>3. /\ job[t].pc = "idle" /\ t \in Rules!Actors
        /\ UNCHANGED <<rule, last, reopened, ended, overlap, faults>>
    BY <1>11 DEF Rules!find_matching_rules, Rules!At, Rules!Actors
  <2> HIDE DEF j
  <2> QED BY <1>9, <2>1, <2>2, <2>3
<1>12. ASSUME NEW a \in Rules!Actors, NEW i \in Rules!Ids, Rules!resume_execution(a, i)
       PROVE  RulesInv'
  <2> DEFINE j == [Rules!Idle EXCEPT !.pc = "read", !.id = i]
  <2>1. j \in RuleJob /\ j.pc = "read"
    BY <1>0 DEF RuleJob, Rules!Idle
  <2>2. job' = [job EXCEPT ![a] = j]
    BY <1>12 DEF Rules!resume_execution
  <2>3. /\ job[a].pc = "idle" /\ UNCHANGED <<rule, last, reopened, ended, overlap, faults>>
    BY <1>12 DEF Rules!resume_execution, Rules!At
  <2> HIDE DEF j
  <2> QED BY <1>9, <2>1, <2>2, <2>3
<1>13. ASSUME NEW a \in Rules!Actors, Rules!start_execution(a)  PROVE RulesInv'
  <2>1. /\ job[a].pc = "start" /\ UNCHANGED <<rule, last, reopened, ended, overlap, faults>>
    BY <1>13 DEF Rules!start_execution, Rules!At
  <2>2. PICK i \in job[a].todo :
            LET rest == [job[a] EXCEPT !.todo = IF a = "api" THEN job[a].todo
                                                ELSE job[a].todo \ {i}] IN
            \/ job' = [job EXCEPT ![a] = [rest EXCEPT !.pc = "read", !.id = i]]
            \/ job' = [job EXCEPT ![a] = [rest EXCEPT !.pc = "next", !.id = i]]
    BY <1>13 DEF Rules!start_execution
  <2> DEFINE rest == [job[a] EXCEPT !.todo = IF a = "api" THEN job[a].todo
                                             ELSE job[a].todo \ {i}]
  <2>3. job[a] \in RuleJob /\ i \in Nat
    BY <1>0, <1>j
  <2>4. rest \in RuleJob
    BY <2>3 DEF RuleJob
  <2>5. /\ [rest EXCEPT !.pc = "read", !.id = i] \in RuleJob
        /\ [rest EXCEPT !.pc = "read", !.id = i].pc = "read"
        /\ [rest EXCEPT !.pc = "next", !.id = i] \in RuleJob
        /\ [rest EXCEPT !.pc = "next", !.id = i].pc = "next"
    BY <2>3, <2>4 DEF RuleJob
  <2> QED BY <1>9, <2>1, <2>2, <2>5
\* What a job goes on with.
<1>u. ASSUME NEW a \in Rules!Actors
      PROVE  /\ Rules!Resumed(a) \in RuleJob
             /\ Rules!Resumed(a).pc \in {"drop", "start", "idle"}
  <2>1. job[a] \in RuleJob
    BY <1>0
  <2>2. /\ [job[a] EXCEPT !.pc = "drop", !.value = 0] \in RuleJob
        /\ [job[a] EXCEPT !.pc = "drop", !.value = 0].pc = "drop"
        /\ [job[a] EXCEPT !.pc = "start", !.value = 0] \in RuleJob
        /\ [job[a] EXCEPT !.pc = "start", !.value = 0].pc = "start"
    BY <2>1 DEF RuleJob
  <2> QED BY <1>j, <2>2 DEF Rules!Resumed
<1>14. ASSUME NEW a \in Rules!Actors, Rules!GoOn(a)  PROVE RulesInv'
  <2>1. /\ job[a].pc = "next" /\ job' = [job EXCEPT ![a] = Rules!Resumed(a)]
        /\ UNCHANGED <<rule, last, reopened, ended, overlap, faults>>
    BY <1>14 DEF Rules!GoOn, Rules!At
  <2> QED BY <1>9, <1>u, <2>1
<1>15. ASSUME NEW a \in Rules!Actors, Rules!ReadCounters(a)  PROVE RulesInv'
  <2> DEFINE i == job[a].id
  <2>1. job[a].pc = "read" /\ UNCHANGED <<rule, last, reopened, faults>>
    BY <1>15 DEF Rules!ReadCounters, Rules!At
  <2>2. CASE i \notin Rules!Here
    <3>1. job' = [job EXCEPT ![a] = Rules!Resumed(a)] /\ UNCHANGED <<ended, overlap>>
      BY <1>15, <2>2 DEF Rules!ReadCounters
    <3> QED BY <1>9, <1>u, <2>1, <3>1
  <2>3. CASE i \in Rules!Here
    <3> DEFINE n == rule[i].count + 1
               j == [job[a] EXCEPT !.pc = "write", !.value = n]
    <3>1. /\ i \in Rules!Ids /\ i \in 1..last /\ rule[i].count \in Nat /\ ended[i] \in Nat
          /\ job[a] \in RuleJob
      BY <1>0, <2>3 DEF RuleRow
    <3>2. j \in RuleJob /\ j.pc = "write" /\ j.id = i /\ j.value = rule[i].count + 1
      <4>1. n \in Nat /\ n = rule[i].count + 1
        BY <3>1
      <4> HIDE DEF n
      <4>2. j \in RuleJob /\ j.pc = "write" /\ j.id = job[a].id /\ j.value = n
        BY <3>1, <4>1 DEF RuleJob
      <4> QED BY <4>1, <4>2
    <3>3. /\ job' = [job EXCEPT ![a] = j]
          /\ ended' = [ended EXCEPT ![i] = ended[i] + 1]
      BY <1>15, <2>3 DEF Rules!ReadCounters
    <3>4. ~overlap' =>
              /\ ~overlap
              /\ \A b \in Rules!Actors \ {a} : ~(job[b].pc = "write" /\ job[b].id = i)
      BY <1>15, <2>3 DEF Rules!ReadCounters, Rules!At
    <3> HIDE DEF i, j
    <3>5. /\ job' \in [Rules!Actors -> RuleJob] /\ job'[a] = j
          /\ \A b \in Rules!Actors \ {a} : job'[b] = job[b]
      BY <1>t, <3>2, <3>3
    <3>6. /\ ended' \in [Rules!Ids -> Nat] /\ ended'[i] = ended[i] + 1
          /\ \A k \in Rules!Ids \ {i} : ended'[k] = ended[k]
      BY <1>0, <3>1, <3>3
    <3>7. RulesType' /\ Rules!Here' = Rules!Here /\ OneEnabled'
      <4>1. \A k \in Rules!Ids : k > last => ended'[k] = ended[k]
        BY <1>0, <3>1, <3>6
      <4>2. job'["api"] = job["api"] \/ job'["api"].pc = "write"
        BY <1>0, <3>2, <3>5
      <4>3. RulesType' /\ Rules!Here' = Rules!Here
        BY <1>0, <1>r, <2>1, <3>5, <3>6, <4>1
      <4> QED BY <1>0, <2>1, <4>2, <4>3 DEF OneEnabled
    <3>8. CountsTrue'
      <4>1. \A b \in Rules!Actors : job'[b].pc = "write" => job'[b].id \in 1..last'
        BY <1>0, <2>1, <3>1, <3>2, <3>5 DEF CountsTrue
      <4>2. ASSUME faults' = 0, ~overlap'
            PROVE  /\ \A b, c \in Rules!Actors, k \in Rules!Here :
                          Writes(b, k)' /\ Writes(c, k)' => b = c
                   /\ \A b \in Rules!Actors, k \in Rules!Here :
                          Writes(b, k)' => job'[b].value = rule[k].count + 1
                   /\ \A k \in Rules!Here :
                          ended'[k] = rule[k].count
                                      + IF \E b \in Rules!Actors : Writes(b, k)' THEN 1 ELSE 0
        <5>1. /\ \A b \in Rules!Actors, k \in Rules!Here :
                     Writes(b, k)' <=> (Writes(b, k) /\ b # a /\ k # i) \/ (b = a /\ k = i)
              /\ \A b \in Rules!Actors : ~Writes(b, i)
              /\ \A k \in Rules!Here : ~Writes(a, k)
          BY <2>1, <3>2, <3>4, <3>5, <4>2 DEF Writes
        <5>2. /\ \A b, c \in Rules!Actors, k \in Rules!Here :
                     Writes(b, k) /\ Writes(c, k) => b = c
              /\ \A b \in Rules!Actors, k \in Rules!Here :
                     Writes(b, k) => job[b].value = rule[k].count + 1
              /\ \A k \in Rules!Here :
                     ended[k] = rule[k].count
                                + IF \E b \in Rules!Actors : Writes(b, k) THEN 1 ELSE 0
          BY <1>0, <2>1, <3>4, <4>2 DEF CountsTrue
        <5>3. \A b, c \in Rules!Actors, k \in Rules!Here : Writes(b, k)' /\ Writes(c, k)' => b = c
          BY <5>1, <5>2
        <5>4. \A b \in Rules!Actors, k \in Rules!Here :
                  Writes(b, k)' => job'[b].value = rule[k].count + 1
          BY <3>2, <3>5, <5>1, <5>2
        <5>5. ASSUME NEW k \in Rules!Here
              PROVE  ended'[k] = rule[k].count
                                 + IF \E b \in Rules!Actors : Writes(b, k)' THEN 1 ELSE 0
          <6>1. CASE k = i
            BY <3>1, <3>6, <5>1, <5>2, <6>1
          <6>2. CASE k # i
            <7>1. (\E b \in Rules!Actors : Writes(b, k)') <=> \E b \in Rules!Actors : Writes(b, k)
              BY <5>1, <6>2
            <7> QED BY <1>0, <3>6, <5>2, <6>2, <7>1
          <6> QED BY <6>1, <6>2
        <5> QED BY <5>3, <5>4, <5>5
      <4> QED BY <1>0, <2>1, <3>7, <4>1, <4>2 DEF CountsTrue
    <3> QED BY <3>7, <3>8 DEF RulesInv
  <2> QED BY <2>2, <2>3
<1>16. ASSUME NEW a \in Rules!Actors, Rules!WriteCounters(a)  PROVE RulesInv'
  <2> DEFINE i == job[a].id
             n == job[a].value
  <2>1. /\ job[a].pc = "write" /\ job' = [job EXCEPT ![a] = Rules!Resumed(a)]
        /\ UNCHANGED <<last, reopened, ended, overlap, faults>>
        /\ rule' = IF i \in Rules!Here THEN [rule EXCEPT ![i].count = n] ELSE rule
    BY <1>16 DEF Rules!WriteCounters, Rules!At
  <2>2. /\ job' \in [Rules!Actors -> RuleJob]
        /\ job'[a].pc \in {"drop", "start", "idle"}
        /\ \A b \in Rules!Actors \ {a} : job'[b] = job[b]
    BY <1>t, <1>u, <2>1
  <2>3. n \in Nat
    BY <1>0, <1>j
  <2> HIDE DEF i, n
  <2>4. /\ rule' \in [Rules!Ids -> RuleRow]
        /\ \A k \in Rules!Ids : /\ rule'[k].family = rule[k].family
                                /\ rule'[k].enabled = rule[k].enabled
                                /\ rule'[k].count = IF k = i /\ i \in Rules!Here THEN n
                                                    ELSE rule[k].count
        /\ \A k \in Rules!Ids \ Rules!Here : rule'[k] = rule[k]
    <3>1. CASE i \in Rules!Here
      <4> DEFINE row == [rule[i] EXCEPT !.count = n]
      <4>1. rule[i] \in RuleRow /\ i \in Rules!Ids
        BY <1>0, <3>1
      <4>2. /\ row \in RuleRow /\ row.family = rule[i].family /\ row.enabled = rule[i].enabled
            /\ row.count = n
        BY <2>3, <4>1 DEF RuleRow
      <4>3. rule' = [rule EXCEPT ![i] = row]
        BY <2>1, <3>1
      <4> HIDE DEF row
      <4>4. /\ rule' \in [Rules!Ids -> RuleRow] /\ rule'[i] = row
            /\ \A k \in Rules!Ids \ {i} : rule'[k] = rule[k]
        BY <1>0, <4>1, <4>2, <4>3
      <4> QED BY <3>1, <4>2, <4>4
    <3>2. CASE i \notin Rules!Here
      BY <1>0, <2>1, <3>2
    <3> QED BY <3>1, <3>2
  <2>5. RulesType' /\ Rules!Here' = Rules!Here
    BY <1>w, <2>1, <2>2, <2>4
  <2>6. OneEnabled'
    <3>1. job'["api"] = job["api"] \/ job'["api"].pc \notin {"supersede", "insert"}
      BY <1>0, <2>2
    <3>2. \A k \in Rules!Here : /\ rule'[k].family = rule[k].family
                                /\ rule'[k].enabled = rule[k].enabled
      BY <1>0, <2>4
    <3> QED BY <1>0, <2>1, <2>5, <3>1, <3>2 DEF OneEnabled
  <2>7. CountsTrue'
    <3>1. \A b \in Rules!Actors : job'[b].pc = "write" => job'[b].id \in 1..last'
      BY <1>0, <2>1, <2>2 DEF CountsTrue
    <3>2. ASSUME faults' = 0, ~overlap'
          PROVE  /\ \A b, c \in Rules!Actors, k \in Rules!Here :
                        Writes(b, k)' /\ Writes(c, k)' => b = c
                 /\ \A b \in Rules!Actors, k \in Rules!Here :
                        Writes(b, k)' => job'[b].value = rule'[k].count + 1
                 /\ \A k \in Rules!Here :
                        ended'[k] = rule'[k].count
                                    + IF \E b \in Rules!Actors : Writes(b, k)' THEN 1 ELSE 0
      <4>1. \A b, c \in Rules!Actors, k \in Rules!Here : Writes(b, k) /\ Writes(c, k) => b = c
        BY <1>0, <2>1, <3>2 DEF CountsTrue
      <4>2. \A b \in Rules!Actors, k \in Rules!Here :
                Writes(b, k) => job[b].value = rule[k].count + 1
        BY <1>0, <2>1, <3>2 DEF CountsTrue
      <4>3. \A k \in Rules!Here :
                ended[k] = rule[k].count
                           + IF \E b \in Rules!Actors : Writes(b, k) THEN 1 ELSE 0
        BY <1>0, <2>1, <3>2 DEF CountsTrue
      <4>4. /\ \A b \in Rules!Actors, k \in Rules!Here :
                   Writes(b, k)' <=> Writes(b, k) /\ b # a
            /\ \A k \in Rules!Here : Writes(a, k) <=> k = i
        BY <2>1, <2>2 DEF Writes, i
      <4>5. \A b, c \in Rules!Actors, k \in Rules!Here : Writes(b, k)' /\ Writes(c, k)' => b = c
        BY <4>1, <4>4
      <4>6. \A b \in Rules!Actors, k \in Rules!Here :
                Writes(b, k)' => job'[b].value = rule'[k].count + 1
        <5> SUFFICES ASSUME NEW b \in Rules!Actors, NEW k \in Rules!Here, Writes(b, k)'
                     PROVE  job'[b].value = rule'[k].count + 1
          OBVIOUS
        <5>1. Writes(b, k) /\ b # a /\ k # i
          BY <4>1, <4>4
        <5> QED BY <1>0, <2>2, <2>4, <4>2, <5>1
      <4>7. ASSUME NEW k \in Rules!Here
            PROVE  ended'[k] = rule'[k].count
                               + IF \E b \in Rules!Actors : Writes(b, k)' THEN 1 ELSE 0
        <5>1. CASE k = i
          <6>1. Writes(a, k) /\ ~\E b \in Rules!Actors : Writes(b, k)'
            BY <4>1, <4>4, <5>1
          <6>2. rule'[k].count = n /\ n = rule[k].count + 1
            BY <1>0, <2>4, <4>2, <5>1, <6>1 DEF n
          <6>3. rule[k].count \in Nat /\ ended'[k] = rule[k].count + 1
            <7>1. rule[k] \in RuleRow
              BY <1>0
            <7> QED BY <2>1, <4>3, <6>1, <7>1 DEF RuleRow
          <6> QED BY <6>1, <6>2, <6>3
        <5>2. CASE k # i
          <6>1. (\E b \in Rules!Actors : Writes(b, k)') <=> \E b \in Rules!Actors : Writes(b, k)
            BY <4>4, <5>2
          <6> QED BY <1>0, <2>1, <2>4, <4>3, <5>2, <6>1
        <5> QED BY <5>1, <5>2
      <4> QED BY <4>5, <4>6, <4>7
    <3> QED BY <1>0, <2>1, <2>5, <3>1, <3>2 DEF CountsTrue
  <2> QED BY <2>5, <2>6, <2>7 DEF RulesInv
<1>17. CASE Rules!DisableNext
  <2>1. PICK i \in job["api"].todo :
            /\ rule' = [rule EXCEPT ![i].enabled = FALSE]
            /\ job' = [job EXCEPT !["api"] =
                          IF job["api"].todo = {i} THEN Rules!Idle
                          ELSE [job["api"] EXCEPT !.todo = job["api"].todo \ {i}]]
    BY <1>17 DEF Rules!DisableNext
  <2> DEFINE row == [rule[i] EXCEPT !.enabled = FALSE]
             rest == [job["api"] EXCEPT !.todo = job["api"].todo \ {i}]
             j == IF job["api"].todo = {i} THEN Rules!Idle ELSE rest
  <2>2. /\ job["api"].pc = "disable" /\ UNCHANGED <<last, ended, overlap, reopened, faults>>
        /\ rule' = [rule EXCEPT ![i] = row] /\ job' = [job EXCEPT !["api"] = j]
    BY <1>17, <2>1 DEF Rules!DisableNext, Rules!At
  <2>3. i \in Rules!Ids /\ rule[i] \in RuleRow /\ job["api"] \in RuleJob
    BY <1>0, <1>j, <2>1
  <2>4. /\ row \in RuleRow /\ row.family = rule[i].family /\ row.count = rule[i].count
        /\ ~row.enabled
    BY <2>3 DEF RuleRow
  <2>5. rule[i] = Rules!Absent => row = Rules!Absent
    <3>1. row \in RuleRow /\ row.current = rule[i].current
      BY <2>3 DEF RuleRow
    <3>2. /\ Rules!Absent.family = 0 /\ Rules!Absent.current = FALSE
          /\ Rules!Absent.count = 0
      BY DEF Rules!Absent
    <3> HIDE DEF row
    <3>3. rule[i] = Rules!Absent => row.family = 0 /\ ~row.current /\ ~row.enabled /\ row.count = 0
      BY <2>4, <3>1, <3>2
    <3> QED BY <3>1, <3>3, IsAbsent
  <2>6. rest \in RuleJob /\ rest.pc = "disable"
    BY <2>2, <2>3 DEF RuleJob
  <2>7. j \in RuleJob /\ j.pc \in {"disable", "idle"}
    BY <1>j, <2>6
  <2> HIDE DEF row, j
  <2>8. /\ job' \in [Rules!Actors -> RuleJob] /\ job'["api"] = j
        /\ \A b \in Rules!Actors \ {"api"} : job'[b] = job[b]
    BY <1>0, <1>t, <2>2, <2>7
  <2>9. /\ rule' \in [Rules!Ids -> RuleRow] /\ rule'[i] = row
        /\ \A k \in Rules!Ids \ {i} : rule'[k] = rule[k]
    BY <1>0, <2>2, <2>3, <2>4
  <2>10. RulesType' /\ Rules!Here' = Rules!Here
    <3>1. \A k \in Rules!Ids : rule'[k].family = rule[k].family
      BY <2>4, <2>9
    <3>2. \A k \in Rules!Ids \ Rules!Here : rule'[k] = rule[k]
      BY <2>5, <2>9 DEF Rules!Here
    <3> QED BY <1>w, <2>2, <2>8, <2>9, <3>1, <3>2
  <2>11. \A k \in Rules!Here' :
             /\ k \in Rules!Here /\ rule'[k].family = rule[k].family
             /\ rule'[k].enabled => rule[k].enabled
             /\ rule'[k].count = rule[k].count
    BY <1>0, <2>4, <2>9, <2>10
  <2>12. OneEnabled'
    BY <2>2, <2>7, <2>8, <2>10, <2>11, EnabledFrame
  <2>13. CountsTrue'
    <3>1. \A k \in Rules!Here' :
              k \in Rules!Here /\ rule'[k].count = rule[k].count /\ ended'[k] = ended[k]
      BY <2>2, <2>11
    <3>2. /\ \A a \in Rules!Actors : job'[a].pc = "write" => job'[a] = job[a]
          /\ \A a \in Rules!Actors : job[a].pc = "write" => job'[a] = job[a]
      BY <2>2, <2>7, <2>8
    <3>3. last <= last'
      BY <1>0, <2>2
    <3> QED BY <2>2, <2>10, <3>1, <3>2, <3>3, CountsFrame
  <2> QED BY <2>10, <2>12, <2>13 DEF RulesInv
<1>18. ASSUME NEW i \in Rules!Ids, NEW enabled \in BOOLEAN, Rules!set_enabled(i, enabled)
       PROVE  RulesInv'
  <2> DEFINE row == [rule[i] EXCEPT !.enabled = enabled]
  <2>1. /\ job["api"].pc = "idle" /\ UNCHANGED <<job, last, ended, overlap, faults>>
        /\ i \in Rules!Here /\ rule' = [rule EXCEPT ![i] = row]
        /\ reopened \subseteq reopened'
    BY <1>18 DEF Rules!set_enabled, Rules!Request, Rules!At
  <2>2. enabled /\ (\E n \in Rules!Here \ {i} : rule[n].family = rule[i].family)
            => rule[i].family \in reopened'
    BY <1>18 DEF Rules!set_enabled
  <2>3. i \in Rules!Ids /\ rule[i] \in RuleRow
    BY <1>0
  <2>4. /\ row \in RuleRow /\ row.family = rule[i].family /\ row.count = rule[i].count
        /\ row.enabled = enabled
    BY <2>3 DEF RuleRow
  <2> HIDE DEF row
  <2>5. /\ rule' \in [Rules!Ids -> RuleRow] /\ rule'[i] = row
        /\ \A k \in Rules!Ids \ {i} : rule'[k] = rule[k]
    BY <1>0, <2>1, <2>3, <2>4
  <2>6. RulesType' /\ Rules!Here' = Rules!Here
    <3>1. \A k \in Rules!Ids : rule'[k].family = rule[k].family
      BY <2>4, <2>5
    <3>2. job' \in [Rules!Actors -> RuleJob]
      BY <1>0, <2>1
    <3> QED BY <1>w, <2>1, <2>5, <3>1, <3>2
  <2>7. OneEnabled'
    <3>1. \A k, l \in Rules!Here :
           /\ rule[k].enabled /\ rule[l].enabled
           /\ rule[k].family = rule[l].family /\ rule[k].family \notin reopened
           => k = l
      BY <1>0 DEF OneEnabled
    <3>2. ASSUME NEW k \in Rules!Here, NEW l \in Rules!Here, k # l,
                 rule'[k].enabled, rule'[l].enabled, rule'[k].family = rule'[l].family,
                 rule'[k].family \notin reopened'
          PROVE  FALSE
      <4>1. rule[k].family = rule[l].family /\ rule[k].family \notin reopened'
        BY <1>0, <2>4, <2>5, <3>2
      <4>2. CASE k = i \/ l = i
        BY <1>0, <2>2, <2>4, <2>5, <3>2, <4>1, <4>2
      <4>3. CASE k # i /\ l # i
        BY <1>0, <2>1, <2>5, <3>1, <3>2, <4>1, <4>3
      <4> QED BY <4>2, <4>3
    <3> QED BY <2>1, <2>6, <3>2 DEF OneEnabled
  <2>8. CountsTrue'
    <3>1. \A k \in Rules!Here' :
              k \in Rules!Here /\ rule'[k].count = rule[k].count /\ ended'[k] = ended[k]
      BY <1>0, <2>1, <2>4, <2>5, <2>6
    <3>3. last <= last'
      BY <1>0, <2>1
    <3> QED BY <2>1, <2>6, <3>1, <3>3, CountsFrame
  <2> QED BY <2>6, <2>7, <2>8 DEF RulesInv
\* An action that deletes the rows of a set.
<1>d. ASSUME NEW S,
             rule' = [i \in Rules!Ids |-> IF i \in S THEN Rules!Absent ELSE rule[i]],
             ended' = [i \in Rules!Ids |-> IF i \in S THEN 0 ELSE ended[i]],
             job' \in [Rules!Actors -> RuleJob], job["api"].pc \notin {"write"},
             job'["api"].pc = "idle",
             \A a \in Rules!Actors \ {"api"} : job'[a] = job[a],
             UNCHANGED <<last, overlap, reopened, faults>>
      PROVE  RulesInv'
  <2>1. Rules!Absent \in RuleRow
    BY DEF Rules!Absent, RuleRow
  <2>2. /\ Rules!Here' = Rules!Here \ S
        /\ \A i \in Rules!Here' : rule'[i] = rule[i] /\ ended'[i] = ended[i]
    BY <1>0, <1>d DEF Rules!Here, Rules!Ids
  <2>3. RulesType'
    BY <1>0, <1>d, <2>1, <2>2 DEF RulesType
  <2>4. OneEnabled'
    BY <1>d, <2>2, <2>3, EnabledFrame
  <2>5. CountsTrue'
    <3>1. \A k \in Rules!Here' :
              k \in Rules!Here /\ rule'[k].count = rule[k].count /\ ended'[k] = ended[k]
      BY <2>2
    <3>2. /\ \A a \in Rules!Actors : job'[a].pc = "write" => job'[a] = job[a]
          /\ \A a \in Rules!Actors : job[a].pc = "write" => job'[a] = job[a]
      BY <1>d
    <3>3. last <= last'
      BY <1>0, <1>d
    <3> QED BY <1>d, <2>3, <3>1, <3>2, <3>3, CountsFrame
  <2> QED BY <2>3, <2>4, <2>5 DEF RulesInv
<1>19. ASSUME NEW i \in Rules!Ids, Rules!delete_rule(i)  PROVE RulesInv'
  <2>1. /\ job["api"].pc = "idle" /\ UNCHANGED <<job, last, overlap, reopened, faults>>
        /\ rule' = [rule EXCEPT ![i] = Rules!Absent] /\ ended' = [ended EXCEPT ![i] = 0]
    BY <1>19 DEF Rules!delete_rule, Rules!Request, Rules!At
  <2>2. /\ rule' = [k \in Rules!Ids |-> IF k \in {i} THEN Rules!Absent ELSE rule[k]]
        /\ ended' = [k \in Rules!Ids |-> IF k \in {i} THEN 0 ELSE ended[k]]
    BY <1>0, <2>1
  <2> QED BY <1>0, <1>d, <2>1, <2>2
<1>20. CASE Rules!Drop
  <2>1. /\ job["api"].pc = "drop" /\ job' = [job EXCEPT !["api"] = Rules!Idle]
        /\ UNCHANGED <<last, overlap, reopened, faults>>
        /\ rule' = [k \in Rules!Ids |-> IF k \in job["api"].todo THEN Rules!Absent ELSE rule[k]]
        /\ ended' = [k \in Rules!Ids |-> IF k \in job["api"].todo THEN 0 ELSE ended[k]]
    BY <1>20 DEF Rules!Drop, Rules!At
  <2>2. /\ job' \in [Rules!Actors -> RuleJob] /\ job'["api"].pc = "idle"
        /\ \A b \in Rules!Actors \ {"api"} : job'[b] = job[b]
    BY <1>0, <1>j, <1>t, <2>1
  <2> QED BY <1>d, <2>1, <2>2
<1> QED
  BY <1>2, <1>3, <1>4, <1>5, <1>6, <1>7, <1>8, <1>10, <1>11, <1>12, <1>13, <1>14, <1>15, <1>16,
     <1>17, <1>18, <1>19, <1>20
  DEF Rules!Next, Rules!Run

\* The invariant of the stored rules holds at the start.
LEMMA InitRules == Rules!Init => RulesInv
<1> SUFFICES ASSUME Rules!Init PROVE RulesInv
  OBVIOUS
<1>1. Rules!Idle \in RuleJob /\ Rules!Idle.pc = "idle" /\ Rules!Absent \in RuleRow
  BY DEF RuleJob, Rules!Idle, Rules!Absent, RuleRow
<1>2. /\ rule = [i \in Rules!Ids |-> Rules!Absent] /\ ended = [i \in Rules!Ids |-> 0]
      /\ job = [a \in Rules!Actors |-> Rules!Idle] /\ last = 0 /\ faults = 0
  BY DEF Rules!Init
<1>3. Rules!Here = {}
  BY <1>2 DEF Rules!Here
<1>4. "api" \in Rules!Actors /\ \A a \in Rules!Actors : job[a].pc = "idle"
  BY <1>1, <1>2 DEF Rules!Actors
<1> QED BY <1>1, <1>2, <1>3, <1>4 DEF RulesInv, RulesType, OneEnabled, CountsTrue

\* In the behaviours of the stored rules, their invariant.
LEMMA RulesKept == Spec => [](part = "rules" => RulesInv)
<1> DEFINE Inv == part = "rules" => RulesInv
<1>1. Init => Inv
  BY InitRules DEF Init
<1>2. Inv /\ [Next]_vars => Inv'
  <2> SUFFICES ASSUME Inv, [Next]_vars, part' = "rules" PROVE RulesInv'
    OBVIOUS
  <2>1. part = "rules" /\ (Rules!Next \/ UNCHANGED Rules!vars)
    BY StepOfPart
  <2>2. CASE Rules!Next
    BY <2>1, <2>2, RulesStep
  <2>3. CASE UNCHANGED Rules!vars
    <3>1. /\ UNCHANGED <<rule, last, job, ended, overlap, reopened, faults>>
          /\ Rules!Here' = Rules!Here /\ Rules!Ids' = Rules!Ids /\ Rules!Actors' = Rules!Actors
      BY <2>3 DEF Rules!vars, Rules!Here, Rules!Ids, Rules!Actors
    <3>2. RulesType' /\ OneEnabled'
      BY <2>1, <3>1 DEF RulesInv, RulesType, OneEnabled
    <3>3. CountsTrue'
      BY <2>1, <3>1 DEF RulesInv, CountsTrue, Writes
    <3> QED BY <3>2, <3>3 DEF RulesInv
  <2> QED BY <2>1, <2>2, <2>3
<1> QED BY <1>1, <1>2, PTL DEF Spec

\* A set of which any two elements are one has at most one.
LEMMA AtMostOne ==
    ASSUME NEW S, \A x, y \in S : x = y
    PROVE  Cardinality(S) \in 0..1 /\ (S # {} => Cardinality(S) = 1)
<1>1. CASE S = {}
  BY <1>1, FS_EmptySet
<1>2. CASE S # {}
  <2>1. PICK x \in S : TRUE
    BY <1>2
  <2>2. S = {x}
    BY <2>1
  <2> QED BY <2>2, FS_Singleton
<1> QED BY <1>1, <1>2

\* An event never starts two versions of one rule, whatever operators edit, enable,
\* disable and delete, and whenever an edit stops half-way; only a family of which an
\* operator enabled an old version is exempt.
THEOREM OneVersionAnswers == Spec => []OneVersionServes
<1>1. (part = "rules" => RulesInv) => OneVersionServes
  <2> SUFFICES ASSUME RulesInv PROVE Rules!OneVersionServes
    BY DEF OneVersionServes
  <2> SUFFICES ASSUME NEW f \in Rules!Ids \ reopened
               PROVE  Cardinality(Rules!Family(f) \cap Rules!Serving) <= 1
    BY DEF Rules!OneVersionServes, Rules!Cardinality, Cardinality
  <2>1. \A x, y \in Rules!Family(f) \cap Rules!Serving : x = y
    BY DEF Rules!Family, Rules!Serving, RulesInv, OneEnabled
  <2>2. Cardinality(Rules!Family(f) \cap Rules!Serving) \in 0..1
    BY <2>1, AtMostOne
  <2> QED BY <2>2
<1> QED BY <1>1, RulesKept, PTL

\* What a rule counts is what has ended of it, over any number of stops and resumes,
\* unless two ends were counted at once or a process died.
THEOREM CountersTell == Spec => []OutcomesCounted
<1>1. (part = "rules" => RulesInv) => OutcomesCounted
  <2> SUFFICES ASSUME RulesInv PROVE Rules!OutcomesCounted
    BY DEF OutcomesCounted
  <2> SUFFICES ASSUME faults = 0, ~overlap, NEW i \in Rules!Here
               PROVE  rule[i].count + Cardinality({a \in Rules!Actors :
                          Rules!At(a, "write") /\ job[a].id = i}) = ended[i]
    BY DEF Rules!OutcomesCounted, Rules!Cardinality, Cardinality
  <2> DEFINE W == {a \in Rules!Actors : Rules!At(a, "write") /\ job[a].id = i}
  <2>1. \A a \in Rules!Actors : a \in W <=> Writes(a, i)
    BY DEF Writes, Rules!At
  <2>2. \A a, b \in W : a = b
    BY <2>1 DEF RulesInv, CountsTrue
  <2>3. ended[i] = rule[i].count + IF \E a \in Rules!Actors : Writes(a, i) THEN 1 ELSE 0
    BY DEF RulesInv, CountsTrue
  <2>4. (W # {}) <=> \E a \in Rules!Actors : Writes(a, i)
    BY <2>1
  <2>5. rule[i].count \in Nat
    BY DEF RulesInv, RulesType, RuleRow, Rules!Here
  <2>6. (W # {} => Cardinality(W) = 1) /\ (W = {} => Cardinality(W) = 0)
    BY <2>2, AtMostOne, FS_EmptySet
  <2> HIDE DEF W
  <2>7. rule[i].count + Cardinality(W) = ended[i]
    BY <2>3, <2>4, <2>5, <2>6
  <2> QED BY <2>7 DEF W
<1> QED BY <1>1, RulesKept, PTL


-----------------------------------------------------------------------------
(* From a plan to a workflow: the limits, and the approvals                *)

PlanRow == [key: Keys \cup {"none"}, decision: {"create", "cancel", "noop"},
            result: {"stored", "noop", "cancelled", "requires_approval", "blocked",
                     "skipped", "created"}]
PlanJob == [id: Planning!Ids, pc: {"ask", "asked", "noop", "cancel", "check", "create",
                                   "read", "readDay", "cool", "mark"}]
PlanWrite == [id: Planning!Ids, pc: {"write", "writeDay"},
              value: Nat, window: Nat, sameHour: BOOLEAN]
Counting == {"create", "read", "write", "readDay", "writeDay", "cool"}

PlanType ==
    /\ proposal \in [Planning!Ids -> PlanRow \cup {Planning!None}]
    /\ request \in [Planning!Ids -> {"none", "pending", "approved", "rejected"}]
    /\ DOMAIN job = Planning!Actors
    /\ \A p \in Planning!Actors :
           job[p] = Planning!Idle \/ job[p] \in PlanJob \/ job[p] \in PlanWrite
    /\ \A p \in Planning!Actors : job[p].pc # "idle" => job[p].id \in Planning!Saved
    /\ counter \in [{"hour", "day"} -> [value: Nat, hour: Nat]]
    /\ hour \in Nat /\ inHour \in Nat /\ excused \in [faults: Nat, overlap: BOOLEAN]
    /\ made \in [Planning!Ids -> Nat] /\ asked \in [Planning!Ids -> Nat]
    /\ counter["hour"].hour <= hour
    /\ \A p \in Planning!Actors : job[p] \in PlanWrite => job[p].window <= hour

\* One at a time has passed the limits and is not yet recorded: what the counter says,
\* with what that one is going to add, is no less than what was created.
Recorded ==
    ~excused.overlap =>
        /\ \A p, q \in Planning!Actors :
               job[p].pc \in Counting /\ job[q].pc \in Counting => p = q
        /\ inHour <= HourlyLimit
        /\ \A p \in Planning!Actors :
               /\ job[p].pc = "create" => /\ Planning!_get_counter("hour") < HourlyLimit
                                          /\ Planning!key(p) \notin cooling
               /\ job[p].pc = "read" => inHour <= Planning!_get_counter("hour") + 1
               /\ job[p].pc = "write" =>
                      /\ inHour <= IF job[p].window = hour THEN job[p].value ELSE 0
                      /\ job[p].sameHour => counter["hour"].hour = job[p].window
        /\ (\A p \in Planning!Actors : job[p].pc \notin {"read", "write"}) =>
               inHour <= Planning!_get_counter("hour")
        /\ \A k \in hot \ cooling :
               \E p \in Planning!Actors :
                   job[p].pc \in Counting \ {"create"} /\ Planning!key(p) = k

\* An approval that the API is spending.
Spending(i) == job[Api].pc \in {"check", "create"} /\ job[Api].id = i

\* A proposal is in the hands of one planner, or of the operators.
InOneHand ==
    /\ \A i \in Planning!Saved :
           /\ proposal[i].key \in Campaigns =>
                  made[i] + (IF request[i] = "pending" THEN 1 ELSE 0)
                          + (IF Spending(i) THEN 1 ELSE 0) <= asked[i]
           /\ proposal[i].key \notin Campaigns => made[i] <= 1 /\ request[i] = "none"
           /\ proposal[i].result = "stored" =>
                  excused.faults > 0 \/ \E p \in Planners : job[p].pc # "idle" /\ job[p].id = i
    /\ \A i \in Planning!Ids \ Planning!Saved :
           made[i] = 0 /\ asked[i] = 0 /\ request[i] = "none"
    /\ \A p \in Planners :
           /\ job[p].pc \in {"check", "create"} =>
                  Planning!key(p) \notin Campaigns /\ made[job[p].id] = 0
           /\ job[p].pc = "ask" => request[job[p].id] = "none" /\ Planning!key(p) \in Campaigns
    /\ \A p, q \in Planners :
           job[p].pc # "idle" /\ job[q].pc # "idle" /\ job[p].id = job[q].id => p = q
    /\ job[Api].pc # "ask" /\ (job[Api].pc # "idle" => Planning!key(Api) \in Campaigns)

PlanInv == PlanType /\ Recorded /\ InOneHand


\* What a step of no one between check and record has to keep.
LEMMA RecordedFrame ==
    ASSUME PlanType, Recorded,
           \A q \in Planning!Actors :
               \/ job'[q] = job[q]
               \/ job[q].pc \notin Counting \ {"create"} /\ job'[q].pc \notin Counting,
           \A i \in Planning!Saved : proposal'[i].key = proposal[i].key,
           ~excused'.overlap => ~excused.overlap,
           UNCHANGED <<counter, cooling, hot, hour, inHour>>
    PROVE  Recorded'
<1>1. \A q \in Planning!Actors :
          /\ job'[q].pc \in Counting => job'[q] = job[q]
          /\ job[q].pc \in Counting \ {"create"} => job'[q] = job[q]
          /\ job[q].pc \in Counting => proposal'[job[q].id].key = proposal[job[q].id].key
  <2>1. \A q \in Planning!Actors : job[q].pc \in Counting => job[q].id \in Planning!Saved
    BY DEF PlanType, Counting
  <2> QED BY <2>1
<1>2. Planning!Actors' = Planning!Actors
  BY DEF Planning!Actors
<1>3. \A q \in Planning!Actors :
          job[q].pc \in {"read", "write"} => job[q].pc \in Counting \ {"create"}
  BY DEF Counting
<1>4. \A q \in Planning!Actors : job'[q].pc \in {"create", "read", "write"} => job'[q].pc \in Counting
  BY DEF Counting
<1>5. SUFFICES ASSUME ~excused.overlap, ~excused'.overlap PROVE Recorded'
  BY DEF Recorded
<1>6. \A p, q \in Planning!Actors :
          job'[p].pc \in Counting /\ job'[q].pc \in Counting => p = q
  BY <1>1, <1>5 DEF Recorded
<1>7. \A p \in Planning!Actors :
          /\ job'[p].pc = "create" => /\ Planning!_get_counter("hour")' < HourlyLimit
                                      /\ Planning!key(p)' \notin cooling'
          /\ job'[p].pc = "read" => inHour' <= Planning!_get_counter("hour")' + 1
          /\ job'[p].pc = "write" =>
                 /\ inHour' <= IF job'[p].window = hour' THEN job'[p].value ELSE 0
                 /\ job'[p].sameHour => counter'["hour"].hour = job'[p].window
  BY <1>1, <1>4, <1>5 DEF Recorded, Planning!_get_counter, Planning!key, Planning!id
<1>8. (\A p \in Planning!Actors : job'[p].pc \notin {"read", "write"}) =>
          inHour' <= Planning!_get_counter("hour")'
  BY <1>1, <1>3, <1>4, <1>5 DEF Recorded, Planning!_get_counter
<1>9. \A k \in hot' \ cooling' :
          \E p \in Planning!Actors :
              job'[p].pc \in Counting \ {"create"} /\ Planning!key(p)' = k
  <2> SUFFICES ASSUME NEW k \in hot \ cooling
               PROVE  \E p \in Planning!Actors :
                          job'[p].pc \in Counting \ {"create"} /\ Planning!key(p)' = k
    OBVIOUS
  <2>1. PICK p \in Planning!Actors :
            job[p].pc \in Counting \ {"create"} /\ Planning!key(p) = k
    BY <1>5 DEF Recorded
  <2> QED BY <1>1, <2>1 DEF Planning!key, Planning!id
<1> QED BY <1>2, <1>5, <1>6, <1>7, <1>8, <1>9 DEF Recorded

\* What a step has to keep that begins nothing: every actor stays with its proposal,
\* or lets go of one that has its result.
LEMMA HandFrame ==
    ASSUME PlanType, InOneHand,
           \A q \in Planning!Actors :
               \/ job'[q] = job[q]
               \/ /\ job[q].pc # "idle" /\ job'[q].pc \notin {"idle", "ask"}
                  /\ job'[q].id = job[q].id
                  /\ job'[q].pc \in {"check", "create"} => job[q].pc \in {"check", "create"}
               \/ /\ job'[q].pc = "idle"
                  /\ q \in Planners /\ job[q].pc # "idle" =>
                         excused'.faults > 0 \/ proposal'[job[q].id].result # "stored",
           Planning!Saved' = Planning!Saved,
           \A i \in Planning!Saved :
               /\ proposal'[i].key = proposal[i].key
               /\ proposal'[i].result = "stored" => proposal[i].result = "stored",
           excused.faults > 0 => excused'.faults > 0,
           UNCHANGED <<request, made, asked>>
    PROVE  InOneHand'
<1>0. Planning!Ids' = Planning!Ids /\ Api \in Planning!Actors /\ Planners \subseteq Planning!Actors
  BY DEF Planning!Ids, Planning!Actors
<1>1. \A i \in Planning!Saved : Spending(i)' => Spending(i)
  BY <1>0 DEF Spending
<1>2. ASSUME NEW i \in Planning!Saved
      PROVE  /\ proposal'[i].key \in Campaigns =>
                    made'[i] + (IF request'[i] = "pending" THEN 1 ELSE 0)
                             + (IF Spending(i)' THEN 1 ELSE 0) <= asked'[i]
             /\ proposal'[i].key \notin Campaigns => made'[i] <= 1 /\ request'[i] = "none"
  <2>1. made[i] \in Nat /\ asked[i] \in Nat
    BY DEF PlanType, Planning!Saved
  <2> DEFINE n == IF request[i] = "pending" THEN 1 ELSE 0
  <2>2. n \in Nat
    OBVIOUS
  <2>3. n' = n
    OBVIOUS
  <2> HIDE DEF n
  <2>4. proposal[i].key \in Campaigns =>
            made[i] + n + (IF Spending(i) THEN 1 ELSE 0) <= asked[i]
    BY DEF InOneHand, n
  <2>5. proposal[i].key \in Campaigns =>
            made[i] + n + (IF Spending(i)' THEN 1 ELSE 0) <= asked[i]
    BY <1>1, <2>1, <2>2, <2>4
  <2> QED BY <2>5 DEF InOneHand, n
<1>3. ASSUME NEW i \in Planning!Saved, proposal'[i].result = "stored"
      PROVE  excused'.faults > 0 \/ \E p \in Planners : job'[p].pc # "idle" /\ job'[p].id = i
  <2>1. CASE excused.faults > 0
    BY <2>1
  <2>2. CASE ~(excused.faults > 0)
    <3>1. PICK p \in Planners : job[p].pc # "idle" /\ job[p].id = i
      BY <1>3, <2>2 DEF InOneHand
    <3> QED BY <1>0, <1>3, <3>1
  <2> QED BY <2>1, <2>2
<1>4. ASSUME NEW p \in Planners
      PROVE  /\ job'[p].pc \in {"check", "create"} =>
                    Planning!key(p)' \notin Campaigns /\ made'[job'[p].id] = 0
             /\ job'[p].pc = "ask" =>
                    request'[job'[p].id] = "none" /\ Planning!key(p)' \in Campaigns
  <2>1. job'[p].pc \in {"check", "create", "ask"} =>
            /\ job[p].pc # "idle" /\ job'[p].id = job[p].id /\ job[p].id \in Planning!Saved
            /\ job'[p].pc = "ask" => job[p].pc = "ask"
            /\ job'[p].pc # "ask" => job[p].pc \in {"check", "create"}
    BY <1>0 DEF PlanType
  <2> QED BY <2>1 DEF InOneHand, Planning!key, Planning!id
<1>5. \A p \in Planners : job'[p].pc # "idle" => job[p].pc # "idle" /\ job'[p].id = job[p].id
  BY <1>0
<1>6. \A p, q \in Planners :
          job'[p].pc # "idle" /\ job'[q].pc # "idle" /\ job'[p].id = job'[q].id => p = q
  BY <1>5 DEF InOneHand
<1>7. job'[Api].pc # "ask" /\ (job'[Api].pc # "idle" => Planning!key(Api)' \in Campaigns)
  <2>1. job'[Api].pc # "idle" =>
            job[Api].pc # "idle" /\ job'[Api].id = job[Api].id /\ job[Api].id \in Planning!Saved
    BY <1>0 DEF PlanType
  <2>2. job'[Api].pc = "ask" => job[Api].pc = "ask"
    BY <1>0
  <2> QED BY <2>1, <2>2 DEF InOneHand, Planning!key, Planning!id
<1>8. \A i \in Planning!Ids \ Planning!Saved :
          made'[i] = 0 /\ asked'[i] = 0 /\ request'[i] = "none"
  BY DEF InOneHand
<1> QED BY <1>0, <1>2, <1>3, <1>4, <1>6, <1>7, <1>8 DEF InOneHand


\* What the one between check and record has to keep.
LEMMA RecordedStep ==
    ASSUME PlanType, Recorded, NEW p \in Planning!Actors, job[p].pc \in Counting,
           \A q \in Planning!Actors \ {p} : job'[q] = job[q],
           UNCHANGED excused,
           ~excused.overlap =>
               /\ inHour' <= HourlyLimit /\ job'[p].pc # "create"
               /\ job'[p].pc = "read" => inHour' <= Planning!_get_counter("hour")' + 1
               /\ job'[p].pc = "write" =>
                      /\ inHour' <= IF job'[p].window = hour' THEN job'[p].value ELSE 0
                      /\ job'[p].sameHour => counter'["hour"].hour = job'[p].window
               /\ job'[p].pc \notin {"read", "write"} => inHour' <= Planning!_get_counter("hour")'
               /\ \A k \in hot' \ cooling' :
                      job'[p].pc \in Counting \ {"create"} /\ proposal'[job'[p].id].key = k
    PROVE  Recorded'
<1> SUFFICES ASSUME ~excused.overlap PROVE Recorded'
  BY DEF Recorded
<1>1. \A q \in Planning!Actors \ {p} : job'[q].pc \notin Counting
  BY DEF Recorded
<1>2. Planning!Actors' = Planning!Actors
  BY DEF Planning!Actors
<1>3. \A q \in Planning!Actors \ {p} : job'[q].pc \notin {"create", "read", "write"}
  BY <1>1 DEF Counting
<1> QED BY <1>1, <1>2, <1>3 DEF Recorded, Planning!key, Planning!id

\* Every step keeps the invariant of planning.
LEMMA PlanStep ==
    ASSUME PlanInv, Planning!Next
    PROVE  PlanInv'
<1>0. /\ PlanType /\ Recorded /\ InOneHand
      /\ proposal \in [Planning!Ids -> PlanRow \cup {Planning!None}]
      /\ Planning!Actors' = Planning!Actors /\ Planning!Ids' = Planning!Ids
      /\ Api \in Planning!Actors /\ Planners \subseteq Planning!Actors
      /\ Planning!Actors = Planners \cup {Api} /\ Api \notin Planners
      /\ Planning!Saved \subseteq Planning!Ids
  BY ServicesAssumption DEF PlanInv, PlanType, Planning!Actors, Planning!Ids, Planning!Saved
<1>j. /\ Planning!Idle.pc = "idle" /\ DOMAIN job = Planning!Actors
      /\ \A j \in PlanJob : /\ j.pc \notin {"idle", "write", "writeDay"} /\ j.id \in Planning!Ids
                            /\ j \notin PlanWrite
      /\ \A j \in PlanWrite : /\ j.pc \in {"write", "writeDay"} /\ j.id \in Planning!Ids
                              /\ j.value \in Nat /\ j.window \in Nat
      /\ Planning!Idle \notin PlanWrite
      /\ \A q \in Planning!Actors : \/ job[q] = Planning!Idle /\ job[q].pc = "idle"
                                    \/ job[q] \in PlanJob \/ job[q] \in PlanWrite
  <2>1. Planning!Idle.pc = "idle"
    BY DEF Planning!Idle
  <2>2. \A j \in PlanJob : j.pc \notin {"idle", "write", "writeDay"} /\ j.id \in Planning!Ids
    BY DEF PlanJob
  <2>3. \A j \in PlanWrite : /\ j.pc \in {"write", "writeDay"} /\ j.id \in Planning!Ids
                             /\ j.value \in Nat /\ j.window \in Nat
    BY DEF PlanWrite
  <2> QED BY <1>0, <2>1, <2>2, <2>3 DEF PlanType
\* An actor goes on.
<1>t. ASSUME NEW p \in Planning!Actors, NEW j, job' = [job EXCEPT ![p] = j]
      PROVE  /\ DOMAIN job' = Planning!Actors /\ job'[p] = j
             /\ \A q \in Planning!Actors \ {p} : job'[q] = job[q]
  BY <1>j, <1>t
<1>g. ASSUME NEW p \in Planning!Actors, NEW pc \in {"asked", "create", "read", "readDay", "cool", "mark"},
             Planning!Goto(p, pc), job[p] \in PlanJob
      PROVE  \E j \in PlanJob : /\ job' = [job EXCEPT ![p] = j] /\ j.pc = pc /\ j.id = job[p].id
  <2>1. [job[p] EXCEPT !.pc = pc] \in PlanJob
    BY <1>g DEF PlanJob
  <2>2. [job[p] EXCEPT !.pc = pc].pc = pc /\ [job[p] EXCEPT !.pc = pc].id = job[p].id
    BY <1>g DEF PlanJob
  <2>3. job' = [job EXCEPT ![p] = [job[p] EXCEPT !.pc = pc]]
    BY <1>g DEF Planning!Goto
  <2> QED BY <2>1, <2>2, <2>3
\* The types, for a step of the actors that moves no clock.
<1>k. ASSUME DOMAIN job' = Planning!Actors,
             \A q \in Planning!Actors :
                 \/ job'[q] = job[q] \/ job'[q] = Planning!Idle
                 \/ job'[q] \in PlanJob /\ job'[q].id \in Planning!Saved'
                 \/ job'[q] \in PlanWrite /\ job'[q].id \in Planning!Saved' /\ job'[q].window <= hour,
             proposal' \in [Planning!Ids -> PlanRow \cup {Planning!None}], Planning!Saved \subseteq Planning!Saved',
             request' \in [Planning!Ids -> {"none", "pending", "approved", "rejected"}],
             made' \in [Planning!Ids -> Nat], asked' \in [Planning!Ids -> Nat],
             inHour' \in Nat, excused' \in [faults: Nat, overlap: BOOLEAN],
             UNCHANGED <<counter, hour>>
      PROVE  PlanType'
  <2>1. \A q \in Planning!Actors :
            /\ job'[q] = Planning!Idle \/ job'[q] \in PlanJob \/ job'[q] \in PlanWrite
            /\ job'[q].pc # "idle" => job'[q].id \in Planning!Saved'
            /\ job'[q] \in PlanWrite => job'[q].window <= hour
    BY <1>0, <1>j, <1>k DEF PlanType
  <2> QED BY <1>0, <1>k, <2>1 DEF PlanType, Planning!Idle, PlanJob, PlanWrite
<1> DEFINE Results == {"noop", "cancelled", "requires_approval", "blocked", "skipped", "created"}
\* mark_proposal_applied
<1>m. ASSUME NEW p \in Planning!Actors, NEW result \in Results, job[p] \in PlanJob,
             Planning!mark_proposal_applied(p, result)
      PROVE  /\ DOMAIN job' = Planning!Actors /\ job'[p] = Planning!Idle
             /\ \A q \in Planning!Actors \ {p} : job'[q] = job[q]
             /\ proposal' \in [Planning!Ids -> PlanRow \cup {Planning!None}] /\ Planning!Saved' = Planning!Saved
             /\ \A i \in Planning!Ids :
                    /\ proposal'[i].key = proposal[i].key
                    /\ proposal'[i].result = "stored" => proposal[i].result = "stored"
             /\ p \in Planners => proposal'[job[p].id].result # "stored"
  <2>1. job' = [job EXCEPT ![p] = Planning!Idle]
    BY <1>m DEF Planning!mark_proposal_applied
  <2>2. CASE p = Api
    <3>1. proposal' = proposal
      BY <1>m, <2>2 DEF Planning!mark_proposal_applied
    <3>2. Planning!Saved' = Planning!Saved
      BY <3>1 DEF Planning!Saved, Planning!Ids
    <3> QED BY <1>0, <1>t, <2>1, <2>2, <3>1, <3>2
  <2>3. CASE p # Api
    <3> DEFINE i == job[p].id
               row == [proposal[i] EXCEPT !.result = result]
    <3>0. i \in Planning!Ids /\ i \in Planning!Saved
      BY <1>0, <1>j, <1>m DEF PlanType
    <3>1. i \in Planning!Ids /\ proposal[i] \in PlanRow
      BY <1>0, <3>0 DEF Planning!Saved
    <3>2. row \in PlanRow /\ row.key = proposal[i].key /\ row.result = result
      BY <3>1 DEF PlanRow
    <3>3. proposal' = [proposal EXCEPT ![i] = row]
      BY <1>m, <2>3 DEF Planning!mark_proposal_applied, Planning!id
    <3>4. row # Planning!None
      BY <3>2 DEF Planning!None, PlanRow
    <3>5. proposal[i] # Planning!None
      BY <3>0 DEF Planning!Saved
    <3> HIDE DEF i, row
    <3>6. /\ proposal' \in [Planning!Ids -> PlanRow \cup {Planning!None}] /\ proposal'[i] = row
          /\ \A k \in Planning!Ids \ {i} : proposal'[k] = proposal[k]
      BY <1>0, <3>1, <3>2, <3>3
    <3>7. Planning!Saved' = Planning!Saved
      BY <1>0, <3>4, <3>5, <3>6 DEF Planning!Saved, Planning!None
    <3>8. /\ \A k \in Planning!Ids :
                 /\ proposal'[k].key = proposal[k].key
                 /\ proposal'[k].result = "stored" => proposal[k].result = "stored"
          /\ proposal'[i].result # "stored"
      BY <3>2, <3>6
    <3> QED BY <1>t, <2>1, <3>6, <3>7, <3>8 DEF i
  <2> QED BY <2>2, <2>3
\* A step that ends in a mark and counts nothing.
<1>1. ASSUME NEW p \in Planning!Actors, NEW result \in Results,
             Planning!mark_proposal_applied(p, result),
             job[p].pc \in {"noop", "cancel", "asked", "check", "mark"},
             UNCHANGED <<request, counter, cooling, hour, made, asked, inHour, hot, excused>>
      PROVE  PlanInv'
  <2>1. job[p] \in PlanJob
    BY <1>1, <1>j
  <2>2. /\ DOMAIN job' = Planning!Actors /\ job'[p] = Planning!Idle
        /\ \A q \in Planning!Actors \ {p} : job'[q] = job[q]
        /\ proposal' \in [Planning!Ids -> PlanRow \cup {Planning!None}] /\ Planning!Saved' = Planning!Saved
        /\ \A i \in Planning!Ids :
               /\ proposal'[i].key = proposal[i].key
               /\ proposal'[i].result = "stored" => proposal[i].result = "stored"
        /\ p \in Planners => proposal'[job[p].id].result # "stored"
    BY <1>1, <1>m, <2>1
  <2>3. PlanType'
    BY <1>0, <1>1, <1>k, <2>2 DEF PlanType
  <2>4. Recorded'
    BY <1>0, <1>1, <1>j, <2>2, RecordedFrame DEF Counting
  <2>5. InOneHand'
    BY <1>0, <1>1, <1>j, <2>2, HandFrame
  <2> QED BY <2>3, <2>4, <2>5 DEF PlanInv
<1>2. ASSUME NEW p \in Planning!Actors,
             Planning!Noop(p) \/ Planning!Cancel(p) \/ Planning!Asked(p) \/ Planning!Done(p)
      PROVE  PlanInv'
  BY <1>1, <1>2 DEF Planning!Noop, Planning!Cancel, Planning!Asked, Planning!Done, Planning!At
\* The steps of the others: time, a workflow given up, a process that dies.
<1>3. ASSUME NEW k \in Keys, Planning!Abandon(k)  PROVE PlanInv'
  <2>1. /\ UNCHANGED <<proposal, request, counter, cooling, job, hour, made, asked, inHour, hot, excused>>
        /\ Planning!Saved' = Planning!Saved
    BY <1>3 DEF Planning!Abandon, Planning!Saved, Planning!Ids
  <2>2. PlanType'
    BY <1>0, <2>1 DEF PlanType
  <2>3. Recorded' /\ InOneHand'
    BY <1>0, <2>1, RecordedFrame, HandFrame
  <2> QED BY <2>2, <2>3 DEF PlanInv
<1>4. CASE Planning!NextHour
  <2>1. /\ UNCHANGED <<proposal, request, counter, cooling, job, made, asked, hot, excused>>
        /\ hour' = hour + 1 /\ inHour' = 0 /\ Planning!Saved' = Planning!Saved
        /\ hour \in Nat
    BY <1>0, <1>4 DEF Planning!NextHour, Planning!Saved, Planning!Ids, PlanType
  <2>2. PlanType'
    <3>1. \A p \in Planning!Actors : job'[p] \in PlanWrite => job'[p].window <= hour'
      BY <1>0, <1>j, <2>1 DEF PlanType
    <3>2. counter'["hour"].hour <= hour'
      BY <1>0, <2>1 DEF PlanType
    <3> QED BY <1>0, <2>1, <3>1, <3>2 DEF PlanType
  <2>3. Recorded'
    <3>1. SUFFICES ASSUME ~excused.overlap PROVE Recorded'
      BY <2>1 DEF Recorded
    <3>2. counter["hour"].hour # hour' /\ Planning!_get_counter("hour")' = 0
      <4>1. counter["hour"].hour \in Nat /\ counter["hour"].hour <= hour
        BY <1>0 DEF PlanType
      <4> QED BY <2>1, <4>1 DEF Planning!_get_counter
    <3>3. \A p \in Planning!Actors : job[p].pc = "create" => 0 < HourlyLimit
      BY <1>0, <3>1, ServicesAssumption DEF Recorded, Planning!_get_counter, PlanType
    <3>4. \A p \in Planning!Actors :
              job[p].pc = "write" => 0 <= IF job[p].window = hour' THEN job[p].value ELSE 0
      BY <1>j
    <3>5. \A p \in Planning!Actors : Planning!key(p)' = Planning!key(p)
      BY <2>1 DEF Planning!key, Planning!id
    <3> QED BY <1>0, <2>1, <3>1, <3>2, <3>3, <3>4, <3>5, ServicesAssumption DEF Recorded
  <2>4. InOneHand'
    BY <1>0, <2>1, HandFrame
  <2> QED BY <2>2, <2>3, <2>4 DEF PlanInv
<1>5. ASSUME NEW k \in Keys, Planning!CoolDownPasses(k)  PROVE PlanInv'
  <2>1. /\ UNCHANGED <<proposal, request, counter, job, hour, made, asked, inHour, excused>>
        /\ cooling' = cooling \ {k} /\ hot' = hot \ {k}
        /\ Planning!Saved' = Planning!Saved
    BY <1>5 DEF Planning!CoolDownPasses, Planning!Saved, Planning!Ids
  <2>2. PlanType'
    BY <1>0, <2>1 DEF PlanType
  <2>3. Recorded'
    <3>1. /\ Planning!_get_counter("hour")' = Planning!_get_counter("hour")
          /\ \A p \in Planning!Actors : Planning!key(p)' = Planning!key(p)
      BY <2>1 DEF Planning!key, Planning!id, Planning!_get_counter
    <3> QED BY <1>0, <2>1, <3>1 DEF Recorded
  <2>4. InOneHand'
    BY <1>0, <2>1, HandFrame
  <2> QED BY <2>2, <2>3, <2>4 DEF PlanInv
<1>6. ASSUME NEW S, Planning!Die(S)  PROVE PlanInv'
  <2>1. /\ job' = [p \in Planning!Actors |-> IF p \in S THEN Planning!Idle ELSE job[p]]
        /\ excused' = [faults |-> excused.faults + 1,
                       overlap |-> excused.overlap \/ S \cap Planning!Committed # {}]
        /\ UNCHANGED <<proposal, request, counter, cooling, hour, made, asked, inHour, hot>>
        /\ Planning!Saved' = Planning!Saved
    BY <1>6 DEF Planning!Die, Planning!Saved, Planning!Ids
  <2>2. excused' \in [faults: Nat, overlap: BOOLEAN] /\ excused'.faults > 0
    <3>1. excused.faults \in Nat /\ excused.overlap \in BOOLEAN
      BY <1>0 DEF PlanType
    <3>2. (excused.overlap \/ S \cap Planning!Committed # {}) \in BOOLEAN
      OBVIOUS
    <3>3. excused.faults + 1 \in Nat /\ excused.faults + 1 > 0
      BY <3>1
    <3> QED BY <2>1, <3>2, <3>3
  <2>3. /\ DOMAIN job' = Planning!Actors
        /\ \A p \in Planning!Actors : IF p \in S THEN job'[p] = Planning!Idle ELSE job'[p] = job[p]
    BY <2>1
  <2>4. PlanType'
    BY <1>0, <1>k, <2>1, <2>2, <2>3 DEF PlanType
  <2>5. InOneHand'
    BY <1>0, <1>j, <2>1, <2>2, <2>3, HandFrame
  <2>6. Recorded'
    <3>1. CASE excused'.overlap
      BY <3>1 DEF Recorded
    <3>2. CASE ~excused'.overlap
      <4>1. ~excused.overlap /\ S \cap Planning!Committed = {}
        BY <2>1, <3>2
      <4>2. ASSUME NEW q \in Planning!Actors
            PROVE  \/ job'[q] = job[q]
                   \/ job[q].pc \notin Counting /\ job'[q].pc \notin Counting
        <5>1. CASE q \notin S
          BY <2>3, <5>1
        <5>2. CASE q \in S
          <6>1. job'[q] = Planning!Idle /\ job'[q].pc = "idle"
            BY <1>j, <2>3, <5>2
          <6>2. q \notin Planning!Committed
            BY <4>1, <5>2
          <6>3. job[q].pc \notin Counting
            BY <6>2 DEF Planning!Committed, Counting
          <6> QED BY <6>1, <6>3 DEF Counting
        <5> QED BY <5>1, <5>2
      <4> QED BY <1>0, <2>1, <4>1, <4>2, RecordedFrame
    <3> QED BY <3>1, <3>2
  <2> QED BY <2>4, <2>5, <2>6 DEF PlanInv
<1>7. ASSUME NEW p \in Planning!Actors, Planning!validate_autonomous_execution(p)
      PROVE  PlanInv'
  <2>1. /\ job[p].pc = "check"
        /\ UNCHANGED <<request, taken, counter, cooling, hour, made, asked, inHour, hot>>
    BY <1>7 DEF Planning!validate_autonomous_execution, Planning!At
  <2>2. CASE Planning!mark_proposal_applied(p, "blocked") /\ UNCHANGED excused
    BY <1>1, <2>1, <2>2
  <2>3. CASE /\ Planning!check_autonomous_quota(Planning!key(p))
             /\ Planning!check_cooldown(Planning!key(p))
             /\ Planning!Goto(p, "create") /\ UNCHANGED proposal
             /\ excused' = [excused EXCEPT !.overlap = @ \/ Planning!Committed # {}]
    <3>1. job[p] \in PlanJob /\ job[p].id \in Planning!Saved
      BY <1>0, <1>j, <2>1 DEF PlanType
    <3>2. PICK j \in PlanJob : job' = [job EXCEPT ![p] = j] /\ j.pc = "create" /\ j.id = job[p].id
      BY <1>g, <2>3, <3>1
    <3>3. /\ DOMAIN job' = Planning!Actors /\ job'[p] = j
          /\ \A q \in Planning!Actors \ {p} : job'[q] = job[q]
      BY <1>t, <3>2
    <3>4. /\ excused' \in [faults: Nat, overlap: BOOLEAN] /\ excused'.faults = excused.faults
          /\ ~excused'.overlap => ~excused.overlap /\ Planning!Committed = {}
      <4>1. (excused.overlap \/ Planning!Committed # {}) \in BOOLEAN
        OBVIOUS
      <4>2. excused \in [faults: Nat, overlap: BOOLEAN]
        BY <1>0 DEF PlanType
      <4> QED BY <2>3, <4>1, <4>2
    <3>5. Planning!Saved' = Planning!Saved
      BY <2>3 DEF Planning!Saved, Planning!Ids
    <3>6. PlanType'
      BY <1>0, <1>k, <2>1, <2>3, <3>1, <3>2, <3>3, <3>4, <3>5 DEF PlanType
    <3>7. InOneHand'
      BY <1>0, <2>1, <2>3, <3>2, <3>3, <3>4, <3>5, HandFrame
    <3>8. Recorded'
      <4>1. SUFFICES ASSUME ~excused'.overlap PROVE Recorded'
        BY DEF Recorded
      <4>2. \A q \in Planning!Actors : job[q].pc \notin Counting
        BY <3>4, <4>1 DEF Planning!Committed, Counting
      <4>3. \A q \in Planning!Actors \ {p} : job'[q].pc \notin Counting
        BY <3>3, <4>2
      <4>4. /\ Planning!_get_counter("hour")' = Planning!_get_counter("hour")
            /\ Planning!key(p)' = Planning!key(p)
        BY <2>1, <2>3, <3>2, <3>3 DEF Planning!key, Planning!id, Planning!_get_counter
      <4>5. /\ inHour <= HourlyLimit /\ inHour <= Planning!_get_counter("hour")
            /\ hot \ cooling = {}
        BY <1>0, <3>4, <4>1, <4>2 DEF Recorded, Counting
      <4>6. Planning!_get_counter("hour") < HourlyLimit /\ Planning!key(p) \notin cooling
        BY <2>3 DEF Planning!check_autonomous_quota, Planning!check_cooldown
      <4>7. \A q \in Planning!Actors : job'[q].pc \notin {"read", "write"}
                                       /\ (job'[q].pc = "create" => q = p)
        BY <3>2, <3>3, <4>3 DEF Counting
      <4> QED BY <1>0, <2>1, <4>1, <4>3, <4>4, <4>5, <4>6, <4>7 DEF Recorded
    <3> QED BY <3>6, <3>7, <3>8 DEF PlanInv
  <2> QED BY <1>7, <2>2, <2>3 DEF Planning!validate_autonomous_execution
\* The approvals: what is asked, and what the operators decide.
<1>8. ASSUME NEW p \in Planning!Actors, Planning!create_approval_request(p)  PROVE PlanInv'
  <2>1. /\ job[p].pc = "ask" /\ Planning!Goto(p, "asked")
        /\ UNCHANGED <<proposal, taken, counter, cooling, hour, made, inHour, hot, excused>>
        /\ request' = [request EXCEPT ![job[p].id] = "pending"]
        /\ asked' = [asked EXCEPT ![job[p].id] =
                        IF request[job[p].id] = "pending" THEN asked[job[p].id]
                        ELSE asked[job[p].id] + 1]
    BY <1>8 DEF Planning!create_approval_request, Planning!At, Planning!Asks, Planning!id
  <2>2. job[p] \in PlanJob /\ job[p].id \in Planning!Saved
    BY <1>0, <1>j, <2>1 DEF PlanType
  <2>3. PICK j \in PlanJob : job' = [job EXCEPT ![p] = j] /\ j.pc = "asked" /\ j.id = job[p].id
    BY <1>g, <2>1, <2>2
  <2>4. /\ DOMAIN job' = Planning!Actors /\ job'[p] = j
        /\ \A q \in Planning!Actors \ {p} : job'[q] = job[q]
    BY <1>t, <2>3
  <2>5. Planning!Saved' = Planning!Saved
    BY <2>1 DEF Planning!Saved, Planning!Ids
  <2> DEFINE i == job[p].id
  <2>6. /\ i \in Planning!Saved /\ i \in Planning!Ids
        /\ request \in [Planning!Ids -> {"none", "pending", "approved", "rejected"}]
        /\ made \in [Planning!Ids -> Nat] /\ asked \in [Planning!Ids -> Nat]
    BY <1>0, <2>2 DEF PlanType
  <2>7. p \in Planners => request[i] = "none" /\ proposal[i].key \in Campaigns
    BY <1>0, <2>1 DEF InOneHand, Planning!key, Planning!id
  <2>9. /\ request' \in [Planning!Ids -> {"none", "pending", "approved", "rejected"}]
        /\ asked' \in [Planning!Ids -> Nat] /\ request'[i] = "pending"
        /\ request[i] # "pending" => asked'[i] = asked[i] + 1
        /\ request[i] = "pending" => asked'[i] = asked[i]
        /\ \A k \in Planning!Ids \ {i} : request'[k] = request[k] /\ asked'[k] = asked[k]
    <3> HIDE DEF i
    <3>1. /\ request' = [request EXCEPT ![i] = "pending"]
          /\ asked' = [asked EXCEPT ![i] = IF request[i] = "pending" THEN asked[i]
                                           ELSE asked[i] + 1]
      BY <2>1 DEF i
    <3> QED BY <2>6, <3>1
  <2>10. PlanType'
    BY <1>0, <1>k, <2>1, <2>2, <2>3, <2>4, <2>5, <2>9 DEF PlanType
  <2>11. Recorded'
    BY <1>0, <2>1, <2>3, <2>4, RecordedFrame DEF Counting
  <2> HIDE DEF i
  <2>12. InOneHand'
    <3>1. \A k \in Planning!Saved : Spending(k)' <=> Spending(k)
      BY <1>0, <2>1, <2>3, <2>4 DEF Spending
    <3>2. proposal[i].key \in Campaigns
      BY <1>0, <2>1, <2>7 DEF InOneHand, Planning!key, Planning!id, i
    <3>3. ASSUME NEW k \in Planning!Saved
          PROVE  /\ proposal'[k].key \in Campaigns =>
                        made'[k] + (IF request'[k] = "pending" THEN 1 ELSE 0)
                                 + (IF Spending(k)' THEN 1 ELSE 0) <= asked'[k]
                 /\ proposal'[k].key \notin Campaigns => made'[k] <= 1 /\ request'[k] = "none"
                 /\ proposal'[k].result = "stored" =>
                        excused'.faults > 0 \/ \E q \in Planners : job'[q].pc # "idle" /\ job'[q].id = k
      <4> DEFINE s == IF Spending(k) THEN 1 ELSE 0
      <4>0. s \in Nat /\ s = (IF Spending(k)' THEN 1 ELSE 0)
        BY <3>1
      <4> HIDE DEF s
      <4>1. /\ proposal[k].key \in Campaigns =>
                   made[k] + (IF request[k] = "pending" THEN 1 ELSE 0) + s <= asked[k]
            /\ proposal[k].key \notin Campaigns => made[k] <= 1 /\ request[k] = "none"
        BY <1>0 DEF InOneHand, s
      <4>2. made[k] \in Nat /\ asked[k] \in Nat
        BY <1>0, <2>6
      <4>3. ASSUME k = i
            PROVE  made'[k] + (IF request'[k] = "pending" THEN 1 ELSE 0)
                            + (IF Spending(k)' THEN 1 ELSE 0) <= asked'[k]
        BY <2>1, <2>9, <3>2, <4>0, <4>1, <4>2, <4>3
      <4>4. ASSUME k # i
            PROVE  /\ proposal'[k].key \in Campaigns =>
                          made'[k] + (IF request'[k] = "pending" THEN 1 ELSE 0)
                                   + (IF Spending(k)' THEN 1 ELSE 0) <= asked'[k]
                   /\ proposal'[k].key \notin Campaigns => made'[k] <= 1 /\ request'[k] = "none"
        BY <1>0, <2>1, <2>9, <4>0, <4>1, <4>2, <4>4
      <4>5. proposal'[k].result = "stored" =>
                excused'.faults > 0 \/ \E q \in Planners : job'[q].pc # "idle" /\ job'[q].id = k
        <5>1. \A q \in Planners : job[q].pc # "idle" => job'[q].pc # "idle" /\ job'[q].id = job[q].id
          BY <1>0, <2>3, <2>4
        <5> QED BY <1>0, <2>1, <5>1 DEF InOneHand
      <4> QED BY <2>1, <3>2, <4>3, <4>4, <4>5
    <3>4. ASSUME NEW q \in Planners
          PROVE  /\ job'[q].pc \in {"check", "create"} =>
                        Planning!key(q)' \notin Campaigns /\ made'[job'[q].id] = 0
                 /\ job'[q].pc = "ask" =>
                        request'[job'[q].id] = "none" /\ Planning!key(q)' \in Campaigns
      <4>1. CASE q = p
        BY <2>3, <2>4, <4>1
      <4>2. CASE q # p
        <5>1. job'[q] = job[q]
          BY <1>0, <2>4, <4>2
        <5>2. job[q].pc = "ask" /\ p \in Planners => job[q].id # i /\ job[q].id \in Planning!Ids
          BY <1>0, <2>1, <4>2 DEF InOneHand, PlanType, i
        <5>3. p = Api => FALSE
          <6>1. p = Api => job[p].pc # "ask"
            BY <1>0 DEF InOneHand
          <6> QED BY <2>1, <6>1
        <5> QED BY <1>0, <2>1, <2>9, <5>1, <5>2, <5>3 DEF InOneHand, Planning!key, Planning!id
      <4> QED BY <4>1, <4>2
    <3>5. /\ \A q \in Planners : job'[q].pc # "idle" => job[q].pc # "idle" /\ job'[q].id = job[q].id
          /\ job'[Api].pc # "idle" => job[Api].pc # "idle" /\ job'[Api].id = job[Api].id
      BY <1>0, <2>1, <2>3, <2>4
    <3>6. \A q, r \in Planners :
              job'[q].pc # "idle" /\ job'[r].pc # "idle" /\ job'[q].id = job'[r].id => q = r
      BY <1>0, <3>5 DEF InOneHand
    <3>7. job'[Api].pc # "ask" /\ (job'[Api].pc # "idle" => Planning!key(Api)' \in Campaigns)
      <4>1. job'[Api].pc # "ask"
        BY <1>0, <2>3, <2>4 DEF InOneHand
      <4> QED BY <1>0, <2>1, <3>5, <4>1 DEF InOneHand, Planning!key, Planning!id
    <3>8. \A k \in Planning!Ids \ Planning!Saved :
              made'[k] = 0 /\ asked'[k] = 0 /\ request'[k] = "none"
      BY <1>0, <2>1, <2>6, <2>9 DEF InOneHand
    <3> QED BY <1>0, <2>5, <3>3, <3>4, <3>6, <3>7, <3>8 DEF InOneHand
  <2> QED BY <2>10, <2>11, <2>12 DEF PlanInv
\* What the operators decide.
<1>9. ASSUME NEW i \in Planning!Ids, Planning!reject(i) \/ Planning!retry_approval(i)
      PROVE  PlanInv'
  <2>1. /\ job[Api].pc = "idle" /\ request[i] # "none"
        /\ UNCHANGED <<proposal, counter, cooling, job, hour, made, inHour, hot, excused>>
        /\ \/ request' = [request EXCEPT ![i] = "rejected"] /\ asked' = asked
           \/ /\ request' = [request EXCEPT ![i] = "pending"]
              /\ asked' = [asked EXCEPT ![i] = asked[i] + 1]
    BY <1>9 DEF Planning!reject, Planning!retry_approval, Planning!At, Planning!Asks
  <2>2. Planning!Saved' = Planning!Saved
    BY <2>1 DEF Planning!Saved, Planning!Ids
  <2>3. /\ request \in [Planning!Ids -> {"none", "pending", "approved", "rejected"}]
        /\ made \in [Planning!Ids -> Nat] /\ asked \in [Planning!Ids -> Nat]
    BY <1>0 DEF PlanType
  <2>4. /\ request' \in [Planning!Ids -> {"none", "pending", "approved", "rejected"}]
        /\ asked' \in [Planning!Ids -> Nat]
        /\ \/ request'[i] = "rejected" /\ asked'[i] = asked[i]
           \/ request'[i] = "pending" /\ asked'[i] = asked[i] + 1
        /\ \A k \in Planning!Ids \ {i} : request'[k] = request[k] /\ asked'[k] = asked[k]
    BY <2>1, <2>3
  <2>5. PlanType'
    BY <1>0, <2>1, <2>2, <2>4 DEF PlanType
  <2>6. Recorded'
    BY <1>0, <2>1, RecordedFrame
  <2>7. InOneHand'
    <3>1. \A k : ~Spending(k) /\ ~Spending(k)'
      BY <2>1 DEF Spending
    <3>2. i \in Planning!Saved /\ proposal[i].key \in Campaigns
      BY <1>0, <2>1 DEF InOneHand
    <3>3. ASSUME NEW k \in Planning!Saved
          PROVE  /\ proposal[k].key \in Campaigns =>
                        made[k] + (IF request'[k] = "pending" THEN 1 ELSE 0)
                                + (IF Spending(k)' THEN 1 ELSE 0) <= asked'[k]
                 /\ proposal[k].key \notin Campaigns => made[k] <= 1 /\ request'[k] = "none"
      <4>1. /\ proposal[k].key \in Campaigns =>
                   made[k] + (IF request[k] = "pending" THEN 1 ELSE 0)
                           + (IF Spending(k) THEN 1 ELSE 0) <= asked[k]
            /\ proposal[k].key \notin Campaigns => made[k] <= 1 /\ request[k] = "none"
        BY <1>0 DEF InOneHand
      <4>2. made[k] \in Nat /\ asked[k] \in Nat
        BY <1>0, <2>3
      <4> QED BY <1>0, <2>4, <3>1, <3>2, <4>1, <4>2
    <3>4. \A q \in Planners : job[q].pc = "ask" => job[q].id \in Planning!Ids /\ job[q].id # i
      BY <1>0, <2>1 DEF InOneHand, PlanType
    <3>5. ASSUME NEW q \in Planners
          PROVE  /\ job[q].pc \in {"check", "create"} =>
                        Planning!key(q)' \notin Campaigns /\ made[job[q].id] = 0
                 /\ job[q].pc = "ask" =>
                        request'[job[q].id] = "none" /\ Planning!key(q)' \in Campaigns
      BY <1>0, <2>1, <2>4, <3>4 DEF InOneHand, Planning!key, Planning!id
    <3>6. \A k \in Planning!Ids \ Planning!Saved : asked'[k] = 0 /\ request'[k] = "none"
      BY <1>0, <2>4, <3>2 DEF InOneHand
    <3> QED BY <1>0, <2>1, <2>2, <3>3, <3>5, <3>6 DEF InOneHand
  <2> QED BY <2>5, <2>6, <2>7 DEF PlanInv
<1>b. ASSUME NEW i \in Planning!Ids, NEW pc \in {"ask", "check", "cancel", "noop"}
      PROVE  [id |-> i, pc |-> pc] \in PlanJob
  BY DEF PlanJob
<1>10. ASSUME NEW i \in Planning!Ids, Planning!approve(i)  PROVE PlanInv'
  <2> DEFINE pc == Planning!Begins(proposal[i].decision)
             j == [id |-> i, pc |-> pc]
  <2>1. /\ job[Api].pc = "idle" /\ request[i] = "pending"
        /\ UNCHANGED <<proposal, counter, cooling, hour, made, asked, inHour, hot, excused>>
        /\ request' = [request EXCEPT ![i] = "approved"]
        /\ job' = [job EXCEPT ![Api] = j]
    BY <1>10 DEF Planning!approve, Planning!At
  <2>2. Planning!Saved' = Planning!Saved
    BY <2>1 DEF Planning!Saved, Planning!Ids
  <2>3. /\ request \in [Planning!Ids -> {"none", "pending", "approved", "rejected"}]
        /\ made \in [Planning!Ids -> Nat] /\ asked \in [Planning!Ids -> Nat]
    BY <1>0 DEF PlanType
  <2>4. i \in Planning!Saved /\ proposal[i].key \in Campaigns
    BY <1>0, <2>1 DEF InOneHand
  <2>5. pc \in {"check", "cancel", "noop"}
    <3>1. proposal[i] \in PlanRow
      BY <1>0, <2>4 DEF Planning!Saved
    <3> QED BY <3>1 DEF PlanRow, Planning!Begins
  <2>6. j \in PlanJob /\ j.pc = pc /\ j.id = i
    BY <1>b, <2>5
  <2> HIDE DEF pc, j
  <2>7. /\ DOMAIN job' = Planning!Actors /\ job'[Api] = j
        /\ \A q \in Planning!Actors \ {Api} : job'[q] = job[q]
    BY <1>0, <1>t, <2>1
  <2>8. /\ request' \in [Planning!Ids -> {"none", "pending", "approved", "rejected"}]
        /\ request'[i] = "approved"
        /\ \A k \in Planning!Ids \ {i} : request'[k] = request[k]
    BY <2>1, <2>3
  <2>9. PlanType'
    BY <1>0, <1>k, <2>1, <2>2, <2>4, <2>6, <2>7, <2>8 DEF PlanType
  <2>10. Recorded'
    <3>1. job[Api].pc \notin Counting /\ job'[Api].pc \notin Counting
      BY <2>1, <2>5, <2>6, <2>7 DEF Counting
    <3> QED BY <1>0, <2>1, <2>7, <3>1, RecordedFrame
  <2>11. InOneHand'
    <3>1. \A k : ~Spending(k) /\ (Spending(k)' => k = i)
      BY <2>1, <2>6, <2>7 DEF Spending
    <3>3. ASSUME NEW k \in Planning!Saved
          PROVE  /\ proposal[k].key \in Campaigns =>
                        made[k] + (IF request'[k] = "pending" THEN 1 ELSE 0)
                                + (IF Spending(k)' THEN 1 ELSE 0) <= asked[k]
                 /\ proposal[k].key \notin Campaigns => made[k] <= 1 /\ request'[k] = "none"
      <4>1. /\ proposal[k].key \in Campaigns =>
                   made[k] + (IF request[k] = "pending" THEN 1 ELSE 0)
                           + (IF Spending(k) THEN 1 ELSE 0) <= asked[k]
            /\ proposal[k].key \notin Campaigns => made[k] <= 1 /\ request[k] = "none"
        BY <1>0 DEF InOneHand
      <4>2. made[k] \in Nat /\ asked[k] \in Nat
        BY <1>0, <2>3
      <4> QED BY <1>0, <2>1, <2>4, <2>8, <3>1, <4>1, <4>2
    <3>4. \A q \in Planners : job'[q] = job[q] /\ q \in Planning!Actors
      BY <1>0, <2>7
    <3>5. \A q \in Planners : job[q].pc = "ask" => job[q].id \in Planning!Ids /\ job[q].id # i
      BY <1>0, <2>1 DEF InOneHand, PlanType
    <3>6. ASSUME NEW q \in Planners
          PROVE  /\ job'[q].pc \in {"check", "create"} =>
                        Planning!key(q)' \notin Campaigns /\ made[job'[q].id] = 0
                 /\ job'[q].pc = "ask" =>
                        request'[job'[q].id] = "none" /\ Planning!key(q)' \in Campaigns
      BY <1>0, <2>1, <2>8, <3>4, <3>5 DEF InOneHand, Planning!key, Planning!id
    <3>7. \A k \in Planning!Ids \ Planning!Saved : request'[k] = "none"
      BY <1>0, <2>4, <2>8 DEF InOneHand
    <3>8. job'[Api].pc # "ask" /\ Planning!key(Api)' \in Campaigns
      BY <2>1, <2>4, <2>5, <2>6, <2>7 DEF Planning!key, Planning!id
    <3> QED BY <1>0, <2>1, <2>2, <3>3, <3>4, <3>6, <3>7, <3>8 DEF InOneHand
  <2> QED BY <2>9, <2>10, <2>11 DEF PlanInv
\* A plan.
<1>11. ASSUME NEW p \in Planning!Actors, Planning!Plan(p)  PROVE PlanInv'
  <2>1. /\ p \in Planners /\ job[p].pc = "idle"
        /\ UNCHANGED <<request, counter, cooling, hour, made, asked, inHour, hot, excused>>
    BY <1>11 DEF Planning!Plan, Planning!At
  <2>2. PICK i \in Planning!Ids \ Planning!Saved, k \in Keys \cup {"none"},
             d \in {"create", "cancel", "noop"} :
            /\ proposal' = [proposal EXCEPT ![i] = [key |-> k, decision |-> d, result |-> "stored"]]
            /\ job' = [job EXCEPT ![p] =
                          [id |-> i, pc |-> IF k \in Campaigns THEN "ask" ELSE Planning!Begins(d)]]
    BY <1>11 DEF Planning!Plan
  <2> DEFINE row == [key |-> k, decision |-> d, result |-> "stored"]
             pc == IF k \in Campaigns THEN "ask" ELSE Planning!Begins(d)
             j == [id |-> i, pc |-> pc]
  <2>3. /\ pc \in {"ask", "check", "cancel", "noop"}
        /\ pc = "ask" <=> k \in Campaigns
    BY DEF Planning!Begins
  <2>4. row \in PlanRow /\ row.key = k /\ row.result = "stored" /\ row # Planning!None
    BY DEF PlanRow, Planning!None
  <2>5. j \in PlanJob /\ j.pc = pc /\ j.id = i
    BY <1>b, <2>3
  <2>6. proposal' = [proposal EXCEPT ![i] = row] /\ job' = [job EXCEPT ![p] = j]
    BY <2>2
  <2> HIDE DEF row, pc, j
  <2>7. /\ DOMAIN job' = Planning!Actors /\ job'[p] = j
        /\ \A q \in Planning!Actors \ {p} : job'[q] = job[q]
    BY <1>t, <2>6
  <2>8. /\ proposal' \in [Planning!Ids -> PlanRow \cup {Planning!None}] /\ proposal'[i] = row
        /\ \A l \in Planning!Ids \ {i} : proposal'[l] = proposal[l]
    BY <1>0, <2>4, <2>6
  <2>9. Planning!Saved' = Planning!Saved \cup {i}
    BY <1>0, <2>4, <2>8 DEF Planning!Saved, Planning!None
  <2>10. PlanType'
    BY <1>0, <1>k, <2>1, <2>5, <2>7, <2>8, <2>9 DEF PlanType
  <2>11. Recorded'
    <3>1. job[p].pc \notin Counting /\ job'[p].pc \notin Counting
      BY <2>1, <2>3, <2>5, <2>7 DEF Counting
    <3>2. \A l \in Planning!Saved : proposal'[l] = proposal[l]
      BY <1>0, <2>8
    <3> QED BY <1>0, <2>1, <2>7, <3>1, <3>2, RecordedFrame
  <2>12. InOneHand'
    <3>1. \A q \in Planning!Actors : job[q].pc # "idle" => job[q].id \in Planning!Saved /\ job[q].id # i
      BY <1>0 DEF PlanType
    <3>2. \A l : Spending(l)' <=> Spending(l)
      BY <1>0, <2>1, <2>7 DEF Spending
    <3>3. ~Spending(i)
      BY <1>0, <3>1 DEF Spending
    <3>4. made[i] = 0 /\ asked[i] = 0 /\ request[i] = "none"
      BY <1>0 DEF InOneHand
    <3>5. ASSUME NEW l \in Planning!Saved'
          PROVE  /\ proposal'[l].key \in Campaigns =>
                        made[l] + (IF request[l] = "pending" THEN 1 ELSE 0)
                                + (IF Spending(l)' THEN 1 ELSE 0) <= asked[l]
                 /\ proposal'[l].key \notin Campaigns => made[l] <= 1 /\ request[l] = "none"
      <4>1. CASE l = i
        BY <3>2, <3>3, <3>4, <4>1
      <4>2. CASE l # i
        BY <1>0, <2>8, <2>9, <3>2, <4>2 DEF InOneHand
      <4> QED BY <4>1, <4>2
    <3>6. ASSUME NEW l \in Planning!Saved', proposal'[l].result = "stored"
          PROVE  excused.faults > 0 \/ \E q \in Planners : job'[q].pc # "idle" /\ job'[q].id = l
      <4>1. CASE l = i
        BY <1>j, <2>1, <2>5, <2>7, <4>1
      <4>2. CASE l # i
        <5>1. \A q \in Planners : job[q].pc # "idle" => job'[q] = job[q]
          BY <1>0, <2>1, <2>7
        <5> QED BY <1>0, <2>8, <2>9, <3>6, <4>2, <5>1 DEF InOneHand
      <4> QED BY <4>1, <4>2
    <3>7. ASSUME NEW q \in Planners
          PROVE  /\ job'[q].pc \in {"check", "create"} =>
                        Planning!key(q)' \notin Campaigns /\ made[job'[q].id] = 0
                 /\ job'[q].pc = "ask" =>
                        request[job'[q].id] = "none" /\ Planning!key(q)' \in Campaigns
      <4>1. CASE q = p
        BY <2>3, <2>4, <2>5, <2>7, <2>8, <3>4, <4>1 DEF Planning!key, Planning!id
      <4>2. CASE q # p
        <5>1. job'[q] = job[q]
          BY <1>0, <2>7, <4>2
        <5>2. job[q].pc # "idle" => proposal'[job[q].id] = proposal[job[q].id]
          BY <1>0, <2>8, <3>1
        <5> QED BY <1>0, <5>1, <5>2 DEF InOneHand, Planning!key, Planning!id
      <4> QED BY <4>1, <4>2
    <3>8. \A q, r \in Planners :
              job'[q].pc # "idle" /\ job'[r].pc # "idle" /\ job'[q].id = job'[r].id => q = r
      <4>1. \A q \in Planners \ {p} : job'[q] = job[q] /\ (job'[q].pc # "idle" => job'[q].id # i)
        BY <1>0, <2>7, <3>1
      <4>2. job'[p].id = i
        BY <2>5, <2>7
      <4> QED BY <1>0, <4>1, <4>2 DEF InOneHand
    <3>9. job'[Api].pc # "ask" /\ (job'[Api].pc # "idle" => Planning!key(Api)' \in Campaigns)
      <4>1. job'[Api] = job[Api]
        BY <1>0, <2>1, <2>7
      <4>2. job[Api].pc # "idle" => proposal'[job[Api].id] = proposal[job[Api].id]
        BY <1>0, <2>8, <3>1
      <4> QED BY <1>0, <4>1, <4>2 DEF InOneHand, Planning!key, Planning!id
    <3>10. \A l \in Planning!Ids \ Planning!Saved' :
               made[l] = 0 /\ asked[l] = 0 /\ request[l] = "none"
      BY <1>0, <2>9 DEF InOneHand
    <3> QED BY <1>0, <2>1, <3>5, <3>6, <3>7, <3>8, <3>9, <3>10 DEF InOneHand
  <2> QED BY <2>10, <2>11, <2>12 DEF PlanInv
\* The workflow, and what is recorded of it.
<1>12. ASSUME NEW p \in Planning!Actors, Planning!create_workflow(p)  PROVE PlanInv'
  <2>1. /\ job[p].pc = "create" /\ UNCHANGED <<request, asked, counter, cooling, hour, excused>>
    BY <1>12 DEF Planning!create_workflow, Planning!At
  <2>2. job[p] \in PlanJob /\ job[p].id \in Planning!Saved
    BY <1>0, <1>j, <2>1 DEF PlanType
  <2>3. CASE Planning!mark_proposal_applied(p, "skipped") /\ UNCHANGED <<taken, made, inHour, hot>>
    <3>2. /\ DOMAIN job' = Planning!Actors /\ job'[p] = Planning!Idle
          /\ \A q \in Planning!Actors \ {p} : job'[q] = job[q]
          /\ proposal' \in [Planning!Ids -> PlanRow \cup {Planning!None}]
          /\ Planning!Saved' = Planning!Saved
          /\ \A i \in Planning!Ids :
                 /\ proposal'[i].key = proposal[i].key
                 /\ proposal'[i].result = "stored" => proposal[i].result = "stored"
          /\ p \in Planners => proposal'[job[p].id].result # "stored"
      BY <1>m, <2>2, <2>3
    <3>3. PlanType'
      BY <1>0, <1>k, <2>1, <2>3, <3>2 DEF PlanType
    <3>4. Recorded'
      BY <1>0, <1>j, <2>1, <2>3, <3>2, RecordedFrame DEF Counting
    <3>5. InOneHand'
      BY <1>0, <1>j, <2>1, <2>3, <3>2, HandFrame
    <3> QED BY <3>3, <3>4, <3>5 DEF PlanInv
  <2>4. CASE /\ made' = [made EXCEPT ![job[p].id] = @ + 1] /\ inHour' = inHour + 1
             /\ hot' = hot \cup {proposal[job[p].id].key}
             /\ Planning!Goto(p, "read") /\ UNCHANGED proposal
    <3> DEFINE i == job[p].id
    <3>1. PICK j \in PlanJob : job' = [job EXCEPT ![p] = j] /\ j.pc = "read" /\ j.id = i
      BY <1>g, <2>2, <2>4
    <3>2. /\ DOMAIN job' = Planning!Actors /\ job'[p] = j
          /\ \A q \in Planning!Actors \ {p} : job'[q] = job[q]
      BY <1>t, <3>1
    <3>3. Planning!Saved' = Planning!Saved
      BY <2>4 DEF Planning!Saved, Planning!Ids
    <3>4. /\ made \in [Planning!Ids -> Nat] /\ asked \in [Planning!Ids -> Nat] /\ inHour \in Nat
          /\ i \in Planning!Saved /\ i \in Planning!Ids
      BY <1>0, <2>2 DEF PlanType
    <3>5. /\ made' \in [Planning!Ids -> Nat] /\ made'[i] = made[i] + 1
          /\ \A k \in Planning!Ids \ {i} : made'[k] = made[k]
      <4> HIDE DEF i
      <4>1. made' = [made EXCEPT ![i] = made[i] + 1]
        BY <2>4 DEF i
      <4> QED BY <3>4, <4>1
    <3>6. PlanType'
      <4>1. inHour' \in Nat
        BY <2>4, <3>4
      <4> QED BY <1>0, <1>k, <2>1, <2>2, <2>4, <3>1, <3>2, <3>3, <3>5, <4>1 DEF PlanType
    <3>7. Recorded'
      <4>1. ASSUME ~excused.overlap
            PROVE  /\ inHour' <= HourlyLimit
                   /\ inHour' <= Planning!_get_counter("hour")' + 1
                   /\ \A k \in hot' \ cooling' : k = proposal'[j.id].key
        <5>1. /\ \A q \in Planning!Actors : job[q].pc \notin {"read", "write"}
              /\ \A q \in Planning!Actors : job[q].pc \notin Counting \ {"create"}
          BY <1>0, <2>1, <4>1 DEF Recorded, Counting
        <5>2. /\ inHour <= Planning!_get_counter("hour")
              /\ Planning!_get_counter("hour") < HourlyLimit
              /\ hot \ cooling = {}
          BY <1>0, <2>1, <4>1, <5>1 DEF Recorded
        <5>3. Planning!_get_counter("hour") \in Nat
              /\ Planning!_get_counter("hour")' = Planning!_get_counter("hour")
          BY <1>0, <2>1 DEF PlanType, Planning!_get_counter
        <5>4. inHour' <= HourlyLimit /\ inHour' <= Planning!_get_counter("hour")' + 1
          BY <2>4, <3>4, <5>2, <5>3, ServicesAssumption
        <5> QED BY <2>1, <2>4, <3>1, <5>2, <5>4
      <4>2. job[p].pc \in Counting /\ job'[p].pc \in Counting \ {"create"}
        BY <2>1, <3>1, <3>2 DEF Counting
      <4> QED BY <1>0, <2>1, <3>1, <3>2, <4>1, <4>2, RecordedStep
    <3> HIDE DEF i
    <3>8. InOneHand'
      <4>1. \A k \in Planning!Saved : Spending(k)' => Spending(k)
        BY <1>0, <3>1, <3>2 DEF Spending
      <4>2. p = Api => /\ \A k \in {i} : Spending(k) /\ ~Spending(k)'
                       /\ proposal[i].key \in Campaigns
        BY <1>0, <2>1, <3>1, <3>2 DEF Spending, i, InOneHand, Planning!key, Planning!id
      <4>3. p # Api => made[i] = 0 /\ proposal[i].key \notin Campaigns
        BY <1>0, <2>1 DEF InOneHand, Planning!key, Planning!id, i
      <4>4. ASSUME NEW k \in Planning!Saved
            PROVE  /\ proposal[k].key \in Campaigns =>
                          made'[k] + (IF request[k] = "pending" THEN 1 ELSE 0)
                                   + (IF Spending(k)' THEN 1 ELSE 0) <= asked[k]
                   /\ proposal[k].key \notin Campaigns => made'[k] <= 1 /\ request[k] = "none"
        <5>1. /\ proposal[k].key \in Campaigns =>
                     made[k] + (IF request[k] = "pending" THEN 1 ELSE 0)
                             + (IF Spending(k) THEN 1 ELSE 0) <= asked[k]
              /\ proposal[k].key \notin Campaigns => made[k] <= 1 /\ request[k] = "none"
          BY <1>0 DEF InOneHand
        <5>2. made[k] \in Nat /\ asked[k] \in Nat
          BY <1>0, <3>4
        <5>3. CASE k = i
          BY <3>5, <4>2, <4>3, <5>1, <5>2, <5>3
        <5>4. CASE k # i
          BY <1>0, <3>5, <4>1, <5>1, <5>2, <5>4
        <5> QED BY <5>3, <5>4
      <4>5. \A q \in Planning!Actors :
                /\ job'[q].pc # "idle" => job[q].pc # "idle" /\ job'[q].id = job[q].id
                /\ job[q].pc # "idle" => job'[q].pc # "idle" /\ job'[q].id = job[q].id
        BY <2>1, <3>1, <3>2 DEF i
      <4>6. ASSUME NEW q \in Planners
            PROVE  /\ job'[q].pc \in {"check", "create"} =>
                          Planning!key(q)' \notin Campaigns /\ made'[job'[q].id] = 0
                   /\ job'[q].pc = "ask" =>
                          request[job'[q].id] = "none" /\ Planning!key(q)' \in Campaigns
        <5>1. CASE q = p
          BY <3>1, <3>2, <5>1
        <5>2. CASE q # p
          <6>1. job'[q] = job[q] /\ (job[q].pc # "idle" => job[q].id \in Planning!Ids)
            BY <1>0, <3>2, <5>2 DEF PlanType
          <6>2. job[q].pc \in {"check", "create"} => job[q].id # i
            BY <1>0, <2>1, <4>2, <5>2 DEF InOneHand, Planning!key, Planning!id, i
          <6> QED BY <1>0, <2>1, <2>4, <3>5, <6>1, <6>2 DEF InOneHand, Planning!key, Planning!id
        <5> QED BY <5>1, <5>2
      <4>7. \A k \in Planning!Saved : proposal[k].result = "stored" =>
                excused.faults > 0 \/ \E q \in Planners : job'[q].pc # "idle" /\ job'[q].id = k
        BY <1>0, <4>5 DEF InOneHand
      <4>8. \A q, r \in Planners :
                job'[q].pc # "idle" /\ job'[r].pc # "idle" /\ job'[q].id = job'[r].id => q = r
        BY <1>0, <4>5 DEF InOneHand
      <4>9. job'[Api].pc # "ask" /\ (job'[Api].pc # "idle" => Planning!key(Api)' \in Campaigns)
        <5>1. job'[Api].pc # "ask"
          BY <1>0, <3>1, <3>2 DEF InOneHand
        <5> QED BY <1>0, <2>4, <4>5, <5>1 DEF InOneHand, Planning!key, Planning!id
      <4>10. \A k \in Planning!Ids \ Planning!Saved :
                 made'[k] = 0 /\ asked[k] = 0 /\ request[k] = "none"
        BY <1>0, <3>4, <3>5 DEF InOneHand
      <4> QED
        BY <1>0, <2>1, <2>4, <3>3, <4>4, <4>6, <4>7, <4>8, <4>9, <4>10 DEF InOneHand
    <3> QED BY <3>6, <3>7, <3>8 DEF PlanInv
  <2> QED
    BY <1>12, <2>3, <2>4 DEF Planning!create_workflow, Planning!key, Planning!id
\* A step from one record to the next.
<1>13. ASSUME NEW p \in Planning!Actors, NEW j,
              \/ j \in PlanJob
              \/ j \in PlanWrite /\ j.window <= hour,
              job' = [job EXCEPT ![p] = j], j.id = job[p].id,
              job[p].pc \in Counting \ {"create"},
              j.pc \in {"write", "readDay", "writeDay", "cool", "mark"},
              UNCHANGED <<proposal, request, made, asked, inHour, hot, excused, hour>>,
              counter' \in [{"hour", "day"} -> [value: Nat, hour: Nat]],
              counter'["hour"].hour <= hour,
              ~excused.overlap =>
                  /\ j.pc = "write" =>
                         /\ inHour <= IF j.window = hour THEN j.value ELSE 0
                         /\ j.sameHour => counter'["hour"].hour = j.window
                  /\ j.pc # "write" => inHour <= Planning!_get_counter("hour")'
                  /\ \A k \in hot \ cooling' : j.pc # "mark" /\ k \in hot \ cooling
       PROVE  PlanInv'
  <2>1. /\ DOMAIN job' = Planning!Actors /\ job'[p] = j
        /\ \A q \in Planning!Actors \ {p} : job'[q] = job[q]
    BY <1>13, <1>t
  <2>2. Planning!Saved' = Planning!Saved /\ job[p].id \in Planning!Saved
    BY <1>0, <1>13 DEF Planning!Saved, Planning!Ids, PlanType, Counting
  <2>3. PlanType'
    <3>1. \A q \in Planning!Actors :
              /\ \/ job'[q] = Planning!Idle \/ job'[q] \in PlanJob \/ job'[q] \in PlanWrite
              /\ job'[q].pc # "idle" => job'[q].id \in Planning!Saved
              /\ job'[q] \in PlanWrite => job'[q].window <= hour
      BY <1>0, <1>13, <1>j, <2>1, <2>2 DEF PlanType
    <3> QED BY <1>0, <1>13, <2>1, <2>2, <3>1 DEF PlanType, Planning!Idle, PlanJob, PlanWrite
  <2>4. Recorded'
    <3>1. ASSUME ~excused.overlap, NEW k \in hot' \ cooling'
          PROVE  job'[p].pc \in Counting \ {"create"} /\ proposal'[job'[p].id].key = k
      <4>1. PICK q \in Planning!Actors :
                job[q].pc \in Counting \ {"create"} /\ Planning!key(q) = k
        BY <1>0, <1>13, <3>1 DEF Recorded
      <4>2. q = p
        BY <1>0, <1>13, <3>1, <4>1 DEF Recorded
      <4>3. j.pc # "mark"
        BY <1>13, <3>1
      <4> QED BY <1>13, <2>1, <4>1, <4>2, <4>3 DEF Counting, Planning!key, Planning!id
    <3>2. ~excused.overlap => inHour' <= HourlyLimit
      BY <1>0, <1>13 DEF Recorded
    <3>3. j.pc \notin {"create", "read"}
      BY <1>13
    <3> QED BY <1>0, <1>13, <2>1, <3>1, <3>2, <3>3, RecordedStep
  <2>5. InOneHand'
    <3>1. job[p].pc \notin {"idle", "check", "create"} /\ j.pc \notin {"idle", "ask", "check", "create"}
      BY <1>13 DEF Counting
    <3> QED BY <1>0, <1>13, <2>1, <2>2, <3>1, HandFrame
  <2> QED BY <2>3, <2>4, <2>5 DEF PlanInv
\* While one is past its check and is not going to record the hour, the counter has it.
<1>c. ASSUME ~excused.overlap, NEW p \in Planning!Actors, job[p].pc \in {"readDay", "writeDay", "cool"}
      PROVE  inHour <= Planning!_get_counter("hour")
  <2>1. \A q \in Planning!Actors : job[q].pc \notin {"read", "write"}
    BY <1>0, <1>c DEF Recorded, Counting
  <2> QED BY <1>0, <1>c, <2>1 DEF Recorded
<1>14. ASSUME NEW p \in Planning!Actors, Planning!CountHour(p) \/ Planning!CountDay(p)
       PROVE  PlanInv'
  <2>0. /\ counter \in [{"hour", "day"} -> [value: Nat, hour: Nat]] /\ hour \in Nat
        /\ counter["hour"].hour <= hour
        /\ \A w \in {"hour", "day"} : Planning!_get_counter(w) \in Nat
    BY <1>0 DEF PlanType, Planning!_get_counter
  <2>1. ASSUME NEW w \in {"hour", "day"}, NEW pc, NEW next \in {"write", "writeDay"},
               Planning!ReadCounter(p, w, pc, next),
               \/ pc = "read" /\ next = "write" /\ w = "hour"
               \/ pc = "readDay" /\ next = "writeDay"
        PROVE  PlanInv'
    <3> DEFINE v == Planning!_get_counter(w) + 1
               same == counter[w].hour = hour
               j == [id |-> job[p].id, pc |-> next, value |-> v, window |-> hour, sameHour |-> same]
    <3>1. /\ job[p].pc = pc /\ job' = [job EXCEPT ![p] = j]
          /\ UNCHANGED <<proposal, request, counter, cooling, hour, made, asked, inHour, hot, excused>>
      BY <2>1 DEF Planning!ReadCounter, Planning!At, Planning!id
    <3>2. v \in Nat /\ same \in BOOLEAN /\ job[p].id \in Planning!Ids
      BY <1>0, <1>j, <2>0, <2>1, <3>1 DEF PlanType
    <3>3. ~excused.overlap /\ pc = "read" => inHour <= v
      BY <1>0, <2>1, <3>1 DEF Recorded
    <3>4. same => counter[w].hour = hour
      OBVIOUS
    <3> HIDE DEF v, same
    <3>5. /\ j \in PlanWrite /\ j.window = hour /\ j.id = job[p].id /\ j.pc = next
          /\ j.value = v /\ j.sameHour = same
      BY <2>0, <2>1, <3>2 DEF PlanWrite
    <3> HIDE DEF j
    <3>6. Planning!_get_counter("hour")' = Planning!_get_counter("hour")
      BY <3>1 DEF Planning!_get_counter
    <3>7. CASE pc = "read" /\ next = "write" /\ w = "hour"
      <4>1. job[p].pc \in Counting \ {"create"}
        BY <3>1, <3>7 DEF Counting
      <4>2. j.window <= hour
        BY <2>0, <3>5
      <4>3. ~excused.overlap => inHour <= IF j.window = hour THEN j.value ELSE 0
        BY <3>3, <3>5, <3>7
      <4>4. j.sameHour => counter'["hour"].hour = j.window
        BY <3>1, <3>4, <3>5, <3>7
      <4>5. j.pc = "write"
        BY <3>5, <3>7
      <4> QED BY <1>13, <2>0, <3>1, <3>5, <4>1, <4>2, <4>3, <4>4, <4>5
    <3>8. CASE pc = "readDay" /\ next = "writeDay"
      <4>1. job[p].pc \in Counting \ {"create"}
        BY <3>1, <3>8 DEF Counting
      <4>2. j.window <= hour
        BY <2>0, <3>5
      <4>3. ~excused.overlap => inHour <= Planning!_get_counter("hour")'
        BY <1>c, <3>1, <3>6, <3>8
      <4>4. j.pc = "writeDay"
        BY <3>5, <3>8
      <4> QED BY <1>13, <2>0, <3>1, <3>5, <4>1, <4>2, <4>3, <4>4
    <3> QED BY <2>1, <3>7, <3>8
  <2>2. ASSUME NEW w \in {"hour", "day"}, NEW pc, NEW next \in {"readDay", "cool"},
               Planning!WriteCounter(p, w, pc, next),
               \/ pc = "write" /\ w = "hour"
               \/ pc = "writeDay" /\ w = "day"
        PROVE  PlanInv'
    <3> DEFINE j == [id |-> job[p].id, pc |-> next]
               n == job[p].value
               h == IF job[p].sameHour THEN counter[w].hour ELSE job[p].window
               c == [value |-> n, hour |-> h]
    <3>1. /\ job[p].pc = pc /\ job' = [job EXCEPT ![p] = j]
          /\ UNCHANGED <<proposal, request, cooling, hour, made, asked, inHour, hot, excused>>
          /\ counter' = [counter EXCEPT ![w] = c]
      BY <2>2 DEF Planning!WriteCounter, Planning!At, Planning!id
    <3>2. job[p] \in PlanWrite /\ job[p].id \in Planning!Ids /\ job[p].window <= hour
      BY <1>0, <1>j, <2>2, <3>1 DEF PlanType
    <3>3. n \in Nat /\ h \in Nat /\ (w = "hour" => h <= hour)
      BY <1>j, <2>0, <2>2, <3>2
    <3>4. ~excused.overlap /\ pc = "write" =>
              h = job[p].window /\ inHour <= IF job[p].window = hour THEN n ELSE 0
      BY <1>0, <2>2, <3>1 DEF Recorded
    <3>5. j \in PlanJob /\ j.id = job[p].id /\ j.pc = next
      BY <3>2 DEF PlanJob
    <3> HIDE DEF j, n, h
    <3>6. c \in [value: Nat, hour: Nat] /\ c.value = n /\ c.hour = h
      BY <3>3
    <3> HIDE DEF c
    <3>7. /\ counter' \in [{"hour", "day"} -> [value: Nat, hour: Nat]] /\ counter'[w] = c
          /\ \A x \in {"hour", "day"} \ {w} : counter'[x] = counter[x]
      BY <2>0, <3>1, <3>6
    <3>8. counter'["hour"].hour <= hour
      BY <2>0, <3>3, <3>6, <3>7
    <3>9. ~excused.overlap => inHour <= Planning!_get_counter("hour")'
      <4>1. CASE pc = "write" /\ w = "hour"
        BY <3>1, <3>4, <3>6, <3>7, <4>1 DEF Planning!_get_counter
      <4>2. CASE pc = "writeDay" /\ w = "day"
        <5>1. counter'["hour"] = counter["hour"]
          BY <3>7, <4>2
        <5> QED BY <1>c, <3>1, <4>2, <5>1 DEF Planning!_get_counter
      <4> QED BY <2>2, <4>1, <4>2
    <3>10. job[p].pc \in Counting \ {"create"}
      BY <2>2, <3>1 DEF Counting
    <3> QED BY <1>13, <2>2, <3>1, <3>5, <3>7, <3>8, <3>9, <3>10
  <2>3. Planning!AfterHour(p) \in {"readDay", "cool"}
    BY DEF Planning!AfterHour
  <2> QED BY <1>14, <2>1, <2>2, <2>3 DEF Planning!CountHour, Planning!CountDay
<1>15. ASSUME NEW p \in Planning!Actors, Planning!record_cooldown(p)  PROVE PlanInv'
  <2>1. /\ job[p].pc = "cool" /\ Planning!Goto(p, "mark")
        /\ cooling' = cooling \cup {proposal[job[p].id].key}
        /\ UNCHANGED <<proposal, request, counter, hour, made, asked, inHour, hot, excused>>
    BY <1>15 DEF Planning!record_cooldown, Planning!At, Planning!key, Planning!id
  <2>2. job[p] \in PlanJob
    BY <1>j, <2>1
  <2>3. PICK j \in PlanJob : job' = [job EXCEPT ![p] = j] /\ j.pc = "mark" /\ j.id = job[p].id
    BY <1>g, <2>1, <2>2
  <2>4. counter' \in [{"hour", "day"} -> [value: Nat, hour: Nat]] /\ counter'["hour"].hour <= hour
    BY <1>0, <2>1 DEF PlanType
  <2>5. ~excused.overlap => inHour <= Planning!_get_counter("hour")'
    BY <1>c, <2>1 DEF Planning!_get_counter
  <2>6. ~excused.overlap => hot \ cooling' = {}
    <3> SUFFICES ASSUME ~excused.overlap, NEW k \in hot \ cooling'  PROVE FALSE
      OBVIOUS
    <3>1. PICK q \in Planning!Actors :
              job[q].pc \in Counting \ {"create"} /\ Planning!key(q) = k
      BY <1>0, <2>1 DEF Recorded
    <3>2. q = p
      BY <1>0, <2>1, <3>1 DEF Recorded, Counting
    <3> QED BY <2>1, <3>1, <3>2 DEF Planning!key, Planning!id
  <2>7. job[p].pc \in Counting \ {"create"}
    BY <2>1 DEF Counting
  <2> QED BY <1>13, <2>1, <2>3, <2>4, <2>5, <2>6, <2>7
<1> QED
  BY <1>2, <1>3, <1>4, <1>5, <1>6, <1>7, <1>8, <1>9, <1>10, <1>11, <1>12, <1>14, <1>15
  DEF Planning!Next, Planning!Step

\* The invariant of planning holds at the start.
LEMMA InitPlan == Planning!Init => PlanInv
<1> SUFFICES ASSUME Planning!Init PROVE PlanInv
  OBVIOUS
<1>1. /\ proposal = [i \in Planning!Ids |-> Planning!None]
      /\ request = [i \in Planning!Ids |-> "none"]
      /\ inHour \in 0..HourlyLimit
      /\ counter = [w \in {"hour", "day"} |->
                       [value |-> IF w = "hour" THEN inHour ELSE 0, hour |-> 0]]
      /\ job = [p \in Planning!Actors |-> Planning!Idle]
      /\ made = [i \in Planning!Ids |-> 0] /\ asked = [i \in Planning!Ids |-> 0]
      /\ hour = 0 /\ hot = {} /\ excused = [faults |-> 0, overlap |-> FALSE]
  BY DEF Planning!Init
<1>2. Planning!Idle.pc = "idle" /\ Planning!Idle \notin PlanWrite
  BY DEF Planning!Idle, PlanWrite
<1>3. /\ \A p \in Planning!Actors : job[p] = Planning!Idle /\ job[p].pc = "idle"
      /\ Planning!Saved = {} /\ Api \in Planning!Actors /\ Planners \subseteq Planning!Actors
  BY <1>1, <1>2 DEF Planning!Saved, Planning!Actors
<1>4. /\ counter \in [{"hour", "day"} -> [value: Nat, hour: Nat]] /\ counter["hour"].hour = 0
      /\ counter["hour"].value = inHour /\ inHour \in Nat /\ inHour <= HourlyLimit
  BY <1>1, ServicesAssumption
<1>5. PlanType
  BY <1>1, <1>2, <1>3, <1>4 DEF PlanType
<1>6. Recorded
  <2>1. Planning!_get_counter("hour") = inHour
    BY <1>1, <1>4 DEF Planning!_get_counter
  <2> QED BY <1>1, <1>3, <1>4, <2>1 DEF Recorded, Counting
<1>7. InOneHand
  BY <1>1, <1>3 DEF InOneHand
<1> QED BY <1>5, <1>6, <1>7 DEF PlanInv

\* In the behaviours of the planners, their invariant.
LEMMA PlanKept == Spec => [](part = "planning" => PlanInv)
<1> DEFINE Inv == part = "planning" => PlanInv
<1>1. Init => Inv
  BY InitPlan DEF Init
<1>2. Inv /\ [Next]_vars => Inv'
  <2> SUFFICES ASSUME Inv, [Next]_vars, part' = "planning" PROVE PlanInv'
    OBVIOUS
  <2>1. part = "planning" /\ (Planning!Next \/ UNCHANGED Planning!vars)
    BY StepOfPart
  <2>2. CASE Planning!Next
    BY <2>1, <2>2, PlanStep
  <2>3. CASE UNCHANGED Planning!vars
    <3>1. /\ UNCHANGED <<proposal, request, counter, cooling, job, hour, made, asked, inHour, hot, excused>>
          /\ Planning!Saved' = Planning!Saved
      BY <2>3 DEF Planning!vars, Planning!Saved, Planning!Ids
    <3>2. PlanType' /\ Recorded' /\ InOneHand'
      BY <2>1, <3>1, RecordedFrame, HandFrame DEF PlanInv, PlanType
    <3> QED BY <3>2 DEF PlanInv
  <2> QED BY <2>1, <2>2, <2>3
<1> QED BY <1>1, <1>2, PTL DEF Spec

-----------------------------------------------------------------------------
(* The limit of the campaigns                                              *)

\* Who has created a workflow that its day does not count yet.
Uncounted == {"read", "write", "readDay", "writeDay"}

\* The same for the campaigns: what the counter of the day says of this hour, with what
\* the one that records is going to add, is no less than what was created in it; and the
\* hours of the day before this one have created what the limit allows each of them.
Campaigned ==
    ~excused.overlap =>
        /\ today.inHour <= CampaignLimit
        /\ today.campaigns <= CampaignLimit * (today.hours - 1) + today.inHour
        /\ \A p \in Planning!Actors :
               /\ job[p].pc = "create" /\ Planning!key(p) \in Campaigns =>
                      Planning!_get_counter("day") < CampaignLimit
               /\ job[p].pc \in {"read", "write", "readDay"} =>
                      today.inHour <= Planning!_get_counter("day")
                                      + IF Planning!key(p) \in Campaigns THEN 1 ELSE 0
               /\ job[p].pc = "writeDay" =>
                      /\ today.inHour <= IF job[p].window = hour THEN job[p].value ELSE 0
                      /\ job[p].sameHour => counter["day"].hour = job[p].window
        /\ (\A p \in Planning!Actors : job[p].pc \notin Uncounted) =>
               today.inHour <= Planning!_get_counter("day")

DayType ==
    /\ today \in [hours: Nat \ {0}, campaigns: Nat, inHour: Nat]
    /\ counter["day"].hour <= hour

DayInv == DayType /\ Campaigned

\* What a step of no one that records has to keep.
LEMMA CampaignedFrame ==
    ASSUME PlanType, DayInv,
           \A q \in Planning!Actors :
               \/ job'[q] = job[q]
               \/ job[q].pc \notin Uncounted /\ job'[q].pc \notin Uncounted \cup {"create"},
           \A i \in Planning!Saved : proposal'[i].key = proposal[i].key,
           ~excused'.overlap => ~excused.overlap,
           UNCHANGED <<counter, hour, today>>
    PROVE  DayInv'
<1>1. Planning!Actors' = Planning!Actors
  BY DEF Planning!Actors
<1>2. DayType'
  BY DEF DayInv, DayType
<1>3. SUFFICES ASSUME ~excused.overlap, ~excused'.overlap PROVE Campaigned'
  BY <1>2 DEF DayInv, Campaigned
<1>4. \A q \in Planning!Actors :
          /\ job'[q].pc \in Uncounted \cup {"create"} =>
                 /\ job'[q] = job[q] /\ Planning!key(q)' = Planning!key(q)
          /\ job[q].pc \in Uncounted => job'[q].pc \in Uncounted
  <2>1. \A q \in Planning!Actors :
            job[q].pc \in Uncounted \cup {"create"} => job[q].id \in Planning!Saved
    BY DEF PlanType, Uncounted
  <2> QED BY <2>1 DEF Planning!key, Planning!id
<1>5. Planning!_get_counter("day")' = Planning!_get_counter("day")
  BY DEF Planning!_get_counter
<1>6. \A p \in Planning!Actors :
          /\ job'[p].pc = "create" /\ Planning!key(p)' \in Campaigns =>
                 Planning!_get_counter("day")' < CampaignLimit
          /\ job'[p].pc \in {"read", "write", "readDay"} =>
                 today'.inHour <= Planning!_get_counter("day")'
                                  + IF Planning!key(p)' \in Campaigns THEN 1 ELSE 0
          /\ job'[p].pc = "writeDay" =>
                 /\ today'.inHour <= IF job'[p].window = hour' THEN job'[p].value ELSE 0
                 /\ job'[p].sameHour => counter'["day"].hour = job'[p].window
  BY <1>3, <1>4, <1>5 DEF DayInv, Campaigned, Uncounted
<1>7. (\A p \in Planning!Actors : job'[p].pc \notin Uncounted) =>
          today'.inHour <= Planning!_get_counter("day")'
  BY <1>3, <1>4, <1>5 DEF DayInv, Campaigned
<1>8. /\ today'.inHour <= CampaignLimit
      /\ today'.campaigns <= CampaignLimit * (today'.hours - 1) + today'.inHour
  BY <1>3 DEF DayInv, Campaigned
<1> QED BY <1>1, <1>6, <1>7, <1>8 DEF Campaigned

\* What the one between check and record has to keep.
LEMMA CampaignedStep ==
    ASSUME Recorded, DayType', NEW p \in Planning!Actors, job[p].pc \in Counting,
           \A q \in Planning!Actors \ {p} : job'[q] = job[q],
           UNCHANGED excused,
           ~excused.overlap =>
               /\ today'.inHour <= CampaignLimit
               /\ today'.campaigns <= CampaignLimit * (today'.hours - 1) + today'.inHour
               /\ job'[p].pc # "create"
               /\ job'[p].pc \in {"read", "write", "readDay"} =>
                      today'.inHour <= Planning!_get_counter("day")'
                                       + IF Planning!key(p)' \in Campaigns THEN 1 ELSE 0
               /\ job'[p].pc = "writeDay" =>
                      /\ today'.inHour <= IF job'[p].window = hour' THEN job'[p].value ELSE 0
                      /\ job'[p].sameHour => counter'["day"].hour = job'[p].window
               /\ job'[p].pc \notin Uncounted => today'.inHour <= Planning!_get_counter("day")'
    PROVE  DayInv'
<1> SUFFICES ASSUME ~excused.overlap PROVE Campaigned'
  BY DEF Campaigned, DayInv
<1>1. \A q \in Planning!Actors \ {p} : job'[q].pc \notin Counting
  BY DEF Recorded
<1>2. Planning!Actors' = Planning!Actors
  BY DEF Planning!Actors
<1>3. \A q \in Planning!Actors \ {p} : job'[q].pc \notin {"create", "read", "write", "readDay", "writeDay"}
  BY <1>1 DEF Counting
<1> QED BY <1>2, <1>3 DEF Campaigned

\* A mark leaves the keys alone, and lets its actor go.
LEMMA MarkKeeps ==
    ASSUME PlanType, NEW p \in Planning!Actors, NEW result, job[p].pc # "idle",
           Planning!mark_proposal_applied(p, result)
    PROVE  /\ job'[p].pc = "idle" /\ \A q \in Planning!Actors \ {p} : job'[q] = job[q]
           /\ \A i \in Planning!Saved : proposal'[i].key = proposal[i].key
<1>1. job' = [job EXCEPT ![p] = Planning!Idle] /\ Planning!Idle.pc = "idle"
  BY DEF Planning!mark_proposal_applied, Planning!Idle
<1>2. job'[p].pc = "idle" /\ \A q \in Planning!Actors \ {p} : job'[q] = job[q]
  BY <1>1 DEF PlanType
<1>3. job[p].id \in Planning!Saved /\ Planning!Saved \subseteq Planning!Ids
  BY DEF PlanType, Planning!Saved
<1>4. \A i \in Planning!Ids : proposal[i] \in PlanRow \cup {Planning!None}
  BY DEF PlanType
<1>5. \A i \in Planning!Saved : proposal[i] \in PlanRow
  BY <1>4 DEF Planning!Saved
<1>6. ASSUME NEW i \in Planning!Saved PROVE proposal'[i].key = proposal[i].key
  <2>1. CASE p = Api
    BY <2>1 DEF Planning!mark_proposal_applied
  <2>2. CASE p # Api
    <3>1. proposal' = [proposal EXCEPT ![job[p].id] = [proposal[job[p].id] EXCEPT !.result = result]]
      BY <2>2 DEF Planning!mark_proposal_applied, Planning!id
    <3>2. [proposal[job[p].id] EXCEPT !.result = result].key = proposal[job[p].id].key
      BY <1>3, <1>5 DEF PlanRow
    <3> QED BY <1>3, <3>1, <3>2 DEF PlanType
  <2> QED BY <2>1, <2>2
<1> QED BY <1>2, <1>6

\* Every step keeps the invariant of the campaigns.
LEMMA DayStep ==
    ASSUME PlanInv, PlanInv', DayInv, Planning!Next
    PROVE  DayInv'
<1>0. /\ PlanType /\ PlanType' /\ Recorded /\ DayType /\ Campaigned
      /\ Planning!Actors' = Planning!Actors /\ DOMAIN job = Planning!Actors
      /\ Api \in Planning!Actors
      /\ hour \in Nat /\ hour' \in Nat
      /\ counter \in [{"hour", "day"} -> [value: Nat, hour: Nat]]
      /\ Planning!_get_counter("day") \in Nat /\ CampaignLimit \in Nat
      /\ today.hours \in Nat \ {0} /\ today.campaigns \in Nat /\ today.inHour \in Nat
      /\ \A p \in Planning!Actors : job[p].pc # "idle" => job[p].id \in Planning!Saved
  BY ServicesAssumption
  DEF PlanInv, DayInv, DayType, PlanType, Planning!Actors, Planning!_get_counter
<1>1. ASSUME NEW p \in Planning!Actors, job[p].pc \notin Uncounted,
             \A q \in Planning!Actors \ {p} : job'[q] = job[q],
             job'[p].pc \notin Uncounted \cup {"create"},
             \A i \in Planning!Saved : proposal'[i].key = proposal[i].key,
             UNCHANGED <<counter, hour, today, excused>>
      PROVE  DayInv'
  BY <1>0, <1>1, CampaignedFrame
\* A step that ends in a mark.
<1>m. ASSUME NEW p \in Planning!Actors, NEW result, Planning!mark_proposal_applied(p, result),
             job[p].pc \notin Uncounted \cup {"idle"},
             UNCHANGED <<counter, hour, today, excused>>
      PROVE  DayInv'
  <2>1. /\ job'[p].pc = "idle" /\ \A q \in Planning!Actors \ {p} : job'[q] = job[q]
        /\ \A i \in Planning!Saved : proposal'[i].key = proposal[i].key
    BY <1>0, <1>m, MarkKeeps
  <2> QED BY <1>1, <1>m, <2>1 DEF Uncounted
<1>2. ASSUME NEW p \in Planning!Actors,
             Planning!Noop(p) \/ Planning!Cancel(p) \/ Planning!Asked(p) \/ Planning!Done(p)
      PROVE  DayInv'
  BY <1>m, <1>2
  DEF Planning!Noop, Planning!Cancel, Planning!Asked, Planning!Done, Planning!At, Uncounted
\* An actor that goes on, between no check and record.
<1>g. ASSUME NEW p \in Planning!Actors, NEW pc, Planning!Goto(p, pc)
      PROVE  /\ \A q \in Planning!Actors \ {p} : job'[q] = job[q]
             /\ job[p].pc # "idle" => job'[p].pc = pc /\ job'[p].id = job[p].id
  BY <1>0, <1>g DEF Planning!Goto, PlanType, PlanJob, PlanWrite, Planning!Idle
<1>3. ASSUME NEW p \in Planning!Actors,
             Planning!create_approval_request(p) \/ Planning!record_cooldown(p)
      PROVE  DayInv'
  <2>1. /\ job[p].pc \in {"ask", "cool"}
        /\ Planning!Goto(p, "asked") \/ Planning!Goto(p, "mark")
        /\ UNCHANGED <<proposal, counter, hour, today, excused>>
    BY <1>3 DEF Planning!create_approval_request, Planning!record_cooldown, Planning!At
  <2> QED BY <1>1, <1>g, <2>1 DEF Uncounted
<1>4. ASSUME NEW p, Planning!Plan(p)  PROVE DayInv'
  <2>1. /\ p \in Planning!Actors /\ job[p].pc = "idle"
        /\ UNCHANGED <<counter, hour, today, excused>>
    BY <1>4 DEF Planning!Plan, Planning!At, Planning!Actors
  <2>2. PICK i \in Planning!Ids \ Planning!Saved, k \in Keys \cup {"none"},
             d \in {"create", "cancel", "noop"} :
            /\ proposal' = [proposal EXCEPT ![i] = [key |-> k, decision |-> d, result |-> "stored"]]
            /\ job' = [job EXCEPT ![p] =
                         [id |-> i, pc |-> IF k \in Campaigns THEN "ask" ELSE Planning!Begins(d)]]
    BY <1>4 DEF Planning!Plan
  <2>3. \A l \in Planning!Saved : proposal'[l] = proposal[l]
    BY <2>2, <1>0 DEF PlanType, Planning!Saved
  <2>4. /\ \A q \in Planning!Actors \ {p} : job'[q] = job[q]
        /\ job'[p].pc \in {"ask", "check", "cancel", "noop"}
    BY <1>0, <2>1, <2>2 DEF Planning!Begins
  <2> QED BY <1>1, <2>1, <2>3, <2>4 DEF Uncounted
<1>5. ASSUME NEW i \in Planning!Ids,
             Planning!approve(i) \/ Planning!reject(i) \/ Planning!retry_approval(i)
      PROVE  DayInv'
  <2>1. CASE Planning!approve(i)
    <3>1. /\ job[Api].pc = "idle" /\ UNCHANGED <<proposal, counter, hour, today, excused>>
          /\ job' = [job EXCEPT ![Api] = [id |-> i, pc |-> Planning!Begins(proposal[i].decision)]]
          /\ request[i] = "pending"
      BY <2>1 DEF Planning!approve, Planning!At
    <3>2. i \in Planning!Saved
      BY <3>1 DEF PlanInv, InOneHand
    <3>3. Planning!Begins(proposal[i].decision) \in {"check", "cancel", "noop"}
      BY <1>0, <3>2 DEF PlanType, Planning!Saved, PlanRow, Planning!Begins
    <3>4. /\ \A q \in Planning!Actors \ {Api} : job'[q] = job[q]
          /\ job'[Api].pc \in {"check", "cancel", "noop"}
      BY <1>0, <3>1, <3>3
    <3> QED BY <1>0, <1>1, <3>1, <3>4 DEF Uncounted
  <2>2. CASE Planning!reject(i) \/ Planning!retry_approval(i)
    <3>1. UNCHANGED <<proposal, job, counter, hour, today, excused>>
      BY <2>2 DEF Planning!reject, Planning!retry_approval
    <3> QED BY <1>0, <3>1, CampaignedFrame
  <2> QED BY <1>5, <2>1, <2>2
<1>6. ASSUME NEW k, Planning!Abandon(k) \/ Planning!CoolDownPasses(k)  PROVE DayInv'
  <2>1. UNCHANGED <<proposal, job, counter, hour, today, excused>>
    BY <1>6 DEF Planning!Abandon, Planning!CoolDownPasses
  <2> QED BY <1>0, <2>1, CampaignedFrame
<1>7. ASSUME NEW S, Planning!Die(S)  PROVE DayInv'
  <2>1. /\ job' = [p \in Planning!Actors |-> IF p \in S THEN Planning!Idle ELSE job[p]]
        /\ excused'.overlap = (excused.overlap \/ S \cap Planning!Committed # {})
        /\ UNCHANGED <<proposal, counter, hour, today>>
    BY <1>7 DEF Planning!Die
  <2>2. CASE excused'.overlap
    BY <1>0, <2>1, <2>2 DEF DayInv, DayType, Campaigned
  <2>3. CASE ~excused'.overlap
    <3>1. ~excused.overlap /\ S \cap Planning!Committed = {}
      BY <2>1, <2>3
    <3>2. ASSUME NEW q \in Planning!Actors
          PROVE  \/ job'[q] = job[q]
                 \/ job[q].pc \notin Uncounted /\ job'[q].pc \notin Uncounted \cup {"create"}
      <4>1. CASE q \in S
        BY <2>1, <3>1, <4>1 DEF Planning!Committed, Planning!Idle, Uncounted
      <4> QED BY <2>1, <4>1
    <3> QED BY <1>0, <2>1, <3>1, <3>2, CampaignedFrame
  <2> QED BY <2>2, <2>3
\* An hour begins: nothing was created in it.  The day goes on, or a new one begins.
<1>8. CASE Planning!NextHour
  <2>1. /\ UNCHANGED <<proposal, counter, job, excused>> /\ hour' = hour + 1
        /\ \/ today' = [today EXCEPT !.hours = @ + 1, !.inHour = 0]
           \/ today' = [hours |-> 1, campaigns |-> 0, inHour |-> 0]
    BY <1>8 DEF Planning!NextHour
  <2>2. today' \in [hours: Nat \ {0}, campaigns: Nat, inHour: Nat] /\ today'.inHour = 0
    <3>1. today.hours + 1 \in Nat \ {0} /\ 1 \in Nat \ {0} /\ 0 \in Nat
      BY <1>0
    <3>2. today \in [hours: Nat \ {0}, campaigns: Nat, inHour: Nat]
      BY <1>0 DEF DayType
    <3>3. CASE today' = [today EXCEPT !.hours = @ + 1, !.inHour = 0]
      <4> DEFINE h == today.hours + 1
      <4>1. today' = [today EXCEPT !.hours = h, !.inHour = 0] /\ h \in Nat \ {0}
        BY <3>1, <3>3
      <4> HIDE DEF h
      <4> QED BY <3>1, <3>2, <4>1
    <3>4. CASE today' = [hours |-> 1, campaigns |-> 0, inHour |-> 0]
      BY <3>1, <3>4
    <3> QED BY <2>1, <3>3, <3>4
  <2>3. DayType'
    BY <1>0, <2>1, <2>2 DEF DayType
  <2>4. Planning!_get_counter("day")' = 0
    <3>1. counter["day"].hour \in Nat /\ counter["day"].hour <= hour
      BY <1>0 DEF DayType
    <3> QED BY <1>0, <2>1, <3>1 DEF Planning!_get_counter
  <2>5. ~excused.overlap =>
            today'.campaigns <= CampaignLimit * (today'.hours - 1) + today'.inHour
    <3>1. CASE today' = [today EXCEPT !.hours = @ + 1, !.inHour = 0]
      <4>1. today'.hours = today.hours + 1 /\ today'.campaigns = today.campaigns
        BY <1>0, <3>1 DEF DayType
      <4>2. ~excused.overlap => today.campaigns <= CampaignLimit * (today.hours - 1) + CampaignLimit
        <5> DEFINE m == CampaignLimit * (today.hours - 1)
        <5>1. m \in Nat
          BY <1>0
        <5>2. ~excused.overlap => today.campaigns <= m + today.inHour /\ today.inHour <= CampaignLimit
          BY <1>0 DEF Campaigned
        <5> HIDE DEF m
        <5>3. ~excused.overlap => today.campaigns <= m + CampaignLimit
          BY <1>0, <5>1, <5>2
        <5> QED BY <5>3 DEF m
      <4>3. CampaignLimit * (today.hours - 1) + CampaignLimit = CampaignLimit * today.hours
        BY <1>0
      <4>4. today'.hours - 1 = today.hours
        BY <1>0, <4>1
      <4>5. CampaignLimit * (today'.hours - 1) + today'.inHour = CampaignLimit * today.hours
        BY <1>0, <2>2, <4>4
      <4> QED BY <4>1, <4>2, <4>3, <4>5
    <3>2. CASE today' = [hours |-> 1, campaigns |-> 0, inHour |-> 0]
      BY <1>0, <3>2
    <3> QED BY <2>1, <3>1, <3>2
  <2>6. \A p \in Planning!Actors : Planning!key(p)' = Planning!key(p)
    BY <2>1 DEF Planning!key, Planning!id
  <2>7. \A p \in Planning!Actors :
            job[p].pc = "writeDay" => 0 <= IF job[p].window = hour' THEN job[p].value ELSE 0
    BY <1>0 DEF PlanType, PlanJob, PlanWrite, Planning!Idle
  <2>8. ~excused.overlap =>
            \A p \in Planning!Actors :
                job[p].pc = "create" /\ Planning!key(p) \in Campaigns => 0 < CampaignLimit
    BY <1>0 DEF Campaigned
  <2>9. ~excused.overlap =>
            \A p \in Planning!Actors :
                job[p].pc = "writeDay" /\ job[p].sameHour => counter["day"].hour = job[p].window
    BY <1>0 DEF Campaigned
  <2>10. Campaigned'
    BY <1>0, <2>1, <2>2, <2>4, <2>5, <2>6, <2>7, <2>8, <2>9 DEF Campaigned
  <2> QED BY <2>3, <2>10 DEF DayInv
\* The check.
<1>9. ASSUME NEW p \in Planning!Actors, Planning!validate_autonomous_execution(p)
      PROVE  DayInv'
  <2>1. job[p].pc = "check" /\ UNCHANGED <<counter, hour, today>>
    BY <1>9 DEF Planning!validate_autonomous_execution, Planning!At
  <2>2. CASE Planning!mark_proposal_applied(p, "blocked") /\ UNCHANGED excused
    BY <1>m, <2>1, <2>2 DEF Uncounted
  <2>3. CASE /\ Planning!check_campaign_spam(Planning!key(p))
             /\ Planning!Goto(p, "create") /\ UNCHANGED proposal
             /\ excused' = [excused EXCEPT !.overlap = @ \/ Planning!Committed # {}]
    <3>1. /\ \A q \in Planning!Actors \ {p} : job'[q] = job[q]
          /\ job'[p].pc = "create" /\ job'[p].id = job[p].id
      BY <1>g, <2>1, <2>3
    <3>2. ~excused'.overlap => ~excused.overlap /\ Planning!Committed = {}
      <4>1. excused \in [faults: Nat, overlap: BOOLEAN]
        BY <1>0 DEF PlanType
      <4>2. (excused.overlap \/ Planning!Committed # {}) \in BOOLEAN
        OBVIOUS
      <4> QED BY <2>3, <4>1, <4>2
    <3>3. DayType'
      BY <1>0, <2>1 DEF DayType
    <3>4. Campaigned'
      <4>1. SUFFICES ASSUME ~excused'.overlap PROVE Campaigned'
        BY DEF Campaigned
      <4>2. \A q \in Planning!Actors : job[q].pc \notin Uncounted
        BY <3>2, <4>1 DEF Planning!Committed, Uncounted
      <4>3. \A q \in Planning!Actors : job'[q].pc \notin Uncounted
        BY <3>1, <4>2 DEF Uncounted
      <4>4. /\ Planning!_get_counter("day")' = Planning!_get_counter("day")
            /\ \A q \in Planning!Actors : job'[q].pc = "create" =>
                   /\ q = p
                   /\ Planning!key(q)' = Planning!key(q)
        <5>1. \A q \in Planning!Actors : job[q].pc # "create"
          BY <3>2, <4>1 DEF Planning!Committed
        <5>2. \A q \in Planning!Actors \ {p} : job'[q].pc # "create"
          BY <3>1, <5>1
        <5>3. Planning!key(p)' = Planning!key(p)
          BY <2>3, <3>1 DEF Planning!key, Planning!id
        <5>4. Planning!_get_counter("day")' = Planning!_get_counter("day")
          BY <2>1 DEF Planning!_get_counter
        <5> QED BY <5>2, <5>3, <5>4
      <4>5. Planning!key(p) \in Campaigns => Planning!_get_counter("day") < CampaignLimit
        BY <2>3 DEF Planning!check_campaign_spam
      <4>6. /\ today.inHour <= CampaignLimit
            /\ today.campaigns <= CampaignLimit * (today.hours - 1) + today.inHour
            /\ today.inHour <= Planning!_get_counter("day")
        BY <1>0, <3>2, <4>1, <4>2 DEF Campaigned
      <4>7. \A q \in Planning!Actors : job'[q].pc \notin {"read", "write", "readDay", "writeDay"}
        BY <4>3 DEF Uncounted
      <4> QED BY <1>0, <2>1, <4>4, <4>5, <4>6, <4>7 DEF Campaigned
    <3> QED BY <3>3, <3>4 DEF DayInv
  <2> QED BY <1>9, <2>2, <2>3 DEF Planning!validate_autonomous_execution
\* The workflow.
<1>10. ASSUME NEW p \in Planning!Actors, Planning!create_workflow(p)  PROVE DayInv'
  <2>1. job[p].pc = "create" /\ UNCHANGED <<counter, hour, excused>>
    BY <1>10 DEF Planning!create_workflow, Planning!At
  <2>2. CASE Planning!mark_proposal_applied(p, "skipped") /\ UNCHANGED today
    BY <1>m, <2>1, <2>2 DEF Uncounted
  <2>3. CASE /\ Planning!Goto(p, "read") /\ UNCHANGED proposal
             /\ today' = IF Planning!key(p) \in Campaigns
                         THEN [today EXCEPT !.campaigns = @ + 1, !.inHour = @ + 1] ELSE today
    <3> DEFINE n == IF Planning!key(p) \in Campaigns THEN 1 ELSE 0
    <3>0. n \in {0, 1}
      OBVIOUS
    <3>1. /\ \A q \in Planning!Actors \ {p} : job'[q] = job[q]
          /\ job'[p].pc = "read" /\ job'[p].id = job[p].id
          /\ Planning!key(p)' = Planning!key(p)
      BY <1>g, <2>1, <2>3 DEF Planning!key, Planning!id
    <3>2. /\ today' \in [hours: Nat \ {0}, campaigns: Nat, inHour: Nat]
          /\ today'.hours = today.hours /\ today'.campaigns = today.campaigns + n
          /\ today'.inHour = today.inHour + n
      <4>1. today.campaigns + 1 \in Nat /\ today.inHour + 1 \in Nat
        BY <1>0
      <4>2. today \in [hours: Nat \ {0}, campaigns: Nat, inHour: Nat]
        BY <1>0 DEF DayType
      <4>3. CASE Planning!key(p) \in Campaigns
        <5>1. today' = [today EXCEPT !.campaigns = @ + 1, !.inHour = @ + 1]
          BY <2>3, <4>3
        <5> QED BY <4>1, <4>2, <4>3, <5>1
      <4>4. CASE Planning!key(p) \notin Campaigns
        BY <1>0, <2>3, <4>2, <4>4
      <4> QED BY <4>3, <4>4
    <3>3. n' = n
      BY <3>1
    <3>4. n = 1 => Planning!key(p) \in Campaigns
      OBVIOUS
    <3> HIDE DEF n
    <3>5. DayType'
      BY <1>0, <2>1, <3>2 DEF DayType
    <3>6. ASSUME ~excused.overlap
          PROVE  /\ today'.inHour <= CampaignLimit
                 /\ today'.campaigns <= CampaignLimit * (today'.hours - 1) + today'.inHour
                 /\ today'.inHour <= Planning!_get_counter("day")' + n
      <4>1. \A q \in Planning!Actors : job[q].pc \notin Uncounted
        BY <1>0, <2>1, <3>6 DEF Recorded, Counting, Uncounted
      <4>2. /\ today.inHour <= CampaignLimit
            /\ today.campaigns <= CampaignLimit * (today.hours - 1) + today.inHour
            /\ today.inHour <= Planning!_get_counter("day")
            /\ n = 1 => Planning!_get_counter("day") < CampaignLimit
        BY <1>0, <2>1, <3>4, <3>6, <4>1 DEF Campaigned
      <4>3. Planning!_get_counter("day")' = Planning!_get_counter("day")
        BY <2>1 DEF Planning!_get_counter
      <4> DEFINE m == CampaignLimit * (today.hours - 1)
      <4>4. m \in Nat /\ m' = CampaignLimit * (today'.hours - 1) /\ m' = m
        BY <1>0, <3>2
      <4> HIDE DEF m
      <4>5. today.campaigns <= m + today.inHour
        BY <4>2 DEF m
      <4>6. today'.campaigns <= m + today'.inHour
        BY <1>0, <3>0, <3>2, <4>4, <4>5
      <4> QED BY <1>0, <3>0, <3>2, <4>2, <4>3, <4>4, <4>6
    <3>7. job[p].pc \in Counting
      BY <2>1 DEF Counting
    <3>8. ~excused.overlap =>
              today'.inHour <= Planning!_get_counter("day")'
                               + IF Planning!key(p)' \in Campaigns THEN 1 ELSE 0
      BY <3>3, <3>6 DEF n
    <3> QED BY <1>0, <2>1, <3>1, <3>5, <3>6, <3>7, <3>8, CampaignedStep DEF Uncounted
  <2> QED BY <1>10, <2>2, <2>3 DEF Planning!create_workflow
\* The counters.
<1>11. ASSUME NEW p \in Planning!Actors, Planning!CountHour(p)  PROVE DayInv'
  <2>1. /\ job[p].pc \in {"read", "write"} /\ UNCHANGED <<proposal, hour, today, excused>>
        /\ counter'["day"] = counter["day"]
        /\ \A q \in Planning!Actors \ {p} : job'[q] = job[q]
        /\ job'[p].id = job[p].id
        /\ job'[p].pc \in {"write", Planning!AfterHour(p)}
    BY <1>0, <1>11
    DEF Planning!CountHour, Planning!ReadCounter, Planning!WriteCounter, Planning!At, Planning!id
  <2>2. /\ Planning!key(p)' = Planning!key(p)
        /\ Planning!_get_counter("day")' = Planning!_get_counter("day")
    BY <2>1 DEF Planning!key, Planning!id, Planning!_get_counter
  <2>3. ~excused.overlap =>
            today.inHour <= Planning!_get_counter("day")
                            + IF Planning!key(p) \in Campaigns THEN 1 ELSE 0
    BY <1>0, <2>1 DEF Campaigned
  <2>4. /\ job'[p].pc \in {"write", "readDay", "cool"}
        /\ job'[p].pc = "cool" => Planning!key(p) \notin Campaigns
    BY <2>1 DEF Planning!AfterHour
  <2>5. DayType' /\ job[p].pc \in Counting
    BY <1>0, <2>1 DEF DayType, Counting
  <2>6. ~excused.overlap =>
            /\ today'.inHour <= CampaignLimit
            /\ today'.campaigns <= CampaignLimit * (today'.hours - 1) + today'.inHour
    BY <1>0, <2>1 DEF Campaigned
  <2>7. ~excused.overlap /\ job'[p].pc \notin Uncounted =>
            today'.inHour <= Planning!_get_counter("day")'
    BY <1>0, <2>1, <2>2, <2>3, <2>4 DEF Uncounted
  <2> QED BY <1>0, <2>1, <2>2, <2>3, <2>4, <2>5, <2>6, <2>7, CampaignedStep
<1>12. ASSUME NEW p \in Planning!Actors, Planning!CountDay(p)  PROVE DayInv'
  <2>0. ~excused.overlap =>
            /\ today.inHour <= CampaignLimit
            /\ today.campaigns <= CampaignLimit * (today.hours - 1) + today.inHour
    BY <1>0 DEF Campaigned
  <2>1. CASE Planning!ReadCounter(p, "day", "readDay", "writeDay")
    <3> DEFINE v == Planning!_get_counter("day") + 1
               same == counter["day"].hour = hour
    <3>1. /\ job[p].pc = "readDay" /\ UNCHANGED <<proposal, counter, hour, today, excused>>
          /\ job' = [job EXCEPT ![p] = [id |-> job[p].id, pc |-> "writeDay", value |-> v,
                                        window |-> hour, sameHour |-> same]]
      BY <2>1 DEF Planning!ReadCounter, Planning!At, Planning!id
    <3>2. ~excused.overlap => today.inHour <= v
      BY <1>0, <3>1 DEF Campaigned
    <3>3. same => counter["day"].hour = hour
      OBVIOUS
    <3> HIDE DEF v, same
    <3>4. /\ \A q \in Planning!Actors \ {p} : job'[q] = job[q]
          /\ job'[p].pc = "writeDay" /\ job'[p].value = v /\ job'[p].window = hour
          /\ job'[p].sameHour = same
      BY <1>0, <3>1
    <3>5. DayType' /\ job[p].pc \in Counting
      BY <1>0, <3>1 DEF DayType, Counting
    <3> QED BY <1>0, <2>0, <3>1, <3>2, <3>3, <3>4, <3>5, CampaignedStep DEF Uncounted
  <2>2. CASE Planning!WriteCounter(p, "day", "writeDay", "cool")
    <3> DEFINE n == job[p].value
               h == IF job[p].sameHour THEN counter["day"].hour ELSE job[p].window
    <3>1. /\ job[p].pc = "writeDay" /\ UNCHANGED <<proposal, hour, today, excused>>
          /\ counter' = [counter EXCEPT !["day"] = [value |-> n, hour |-> h]]
          /\ job' = [job EXCEPT ![p] = [id |-> job[p].id, pc |-> "cool"]]
      BY <2>2 DEF Planning!WriteCounter, Planning!At, Planning!id
    <3>2. job[p] \in PlanWrite /\ job[p].window <= hour
      BY <1>0, <3>1 DEF PlanType, PlanJob, Planning!Idle
    <3>3. h <= hour
      BY <1>0, <3>2 DEF DayType
    <3>4. ~excused.overlap =>
              h = job[p].window /\ today.inHour <= IF job[p].window = hour THEN n ELSE 0
      BY <1>0, <3>1 DEF Campaigned
    <3> HIDE DEF n, h
    <3>5. counter'["day"].value = n /\ counter'["day"].hour = h
      BY <1>0, <3>1
    <3>6. ~excused.overlap => today'.inHour <= Planning!_get_counter("day")'
      BY <3>1, <3>4, <3>5 DEF Planning!_get_counter
    <3>7. /\ \A q \in Planning!Actors \ {p} : job'[q] = job[q]
          /\ job'[p].pc = "cool"
      BY <1>0, <3>1
    <3>8. DayType' /\ job[p].pc \in Counting
      BY <1>0, <3>1, <3>3, <3>5 DEF DayType, Counting
    <3> QED BY <1>0, <2>0, <3>1, <3>6, <3>7, <3>8, CampaignedStep DEF Uncounted
  <2> QED BY <1>12, <2>1, <2>2 DEF Planning!CountDay
<1> QED
  BY <1>2, <1>3, <1>4, <1>5, <1>6, <1>7, <1>8, <1>9, <1>10, <1>11, <1>12
  DEF Planning!Next, Planning!Step

\* In the behaviours of the planners, the invariant of the campaigns.
LEMMA DayKept == Spec => [](part = "planning" => DayInv)
<1> DEFINE P == part = "planning" => PlanInv
           Inv == part = "planning" => DayInv
<1>1. Init => Inv
  <2> SUFFICES ASSUME Planning!Init PROVE DayInv
    BY DEF Init
  <2>1. /\ today = [hours |-> 1, campaigns |-> 0, inHour |-> 0] /\ hour = 0
        /\ counter["day"].hour = 0 /\ counter["day"].value = 0
        /\ \A p \in Planning!Actors : job[p].pc = "idle"
    BY DEF Planning!Init, Planning!Idle
  <2>2. Planning!_get_counter("day") = 0
    BY <2>1 DEF Planning!_get_counter
  <2>3. today.campaigns <= CampaignLimit * (today.hours - 1) + today.inHour
    BY <2>1, ServicesAssumption
  <2> QED BY <2>1, <2>2, <2>3, ServicesAssumption DEF DayInv, DayType, Campaigned
<1>2. P /\ P' /\ Inv /\ [Next]_vars => Inv'
  <2> SUFFICES ASSUME P, P', Inv, [Next]_vars, part' = "planning" PROVE DayInv'
    OBVIOUS
  <2>1. part = "planning" /\ (Planning!Next \/ UNCHANGED Planning!vars)
    BY StepOfPart
  <2>2. CASE Planning!Next
    BY <2>1, <2>2, DayStep
  <2>3. CASE UNCHANGED Planning!vars
    <3>1. UNCHANGED <<proposal, job, counter, hour, today, excused>>
      BY <2>3 DEF Planning!vars
    <3> QED BY <2>1, <3>1, CampaignedFrame DEF PlanInv
  <2> QED BY <2>1, <2>2, <2>3
<1>3. Spec => []P
  BY PlanKept
<1> QED BY <1>1, <1>2, <1>3, PTL DEF Spec

\* The limits hold over all planners and approvals, across the hours that begin and the
\* counters that are read in one transaction and written in the next: the quota of an
\* hour, the limit of the campaigns, which is one of an hour too and so bounds a day by
\* as much for each of its hours, and the cool-down of a key; as long as no two are
\* between their check and their record at once and no process dies there.
THEOREM LimitsRespected == Spec => []LimitsHold
<1>1. (part = "planning" => PlanInv) /\ (part = "planning" => DayInv) => LimitsHold
  <2> SUFFICES ASSUME PlanInv, DayInv, ~excused.overlap
               PROVE  /\ inHour <= HourlyLimit
                      /\ today.inHour <= CampaignLimit
                      /\ today.campaigns <= CampaignLimit * today.hours
                      /\ \A p \in Planning!Actors : job[p].pc = "create" => Planning!key(p) \notin hot
    BY DEF LimitsHold, Planning!LimitsHold, Planning!At
  <2>1. ASSUME NEW p \in Planning!Actors, job[p].pc = "create"
        PROVE  Planning!key(p) \notin hot
    BY <2>1 DEF PlanInv, Recorded, Counting
  <2>2. /\ today.inHour <= CampaignLimit
        /\ today.campaigns <= CampaignLimit * (today.hours - 1) + today.inHour
    BY DEF DayInv, Campaigned
  <2>3. today.campaigns <= CampaignLimit * today.hours
    <3>1. /\ today.hours \in Nat \ {0} /\ today.campaigns \in Nat /\ today.inHour \in Nat
          /\ CampaignLimit \in Nat
      BY ServicesAssumption DEF DayInv, DayType
    <3>2. CampaignLimit * (today.hours - 1) + CampaignLimit = CampaignLimit * today.hours
      BY <3>1
    <3> DEFINE m == CampaignLimit * (today.hours - 1)
    <3>3. m \in Nat
      BY <3>1
    <3>4. today.campaigns <= m + today.inHour
      BY <2>2
    <3> HIDE DEF m
    <3>5. today.campaigns <= m + CampaignLimit
      BY <2>2, <3>1, <3>3, <3>4
    <3> QED BY <3>2, <3>5 DEF m
  <2> QED BY <2>1, <2>2, <2>3 DEF PlanInv, Recorded
<1> QED BY <1>1, PlanKept, DayKept, PTL

\* One approval buys one workflow at most, a proposal that needs none one workflow at
\* most, and every proposal is settled, whatever operators decide and whatever dies.
THEOREM ProposalsSettle == Spec => []ProposalsSettleOnce
<1>1. (part = "planning" => PlanInv) => ProposalsSettleOnce
  <2> SUFFICES ASSUME PlanInv, NEW i \in Planning!Saved
               PROVE  /\ IF proposal[i].key \in Campaigns
                         THEN made[i] + (IF request[i] = "pending" THEN 1 ELSE 0) <= asked[i]
                         ELSE made[i] <= 1
                      /\ proposal[i].result = "stored" =>
                             excused.faults > 0 \/ \E p \in Planners : job[p] # Planning!Idle /\ job[p].id = i
    BY DEF ProposalsSettleOnce, Planning!ProposalsSettleOnce, Planning!id
  <2>1. made[i] \in Nat /\ asked[i] \in Nat
    BY DEF PlanInv, PlanType, Planning!Saved
  <2>2. Planning!Idle.pc = "idle"
    BY DEF Planning!Idle
  <2>3. IF proposal[i].key \in Campaigns
        THEN made[i] + (IF request[i] = "pending" THEN 1 ELSE 0) <= asked[i]
        ELSE made[i] <= 1
    BY <2>1 DEF PlanInv, InOneHand
  <2> QED BY <2>2, <2>3 DEF PlanInv, InOneHand
<1> QED BY <1>1, PlanKept, PTL
=============================================================================
