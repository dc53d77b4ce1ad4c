-------------------------- MODULE ApplicationProofs --------------------------
(* What Application guarantees, proved for any groups and values and any   *)
(* number of edits, failures and changes by others.                        *)
EXTENDS ApplicationInv, TLAPS

-----------------------------------------------------------------------------
(* The calls, their order and what they carry. *)

\* The calls of Update, in order.
LEMMA AfterParts ==
  /\ After("move") = "update" /\ After("update") = "source"
  /\ After("source") = "build" /\ After("build") = "env"
  /\ After("env") = "readback"
<1> DEFINE At(step) == CHOOSE j \in DOMAIN Steps : Steps[j] = step
<1>1. /\ DOMAIN Steps = 1 .. 5 /\ Len(Steps) = 5
      /\ Steps[1] = "move" /\ Steps[2] = "update" /\ Steps[3] = "source"
      /\ Steps[4] = "build" /\ Steps[5] = "env"
  BY DEF Steps
<1>2. \A step \in Calls : At(step) \in 1 .. 5 /\ Steps[At(step)] = step
  <2> SUFFICES ASSUME NEW step \in Calls
               PROVE  At(step) \in 1 .. 5 /\ Steps[At(step)] = step
    OBVIOUS
  <2>1. \E j \in DOMAIN Steps : Steps[j] = step
    BY <1>1 DEF Calls
  <2> QED
    BY <1>1, <2>1
<1>3. /\ At("move") = 1 /\ At("update") = 2 /\ At("source") = 3
      /\ At("build") = 4 /\ At("env") = 5
  BY <1>1, <1>2 DEF Calls
<1>4. \A step : After(step) = IF At(step) < Len(Steps) THEN Steps[At(step) + 1]
                                                       ELSE "readback"
  BY DEF After
<1> HIDE DEF At
<1> QED
  BY <1>1, <1>3, <1>4

\* The groups each carries.
LEMMA CarriedParts ==
  /\ CarriedBy("move") = Groups \cap {"place"}
  /\ CarriedBy("update") = Groups \cap {"meta", "net"}
  /\ CarriedBy("source") = Groups \cap {"source", "watch"}
  /\ CarriedBy("build") = Groups \cap {"build"}
  /\ CarriedBy("env") = Groups \cap {"env"}
BY DEF CarriedBy

\* A save writes what it carries, but for the watch paths of docker.
LEMMA WrittenParts ==
  ASSUME NEW step \in Calls, NEW m
  PROVE  WrittenBy(step, m) = CarriedBy(step) \cap Kept(m)
<1>1. step # "source" => "watch" \notin CarriedBy(step)
  BY CarriedParts DEF Calls
<1>2. CarriedBy(step) \subseteq Groups
  BY CarriedParts DEF Calls
<1> QED
  BY <1>1, <1>2 DEF WrittenBy, Kept

\* A call leaves the groups of the later ones ahead.
LEMMA AheadParts ==
  ASSUME NEW step \in Calls, pc = step, pc' = After(step)
  PROVE  /\ Ahead' = Ahead \ CarriedBy(step)
         /\ CarriedBy(step) \subseteq Ahead
         /\ Ahead \subseteq Groups
         /\ pc' \in {"update", "source", "build", "env", "readback"}
<1>1. Groups \subseteq {"place", "meta", "net", "source", "watch", "build", "env"}
  BY GroupsAssumption DEF GroupsAssumption, AllGroups
<1>2. CASE step = "move"
  BY <1>1, <1>2, AfterParts, CarriedParts DEF Ahead
<1>3. CASE step = "update"
  BY <1>1, <1>3, AfterParts, CarriedParts DEF Ahead
<1>4. CASE step = "source"
  BY <1>1, <1>4, AfterParts, CarriedParts DEF Ahead
<1>5. CASE step = "build"
  BY <1>1, <1>5, AfterParts, CarriedParts DEF Ahead
<1>6. CASE step = "env"
  BY <1>1, <1>6, AfterParts, CarriedParts DEF Ahead
<1> QED
  BY <1>2, <1>3, <1>4, <1>5, <1>6 DEF Calls

-----------------------------------------------------------------------------
(* Types. *)

LEMMA ModelParts ==
  ASSUME NEW m
  PROVE  m \in Models <=> /\ m = [g \in Groups |-> m[g]]
                          /\ \A g \in Groups : m[g] \in ValuesOf[g]
BY DEF Models

\* Only the build block may be left out.
LEMMA UnsetParts ==
  ASSUME NEW m \in Models, NEW g \in Groups, m[g] = Unset
  PROVE  g = "build"
BY ModelParts, GroupsAssumption DEF GroupsAssumption

\* A save carries nothing unset: Needed keeps a build block left out away.
LEMMA NeededParts ==
  ASSUME NEW step \in Calls, plan \in Models, Needed(step)
  PROVE  \A g \in CarriedBy(step) : g \in Groups /\ plan[g] # Unset
<1>1. CarriedBy(step) \subseteq Groups
  BY CarriedParts DEF Calls
<1>2. CASE step # "build"
  BY <1>1, <1>2, UnsetParts, CarriedParts DEF Calls
<1>3. CASE step = "build"
  <2>1. \E g \in CarriedBy(step) : plan[g] # Unset
    BY <1>3 DEF Needed
  <2> QED
    BY <1>1, <1>3, <2>1, CarriedParts
<1> QED
  BY <1>2, <1>3

\* What a save makes of the record.
LEMMA WriteParts ==
  ASSUME TypeOK, NEW step \in Calls, plan \in Models, server # Absent,
         Needed(step), Write(step)
  PROVE  /\ server' \in Models /\ server' # Absent
         /\ \A g \in Groups :
              /\ server'[g] # Unset
              /\ server'[g] = IF g \in CarriedBy(step) \cap Kept(plan)
                                THEN plan[g] ELSE server[g]
<1>1. server \in Models /\ \A g \in Groups : server[g] # Unset
  BY DEF TypeOK
<1>2. server' = [g \in Groups |-> IF g \in CarriedBy(step) \cap Kept(plan)
                                    THEN plan[g] ELSE server[g]]
  BY WrittenParts DEF Write
<1>3. \A g \in Groups : server'[g] = IF g \in CarriedBy(step) \cap Kept(plan)
                                       THEN plan[g] ELSE server[g]
  BY <1>2
<1>4. \A g \in Groups : server'[g] \in ValuesOf[g] /\ server'[g] # Unset
  BY <1>1, <1>3, NeededParts, ModelParts
<1>5. server' = [g \in Groups |-> server'[g]]
  BY <1>2
<1>6. server' \in Models
  BY <1>4, <1>5, ModelParts
<1> QED
  BY <1>3, <1>4, <1>6, AbsentAssumption DEF AbsentAssumption

\* What Plan proposes.
LEMMA PlannedParts ==
  ASSUME config \in Models, state = Absent \/ state \in Models
  PROVE  /\ Planned \in Models
         /\ \A g \in Groups : config[g] # Unset => Planned[g] = config[g]
         /\ (state # Absent /\ \A g \in Groups : state[g] # Unset)
              => \A g \in Groups : Planned[g] # Unset
<1>1. /\ Planned = [g \in Groups |-> Planned[g]]
      /\ \A g \in Groups : Planned[g] = IF config[g] = Unset /\ state # Absent
                                          THEN state[g] ELSE config[g]
  BY DEF Planned
<1>2. \A g \in Groups : Planned[g] \in ValuesOf[g]
  BY <1>1, ModelParts
<1>3. Planned \in Models
  BY <1>1, <1>2, ModelParts
<1> QED
  BY <1>1, <1>3

LEMMA TypeInit == Init => TypeOK /\ PlanInv
<1> SUFFICES ASSUME Init PROVE TypeOK /\ PlanInv
  OBVIOUS
<1>1. config = [g \in Groups |-> config[g]]
  BY DEF Init
<1>2. \A g \in Groups : config[g] \in ValuesOf[g]
  BY GroupsAssumption DEF Init, GroupsAssumption
<1>3. config \in Models
  BY <1>1, <1>2, ModelParts
<1>4. tainted \in BOOLEAN /\ meddled \in BOOLEAN
  BY Zenon DEF Init
<1>5. /\ edits \in 0 .. MaxEdits /\ failures \in 0 .. MaxFailures
      /\ outside \in 0 .. MaxOutside
  BY BoundsAssumption DEF Init, BoundsAssumption
<1>6. TypeOK
  BY <1>3, <1>4, <1>5 DEF Init, TypeOK
<1>7. PlanInv
  BY DEF Init, PlanInv, Applying, Handling, Calls
<1> QED
  BY <1>6, <1>7

\* Every step preserves the types, and what an apply carries out.
LEMMA TypeStep ==
  ASSUME TypeOK, PlanInv, RefreshedInv, [Next]_vars
  PROVE  TypeOK' /\ PlanInv'
<1> USE BoundsAssumption DEF BoundsAssumption
<1>p. /\ Planned \in Models
      /\ \A g \in Groups : config[g] # Unset => Planned[g] = config[g]
      /\ (state # Absent /\ \A g \in Groups : state[g] # Unset)
           => \A g \in Groups : Planned[g] # Unset
  BY PlannedParts DEF TypeOK
<1>1. ASSUME Refresh PROVE (TypeOK /\ PlanInv)'
  BY <1>1 DEF Refresh, TypeOK, PlanInv, Applying, Handling, Creating, Calls
<1>2. ASSUME RefreshFails PROVE (TypeOK /\ PlanInv)'
  BY <1>2 DEF RefreshFails, MayFail, TypeOK, PlanInv, Applying, Handling,
     Creating, Calls
<1>3. ASSUME Plan PROVE (TypeOK /\ PlanInv)'
  <2>1. TypeOK'
    BY <1>3, <1>p DEF Plan, TypeOK, Steps, Calls
  <2>2. PlanInv'
    <3>1. pc' \in {"create", "delete", "idle", "move"} /\ plan' = Planned /\ prior' = state
      BY <1>3 DEF Plan, Steps
    <3>2. CASE pc' = "create"
      BY <1>3, <1>p, <3>1, <3>2 DEF Plan, PlanInv, Applying, Handling, Creating, Calls, Steps
    <3>3. CASE pc' = "move"
      <4>1. state # Absent /\ ~tainted
        BY <1>3, <3>3 DEF Plan
      <4> QED
        BY <1>3, <1>p, <3>1, <3>3, <4>1
        DEF Plan, PlanInv, RefreshedInv, Applying, Handling, Creating, Calls
    <3>4. CASE pc' \in {"delete", "idle"}
      BY <1>3, <3>4 DEF Plan, PlanInv, Applying, Handling, Creating, Calls
    <3> QED
      BY <3>1, <3>2, <3>3, <3>4
  <2> QED
    BY <2>1, <2>2
<1>4. ASSUME Delete PROVE (TypeOK /\ PlanInv)'
  BY <1>4 DEF Delete, TypeOK, PlanInv, Applying, Handling, Creating, Calls
<1>5. ASSUME DeleteFails PROVE (TypeOK /\ PlanInv)'
  BY <1>5 DEF DeleteFails, MayFail, TypeOK, PlanInv, Applying, Handling,
     Creating, Calls
<1>6. ASSUME CreateCall PROVE (TypeOK /\ PlanInv)'
  <2>1. \A g \in Groups : server'[g] \in ValuesOf[g] /\ server'[g] # Unset
    BY <1>6, GroupsAssumption, ModelParts, UnsetParts
    DEF CreateCall, GroupsAssumption, PlanInv, Applying
  <2>2. server' = [g \in Groups |-> server'[g]]
    BY <1>6 DEF CreateCall
  <2>3. server' \in Models
    BY <2>1, <2>2, ModelParts
  <2> QED
    BY <1>6, <2>1, <2>3
    DEF CreateCall, TypeOK, PlanInv, Applying, Handling, Creating, Calls
<1>7. ASSUME CreateFails PROVE (TypeOK /\ PlanInv)'
  BY <1>7 DEF CreateFails, MayFail, TypeOK, PlanInv, Applying, Handling,
     Creating, Calls
<1>8. ASSUME NEW step \in Calls, Save(step) PROVE (TypeOK /\ PlanInv)'
  <2>1. plan \in Models /\ pc = step
    BY <1>8 DEF Save, PlanInv, Applying, Handling
  <2>2. server' = Absent \/ (server' \in Models /\ \A g \in Groups : server'[g] # Unset)
    BY <1>8, <2>1, WriteParts DEF Save, TypeOK
  <2>3. pc' \in {"update", "source", "build", "env", "readback"}
    BY <1>8, AheadParts DEF Save
  <2>4. TypeOK'
    BY <1>8, <2>2, <2>3 DEF Save, TypeOK, Calls
  <2>5. PlanInv'
    BY <1>8, <2>1, <2>3 DEF Save, PlanInv, Applying, Handling, Creating, Calls
  <2> QED
    BY <2>4, <2>5
<1>9. ASSUME NEW step \in Calls, SaveFails(step) PROVE (TypeOK /\ PlanInv)'
  <2>1. plan \in Models /\ pc = step
    BY <1>9 DEF SaveFails, PlanInv, Applying, Handling
  <2>2. server' = Absent \/ (server' \in Models /\ \A g \in Groups : server'[g] # Unset)
    BY <1>9, <2>1, WriteParts DEF SaveFails, TypeOK
  <2>3. state' = Absent \/ state' \in Models
    BY <1>9, <2>1 DEF SaveFails, Abort, TypeOK
  <2>b. tainted' \in BOOLEAN /\ meddled' \in BOOLEAN
    BY <1>9, Zenon DEF SaveFails, Abort, TypeOK
  <2>4. TypeOK'
    BY <1>9, <2>2, <2>3, <2>b DEF SaveFails, CallMayFail, MayFail, Abort, TypeOK
  <2>5. PlanInv'
    BY <1>9, <2>1, AbsentAssumption
    DEF SaveFails, Abort, PlanInv, Applying, Handling, Calls, AbsentAssumption
  <2> QED
    BY <2>4, <2>5
<1>10. ASSUME ReadBack PROVE (TypeOK /\ PlanInv)'
  <2>1. plan \in Models /\ server \in Models /\ \A g \in Groups : server[g] # Unset
    BY <1>10 DEF ReadBack, PlanInv, Applying, Handling, TypeOK
  <2>2. /\ plan' = [g \in Groups |-> plan'[g]]
        /\ \A g \in Groups : plan'[g] = IF plan[g] = Unset THEN server[g] ELSE plan[g]
    BY <1>10 DEF ReadBack
  <2>3. plan' \in Models
    BY <2>1, <2>2, ModelParts
  <2>4. TypeOK'
    BY <1>10, <2>3 DEF ReadBack, TypeOK
  <2>5. PlanInv'
    BY <1>10, <2>1, <2>2, <2>3 DEF ReadBack, PlanInv, Applying, Handling, Creating, Calls
  <2> QED
    BY <2>4, <2>5
<1>11. ASSUME ReadBackFails PROVE (TypeOK /\ PlanInv)'
  <2>1. plan \in Models
    BY <1>11 DEF ReadBackFails, PlanInv, Applying, Handling
  <2>a. state' = Absent \/ state' \in Models
    BY <1>11, <2>1 DEF ReadBackFails, Abort, TypeOK
  <2>b. tainted' \in BOOLEAN /\ meddled' \in BOOLEAN
    BY <1>11, Zenon DEF ReadBackFails, Abort, TypeOK
  <2>2. TypeOK'
    BY <1>11, <2>a, <2>b DEF ReadBackFails, CallMayFail, MayFail, Abort, TypeOK
  <2>3. PlanInv'
    BY <1>11, <2>1, AbsentAssumption
    DEF ReadBackFails, Abort, PlanInv, Applying, Handling, Calls, AbsentAssumption
  <2> QED
    BY <2>2, <2>3
<1>12. ASSUME Finish PROVE (TypeOK /\ PlanInv)'
  <2>1. plan \in Models
    BY <1>12 DEF Finish, PlanInv, Applying, Handling
  <2>2. TypeOK'
    BY <1>12, <2>1 DEF Finish, TypeOK
  <2>3. PlanInv'
    BY <1>12, <2>1, AbsentAssumption
    DEF Finish, PlanInv, Applying, Handling, Calls, AbsentAssumption
  <2> QED
    BY <2>2, <2>3
<1>13. ASSUME DeployFails PROVE (TypeOK /\ PlanInv)'
  <2>1. plan \in Models
    BY <1>13 DEF DeployFails, PlanInv, Applying, Handling
  <2>2. TypeOK'
    BY <1>13, <2>1 DEF DeployFails, CallMayFail, MayFail, TypeOK, Creating
  <2>3. PlanInv'
    BY <1>13, <2>1, AbsentAssumption
    DEF DeployFails, PlanInv, Applying, Handling, Calls, AbsentAssumption
  <2> QED
    BY <2>2, <2>3
<1>14. ASSUME NEW g \in Groups, NEW v \in ValuesOf[g], Edit(g, v) PROVE (TypeOK /\ PlanInv)'
  <2>1. /\ config' = [h \in Groups |-> config'[h]]
        /\ \A h \in Groups : config'[h] \in ValuesOf[h]
    BY <1>14, ModelParts DEF Edit, TypeOK
  <2>2. config' \in Models
    BY <2>1, ModelParts
  <2> QED
    BY <1>14, <2>2 DEF Edit, TypeOK, PlanInv, Applying, Handling, Calls
<1>15. ASSUME NEW g \in Groups, NEW v \in ValuesOf[g], OutsideChange(g, v) PROVE (TypeOK /\ PlanInv)'
  <2>1. /\ server' = [h \in Groups |-> server'[h]]
        /\ \A h \in Groups : server'[h] \in ValuesOf[h] /\ server'[h] # Unset
    BY <1>15, ModelParts DEF OutsideChange, TypeOK
  <2>2. server' \in Models
    BY <2>1, ModelParts
  <2> QED
    BY <1>15, <2>1, <2>2 DEF OutsideChange, TypeOK, PlanInv, Applying, Handling, Creating, Calls
<1>16. ASSUME OutsideDelete PROVE (TypeOK /\ PlanInv)'
  BY <1>16 DEF OutsideDelete, TypeOK, PlanInv, Applying, Handling, Creating,
     Calls
<1>17. ASSUME UNCHANGED vars PROVE (TypeOK /\ PlanInv)'
  BY <1>17 DEF vars, TypeOK, PlanInv, Applying, Handling, Creating, Calls
<1> QED
  BY <1>1, <1>2, <1>3, <1>4, <1>5, <1>6, <1>7, <1>8, <1>9, <1>10,
     <1>11, <1>12, <1>13, <1>14, <1>15, <1>16, <1>17
  DEF Next

LEMMA RefreshedStep ==
  ASSUME TypeOK, PlanInv, RefreshedInv, [Next]_vars
  PROVE  RefreshedInv'
<1>1. ASSUME Refresh PROVE RefreshedInv'
  BY <1>1 DEF Refresh, TypeOK, RefreshedInv, Calls
<1>2. ASSUME RefreshFails PROVE RefreshedInv'
  BY <1>2 DEF RefreshFails, MayFail, RefreshedInv, Calls
<1>3. ASSUME Plan PROVE RefreshedInv'
  BY <1>3 DEF Plan, Steps, RefreshedInv, Calls
<1>4. ASSUME Delete PROVE RefreshedInv'
  BY <1>4 DEF Delete, RefreshedInv, Calls
<1>5. ASSUME DeleteFails PROVE RefreshedInv'
  BY <1>5 DEF DeleteFails, MayFail, RefreshedInv, Calls
<1>6. ASSUME CreateCall PROVE RefreshedInv'
  BY <1>6 DEF CreateCall, RefreshedInv, Calls
<1>7. ASSUME CreateFails PROVE RefreshedInv'
  BY <1>7 DEF CreateFails, MayFail, RefreshedInv, Calls
<1>8. ASSUME NEW step \in Calls, Save(step) PROVE RefreshedInv'
  <2>1. pc' # "plan"
    BY <1>8, AheadParts DEF Save
  <2> QED
    BY <2>1 DEF RefreshedInv
<1>9. ASSUME NEW step \in Calls, SaveFails(step) PROVE RefreshedInv'
  BY <1>9 DEF SaveFails, CallMayFail, MayFail, Abort, RefreshedInv, Calls
<1>10. ASSUME ReadBack PROVE RefreshedInv'
  BY <1>10 DEF ReadBack, RefreshedInv, Calls
<1>11. ASSUME ReadBackFails PROVE RefreshedInv'
  BY <1>11 DEF ReadBackFails, CallMayFail, MayFail, Abort, RefreshedInv,
     Calls
<1>12. ASSUME Finish PROVE RefreshedInv'
  BY <1>12 DEF Finish, RefreshedInv, Calls
<1>13. ASSUME DeployFails PROVE RefreshedInv'
  BY <1>13 DEF DeployFails, CallMayFail, MayFail, RefreshedInv, Calls
<1>14. ASSUME NEW g \in Groups, NEW v \in ValuesOf[g], Edit(g, v) PROVE RefreshedInv'
  BY <1>14 DEF Edit, RefreshedInv, Calls
<1>15. ASSUME NEW g \in Groups, NEW v \in ValuesOf[g], OutsideChange(g, v) PROVE RefreshedInv'
  BY <1>15 DEF OutsideChange, RefreshedInv, Calls
<1>16. ASSUME OutsideDelete PROVE RefreshedInv'
  BY <1>16 DEF OutsideDelete, RefreshedInv, Calls
<1>17. ASSUME UNCHANGED vars PROVE RefreshedInv'
  BY <1>17 DEF vars, RefreshedInv, Calls
<1> QED
  BY <1>1, <1>2, <1>3, <1>4, <1>5, <1>6, <1>7, <1>8, <1>9, <1>10,
     <1>11, <1>12, <1>13, <1>14, <1>15, <1>16, <1>17
  DEF Next

-----------------------------------------------------------------------------
(* What the calls have written. *)

\* A call that is not needed carries what the record has already.
LEMMA NotNeededParts ==
  ASSUME TypeOK, PlanInv, SavedInv, ~meddled, NEW step \in Calls, pc = step,
         ~Needed(step), NEW g \in CarriedBy(step), CarriedBy(step) \subseteq Ahead,
         plan[g] # Unset
  PROVE  server[g] = plan[g]
<1>1. server[g] = IF Creating THEN Default[g] ELSE prior[g]
  BY DEF SavedInv, Handling
<1>2. CASE ~Creating
  BY <1>1, <1>2 DEF Needed
<1>3. CASE Creating
  BY <1>1, <1>3 DEF Needed
<1> QED
  BY <1>2, <1>3

\* The place of a save in the handler moves on.
LEMMA SavedBySave ==
  ASSUME TypeOK, PlanInv, SavedInv, NEW step \in Calls, Save(step), ~meddled
  PROVE  SavedInv'
<1>1. /\ pc = step /\ plan \in Models /\ plan' = plan /\ prior' = prior
      /\ Creating' = Creating /\ server # Absent
      /\ \A g \in Ahead : server[g] = IF Creating THEN Default[g] ELSE prior[g]
      /\ \A g \in Kept(plan) \ Ahead : plan[g] # Unset => server[g] = plan[g]
  BY DEF Save, PlanInv, SavedInv, Applying, Handling, Creating
<1>2. /\ Ahead' = Ahead \ CarriedBy(step)
      /\ CarriedBy(step) \subseteq Ahead
      /\ Ahead \subseteq Groups
  BY AheadParts DEF Save
<1>3. Kept(plan) \subseteq Groups
  BY DEF Kept
<1>4. CASE Needed(step)
  <2>1. Write(step)
    BY <1>4 DEF Save
  <2>2. /\ server' # Absent
        /\ \A g \in Groups : server'[g] = IF g \in CarriedBy(step) \cap Kept(plan)
                                            THEN plan[g] ELSE server[g]
    BY <1>1, <1>4, <2>1, WriteParts
  <2>3. \A g \in Ahead' : server'[g] = IF Creating' THEN Default[g] ELSE prior'[g]
    BY <1>1, <1>2, <2>2
  <2>4. \A g \in Kept(plan') \ Ahead' : plan'[g] # Unset => server'[g] = plan'[g]
    BY <1>1, <1>2, <1>3, <2>2
  <2> QED
    BY <2>2, <2>3, <2>4 DEF SavedInv
<1>5. CASE ~Needed(step)
  <2>1. server' = server
    BY <1>5 DEF Save
  <2>2. \A g \in CarriedBy(step) : plan[g] # Unset => server[g] = plan[g]
    BY <1>1, <1>2, <1>5, NotNeededParts
  <2>3. \A g \in Ahead' : server'[g] = IF Creating' THEN Default[g] ELSE prior'[g]
    BY <1>1, <1>2, <2>1
  <2>4. \A g \in Kept(plan') \ Ahead' : plan'[g] # Unset => server'[g] = plan'[g]
    BY <1>1, <1>2, <1>3, <2>1, <2>2
  <2> QED
    BY <1>1, <2>1, <2>3, <2>4 DEF SavedInv
<1> QED
  BY <1>4, <1>5

LEMMA SavedStep ==
  ASSUME TypeOK, TypeOK', PlanInv, RefreshedInv, SavedInv, [Next]_vars
  PROVE  SavedInv'
<1>1. ASSUME Refresh PROVE SavedInv'
  BY <1>1 DEF Refresh, SavedInv, Handling, Calls
<1>2. ASSUME RefreshFails PROVE SavedInv'
  BY <1>2 DEF RefreshFails, SavedInv, Handling, Calls
<1>3. ASSUME Plan PROVE SavedInv'
  <2> SUFFICES ASSUME Handling', ~meddled' PROVE SavedInv'
    BY DEF SavedInv
  <2>1. /\ pc' = "move" /\ prior' = state /\ state # Absent /\ server' = server
        /\ ~meddled
    BY <1>3 DEF Plan, Steps, Handling, Calls
  <2>2. server = state /\ ~Creating'
    BY <1>3, <2>1 DEF Plan, RefreshedInv, Creating
  <2>3. Ahead' = Groups /\ Kept(plan') \subseteq Groups
    BY <2>1 DEF Ahead, Kept
  <2> QED
    BY <2>1, <2>2, <2>3 DEF SavedInv
<1>4. ASSUME Delete PROVE SavedInv'
  BY <1>4 DEF Delete, SavedInv, Handling, Calls
<1>5. ASSUME DeleteFails PROVE SavedInv'
  BY <1>5 DEF DeleteFails, SavedInv, Handling, Calls
<1>6. ASSUME CreateCall PROVE SavedInv'
  <2>1. Creating' /\ pc' = "update" /\ plan' = plan
    BY <1>6 DEF CreateCall, PlanInv, Creating
  <2>2. Ahead' = Groups \ {"place"} /\ Kept(plan') \subseteq Groups
    BY <2>1 DEF Ahead, Kept
  <2>3. \A g \in Groups : server'[g] = IF g = "place" THEN plan[g] ELSE Default[g]
    BY <1>6 DEF CreateCall
  <2>4. server' # Absent
    <3>1. \A g \in Groups : server'[g] \in ValuesOf[g]
      BY <1>6, <2>3, GroupsAssumption, ModelParts
      DEF CreateCall, GroupsAssumption, PlanInv, Applying
    <3>2. server' = [g \in Groups |-> server'[g]]
      BY <1>6 DEF CreateCall
    <3>3. server' \in Models
      BY <3>1, <3>2, ModelParts
    <3> QED
      BY <3>3, AbsentAssumption DEF AbsentAssumption
  <2> QED
    BY <2>1, <2>2, <2>3, <2>4 DEF SavedInv
<1>7. ASSUME CreateFails PROVE SavedInv'
  BY <1>7 DEF CreateFails, SavedInv, Handling, Calls
<1>8. ASSUME NEW step \in Calls, Save(step) PROVE SavedInv'
  <2>1. CASE ~meddled
    BY <1>8, <2>1, SavedBySave
  <2>2. CASE meddled
    BY <1>8, <2>2 DEF Save, SavedInv
  <2> QED
    BY <2>1, <2>2
<1>9. ASSUME NEW step \in Calls, SaveFails(step) PROVE SavedInv'
  BY <1>9 DEF SaveFails, Abort, SavedInv, Handling, Calls
<1>10. ASSUME ReadBack PROVE SavedInv'
  <2> SUFFICES ASSUME ~meddled PROVE SavedInv'
    BY <1>10 DEF ReadBack, SavedInv
  <2>1. Ahead' = {} /\ Ahead = {}
    BY <1>10 DEF ReadBack, Ahead
  <2>2. /\ server' = server /\ server # Absent
        /\ plan \in Models
        /\ \A g \in Kept(plan) : plan[g] # Unset => server[g] = plan[g]
    BY <1>10, <2>1 DEF ReadBack, SavedInv, PlanInv, Applying, Handling
  <2>3. \A g \in Groups : plan'[g] = IF plan[g] = Unset THEN server[g] ELSE plan[g]
    BY <1>10 DEF ReadBack
  <2>4. "source" \in Groups => plan'["source"] = plan["source"]
    BY <2>2, <2>3, UnsetParts
  <2>5. Kept(plan') = Kept(plan) /\ Kept(plan) \subseteq Groups
    BY <2>4 DEF Kept
  <2> QED
    BY <2>1, <2>2, <2>3, <2>5 DEF SavedInv
<1>11. ASSUME ReadBackFails PROVE SavedInv'
  BY <1>11 DEF ReadBackFails, Abort, SavedInv, Handling, Calls
<1>12. ASSUME Finish PROVE SavedInv'
  BY <1>12 DEF Finish, SavedInv, Handling, Calls
<1>13. ASSUME DeployFails PROVE SavedInv'
  BY <1>13 DEF DeployFails, SavedInv, Handling, Calls
<1>14. ASSUME NEW g \in Groups, NEW v \in ValuesOf[g], Edit(g, v) PROVE SavedInv'
  BY <1>14 DEF Edit, SavedInv, Handling, Calls
<1>15. ASSUME NEW g \in Groups, NEW v \in ValuesOf[g], OutsideChange(g, v) PROVE SavedInv'
  BY <1>15 DEF OutsideChange, SavedInv
<1>16. ASSUME OutsideDelete PROVE SavedInv'
  BY <1>16 DEF OutsideDelete, SavedInv
<1>17. ASSUME UNCHANGED vars PROVE SavedInv'
  BY <1>17 DEF vars, SavedInv, Handling, Ahead, Creating
<1> QED
  BY <1>1, <1>2, <1>3, <1>4, <1>5, <1>6, <1>7, <1>8, <1>9, <1>10,
     <1>11, <1>12, <1>13, <1>14, <1>15, <1>16, <1>17
  DEF Next

-----------------------------------------------------------------------------
(* What an apply without an error ends in. *)

\* An apply that has not ended without an error promises nothing.
LEMMA NotApplied ==
  (pc # "idle" \/ result # "ok" \/ meddled) => AppliedInv
BY DEF Applied, AppliedInv, ApplyConverges, StateIsHonest, AppliedChangeIsDeployed

\* A plan without a change: the refresh found the configuration in place.
LEMMA AppliedByPlan ==
  ASSUME TypeOK, PlanInv, RefreshedInv, Plan, pc' = "idle", ~meddled
  PROVE  AppliedInv'
<1>1. /\ pc = "plan" /\ state # Absent /\ ~tainted /\ Planned = state
      /\ plan' = Planned /\ prior' = state /\ state' = state /\ server' = server
      /\ config' = config /\ ~tainted'
  BY DEF Plan, Steps
<1>2. server = state
  BY <1>1 DEF RefreshedInv
<1>3. \A g \in Groups : config[g] # Unset => Planned[g] = config[g]
  BY PlannedParts DEF TypeOK
<1>4. Managed' \subseteq Groups /\ DeployGroups \subseteq Groups
  BY DEF Managed, DeployGroups
<1>5. ApplyConverges'
  BY <1>1, <1>2, <1>3, <1>4 DEF ApplyConverges
<1>6. StateIsHonest'
  BY <1>1, <1>2 DEF StateIsHonest
<1>7. ~ChangedByApply'
  BY <1>1 DEF ChangedByApply
<1>8. AppliedChangeIsDeployed'
  BY <1>7 DEF AppliedChangeIsDeployed
<1> QED
  BY <1>5, <1>6, <1>8 DEF AppliedInv

\* The end of a handler: every group kept is as planned, and so configured.
LEMMA AppliedByFinish ==
  ASSUME TypeOK, PlanInv, SavedInv, Finish, ~meddled
  PROVE  AppliedInv'
<1>1. /\ pc = "deploy" /\ server' = server /\ config' = config /\ plan' = plan
      /\ prior' = prior /\ state' = plan
      /\ Deploys => deployed' = server
  BY DEF Finish
<1>2. ~tainted'
  BY DEF Finish, PlanInv, Applying, Handling
<1>3. /\ config \in Models
      /\ \A g \in Groups : config[g] # Unset => plan[g] = config[g]
      /\ \A g \in Groups : plan[g] # Unset
  BY <1>1 DEF PlanInv, Applying, Handling, TypeOK
<1>4. Ahead = {}
  BY <1>1 DEF Ahead
<1>5. server # Absent /\ \A g \in Kept(plan) : g \in Groups /\ server[g] = plan[g]
  BY <1>1, <1>3, <1>4 DEF SavedInv, Handling, Kept
<1>6. "source" \in Groups => plan["source"] = config["source"]
  BY <1>3, UnsetParts
<1>7. Managed' = Kept(plan)
  BY <1>1, <1>6 DEF Managed, Kept
<1>8. ApplyConverges'
  BY <1>1, <1>3, <1>5, <1>7 DEF ApplyConverges
<1>9. StateIsHonest'
  BY <1>1, <1>2, <1>5, <1>7 DEF StateIsHonest
<1>10. ChangedByApply' => Deploys
  BY <1>1 DEF ChangedByApply, Deploys, Creating, deployNeeded
<1>11. AppliedChangeIsDeployed'
  BY <1>1, <1>5, <1>10 DEF AppliedChangeIsDeployed
<1> QED
  BY <1>8, <1>9, <1>11 DEF AppliedInv

LEMMA AppliedStep ==
  ASSUME TypeOK, PlanInv, RefreshedInv, SavedInv, AppliedInv, [Next]_vars
  PROVE  AppliedInv'
<1>n. (pc' # "idle" \/ result' # "ok" \/ meddled') => AppliedInv'
  BY NotApplied DEF Applied, AppliedInv, ApplyConverges, StateIsHonest,
     AppliedChangeIsDeployed
<1>1. ASSUME Refresh \/ Delete \/ CreateCall \/ ReadBack PROVE AppliedInv'
  BY <1>1, <1>n DEF Refresh, Delete, CreateCall, ReadBack
<1>2. ASSUME RefreshFails \/ DeleteFails \/ CreateFails \/ ReadBackFails \/ DeployFails
      PROVE  AppliedInv'
  BY <1>2, <1>n DEF RefreshFails, DeleteFails, CreateFails, ReadBackFails, Abort, DeployFails
<1>3. ASSUME Plan PROVE AppliedInv'
  <2>1. meddled' <=> meddled
    BY <1>3 DEF Plan
  <2> QED
    BY <1>3, <1>n, <2>1, AppliedByPlan
<1>4. ASSUME NEW step \in Calls, Save(step) PROVE AppliedInv'
  <2>1. pc' # "idle"
    BY <1>4, AheadParts DEF Save
  <2> QED
    BY <1>n, <2>1
<1>5. ASSUME NEW step \in Calls, SaveFails(step) PROVE AppliedInv'
  BY <1>5, <1>n DEF SaveFails, Abort
<1>6. ASSUME Finish PROVE AppliedInv'
  <2>1. meddled' <=> meddled
    BY <1>6 DEF Finish
  <2> QED
    BY <1>6, <1>n, <2>1, AppliedByFinish
<1>7. ASSUME NEW g \in Groups, NEW v \in ValuesOf[g], Edit(g, v) \/ OutsideChange(g, v)
      PROVE  AppliedInv'
  BY <1>7, <1>n DEF Edit, OutsideChange
<1>8. ASSUME OutsideDelete PROVE AppliedInv'
  BY <1>8, <1>n DEF OutsideDelete
<1>9. ASSUME UNCHANGED vars PROVE AppliedInv'
  BY <1>9 DEF vars, AppliedInv, Applied, ApplyConverges, StateIsHonest,
     AppliedChangeIsDeployed, ChangedByApply, Managed
<1> QED
  BY <1>1, <1>2, <1>3, <1>4, <1>5, <1>6, <1>7, <1>8, <1>9 DEF Next

-----------------------------------------------------------------------------
(* The theorems. *)

LEMMA Inductive == Spec => []IInv
<1>1. Init => IInv
  <2> SUFFICES ASSUME Init PROVE IInv
    OBVIOUS
  <2>1. RefreshedInv /\ SavedInv
    BY DEF Init, RefreshedInv, SavedInv, Handling, Calls
  <2>2. AppliedInv
    BY NotApplied DEF Init
  <2> QED
    BY <2>1, <2>2, TypeInit DEF IInv
<1>2. IInv /\ [Next]_vars => IInv'
  BY TypeStep, RefreshedStep, SavedStep, AppliedStep DEF IInv
<1> QED
  BY <1>1, <1>2, PTL DEF Spec

\* Every variable keeps its type, and the server never holds an unset value,
\* for any groups, values and bounds.
THEOREM TypeCorrect == Spec => []TypeOK
<1>1. IInv => TypeOK
  BY DEF IInv
<1> QED
  BY <1>1, Inductive, PTL

\* An apply that ends without an error has brought the server to the
\* configuration, whatever failed, was tainted or drifted before it.
THEOREM Converges == Spec => []ApplyConverges
<1>1. IInv => ApplyConverges
  BY DEF IInv, AppliedInv
<1> QED
  BY <1>1, Inductive, PTL

\* After such an apply the state claims nothing that the server does not hold.
THEOREM Honest == Spec => []StateIsHonest
<1>1. IInv => StateIsHonest
  BY DEF IInv, AppliedInv
<1> QED
  BY <1>1, Inductive, PTL

\* A change of what a deployment is made of has been deployed when the apply
\* that makes it ends without an error.
THEOREM Deployed == Spec => []AppliedChangeIsDeployed
<1>1. IInv => AppliedChangeIsDeployed
  BY DEF IInv, AppliedInv
<1> QED
  BY <1>1, Inductive, PTL

-----------------------------------------------------------------------------
(* What a single step may do. *)

LEMMA LeftOutStep ==
  ASSUME TypeOK, LeftOutInv, [Next]_vars
  PROVE  LeftOutInv'
<1>1. ASSUME pc' \notin {"create"} \cup Calls \cup {"readback"} PROVE LeftOutInv'
  BY <1>1 DEF LeftOutInv, Applying, Handling
<1>2. CASE \/ Refresh \/ RefreshFails \/ DeleteFails \/ CreateFails \/ ReadBack
           \/ ReadBackFails \/ Finish \/ DeployFails
  BY <1>1, <1>2 DEF Refresh, RefreshFails, DeleteFails, CreateFails, ReadBack, ReadBackFails,
                    Finish, DeployFails, Abort, Calls
<1>3. CASE Plan
  <2>1. plan' = Planned /\ prior' = state /\ config' = config
    BY <1>3 DEF Plan
  <2>2. \A g \in Groups : config[g] = Unset =>
          Planned[g] = IF state = Absent THEN Unset ELSE state[g]
    BY DEF Planned
  <2> QED
    BY <2>1, <2>2 DEF LeftOutInv, Creating
<1>4. CASE Delete
  BY <1>4 DEF Delete, LeftOutInv, Creating
<1>5. CASE CreateCall
  BY <1>5 DEF CreateCall, LeftOutInv, Creating, Applying
<1>6. ASSUME NEW step \in Calls, Save(step) \/ SaveFails(step) PROVE LeftOutInv'
  <2>1. CASE Save(step)
    <3>1. plan' = plan /\ prior' = prior /\ config' = config /\ Applying /\ pc # "deploy"
      BY <1>6, <2>1 DEF Save, Applying, Handling, Calls
    <3> QED
      BY <3>1 DEF LeftOutInv, Creating
  <2>2. CASE SaveFails(step)
    BY <1>1, <2>2 DEF SaveFails, Abort, Calls
  <2> QED
    BY <1>6, <2>1, <2>2
<1>7. CASE \E g \in Groups : \E v \in ValuesOf[g] : Edit(g, v)
  BY <1>1, <1>7 DEF Edit, Calls
<1>8. CASE \/ \E g \in Groups : \E v \in ValuesOf[g] : OutsideChange(g, v)
           \/ OutsideDelete \/ UNCHANGED vars
  <2>1. plan' = plan /\ prior' = prior /\ config' = config /\ pc' = pc
    BY <1>8 DEF OutsideChange, OutsideDelete, vars
  <2> QED
    BY <2>1 DEF LeftOutInv, Creating, Applying, Handling
<1> QED
  BY <1>2, <1>3, <1>4, <1>5, <1>6, <1>7, <1>8 DEF Next

\* A save that is made writes the configuration: a block that is left out is
\* unset, or as the state has it, and then not worth a call.
LEMMA SavesConfigured ==
  ASSUME TypeOK, PlanInv, LeftOutInv, NEW step \in Calls, pc = step,
         server # Absent, Needed(step), Write(step)
  PROVE  \A g \in Groups : server'[g] \in {server[g], config[g]}
<1> SUFFICES ASSUME NEW g \in Groups PROVE server'[g] \in {server[g], config[g]}
  OBVIOUS
<1>1. Applying /\ pc # "deploy" /\ plan \in Models /\ config \in Models
  BY DEF Applying, Handling, Calls, PlanInv, TypeOK
<1>2. server'[g] = IF g \in CarriedBy(step) \cap Kept(plan) THEN plan[g] ELSE server[g]
  BY <1>1, WriteParts
<1>3. config[g] # Unset => plan[g] = config[g]
  BY <1>1 DEF PlanInv
<1>4. CASE g \in CarriedBy(step) /\ config[g] = Unset
  <2>1. plan[g] # Unset
    BY <1>1, <1>4, NeededParts
  <2>2. ~Creating /\ plan[g] = prior[g]
    BY <1>1, <1>4, <2>1 DEF LeftOutInv
  <2>3. g = "build" /\ CarriedBy(step) = {g}
    BY <1>1, <1>4, UnsetParts, CarriedParts DEF Calls
  <2> QED
    BY <2>2, <2>3 DEF Needed
<1> QED
  BY <1>2, <1>3, <1>4

LEMMA OnlyConfiguredStep ==
  ASSUME TypeOK, PlanInv, LeftOutInv, [Next]_vars,
         outside' = outside, pc # "create", server # Absent, server' # Absent
  PROVE  \A g \in Groups : server'[g] \in {server[g], config[g]}
<1>1. CASE \/ Refresh \/ RefreshFails \/ Plan \/ DeleteFails \/ CreateFails \/ ReadBack
           \/ ReadBackFails \/ Finish \/ DeployFails \/ UNCHANGED vars
  <2>1. server' = server
    BY <1>1 DEF Refresh, RefreshFails, Plan, DeleteFails, CreateFails, ReadBack,
                ReadBackFails, Finish, DeployFails, vars
  <2> QED
    BY <2>1
<1>2. CASE Delete \/ CreateCall
  BY <1>2 DEF Delete, CreateCall
<1>3. ASSUME NEW step \in Calls, Save(step) \/ SaveFails(step)
      PROVE  \A g \in Groups : server'[g] \in {server[g], config[g]}
  <2>1. pc = step /\ (server' = server \/ (Needed(step) /\ Write(step)))
    BY <1>3 DEF Save, SaveFails
  <2> QED
    BY <2>1, SavesConfigured
<1>4. CASE \E g \in Groups : \E v \in ValuesOf[g] : Edit(g, v)
  BY <1>4 DEF Edit
<1>5. CASE \/ \E g \in Groups : \E v \in ValuesOf[g] : OutsideChange(g, v)
           \/ OutsideDelete
  BY <1>5 DEF OutsideChange, OutsideDelete, TypeOK
<1> QED
  BY <1>1, <1>2, <1>3, <1>4, <1>5 DEF Next

\* At its end, what a handler has saved is the whole configuration.
LEMMA WholeRecord ==
  ASSUME TypeOK, PlanInv, SavedInv, pc = "deploy", ~meddled
  PROVE  /\ server # Absent
         /\ \A g \in Managed : config[g] # Unset => server[g] = config[g]
<1>1. /\ config \in Models
      /\ \A g \in Groups : config[g] # Unset => plan[g] = config[g]
      /\ \A g \in Groups : plan[g] # Unset
  BY DEF PlanInv, Applying, Handling, TypeOK
<1>2. Ahead = {}
  BY DEF Ahead
<1>3. server # Absent /\ \A g \in Kept(plan) : g \in Groups /\ server[g] = plan[g]
  BY <1>1, <1>2 DEF SavedInv, Handling, Kept
<1>4. "source" \in Groups => plan["source"] = config["source"]
  BY <1>1, UnsetParts
<1>5. Managed = Kept(plan)
  BY <1>4 DEF Managed, Kept
<1> QED
  BY <1>1, <1>3, <1>5

\* What a handler deploys is the record it has saved.
LEMMA WholeStep ==
  ASSUME TypeOK, PlanInv, SavedInv, [Next]_vars,
         outside' = outside, ~meddled, deployed' \notin {deployed, Absent}
  PROVE  \A g \in Managed : config[g] # Unset => deployed'[g] = config[g]
<1>1. pc = "deploy" /\ deployed' = server
  <2>1. CASE Finish \/ DeployFails
    BY <2>1 DEF Finish, DeployFails
  <2>2. CASE \/ Refresh \/ RefreshFails \/ Plan \/ Delete \/ DeleteFails \/ CreateCall
             \/ CreateFails \/ ReadBack \/ ReadBackFails \/ UNCHANGED vars
    BY <2>2 DEF Refresh, RefreshFails, Plan, Delete, DeleteFails, CreateCall, CreateFails,
                ReadBack, ReadBackFails, vars
  <2>3. ASSUME NEW step \in Calls, Save(step) \/ SaveFails(step) PROVE FALSE
    BY <2>3 DEF Save, SaveFails
  <2>4. ASSUME NEW g \in Groups, NEW v \in ValuesOf[g], Edit(g, v) \/ OutsideChange(g, v)
        PROVE  FALSE
    BY <2>4 DEF Edit, OutsideChange
  <2>5. CASE OutsideDelete
    BY <2>5 DEF OutsideDelete
  <2> QED
    BY <2>1, <2>2, <2>3, <2>4, <2>5 DEF Next
<1> QED
  BY <1>1, WholeRecord

\* No call of a handler writes anything but the configuration, whatever failed
\* before it and whoever interferes.
THEOREM OnlyConfiguredWritten == Spec => OnlyConfigured
<1>1. Init => LeftOutInv
  BY DEF Init, LeftOutInv, Applying, Handling, Calls
<1>2. IInv /\ LeftOutInv /\ [Next]_vars => LeftOutInv'
  BY LeftOutStep DEF IInv
<1>3. IInv /\ LeftOutInv /\ [Next]_vars =>
        [(outside' = outside /\ pc # "create" /\ server # Absent /\ server' # Absent)
           => \A g \in Groups : server'[g] \in {server[g], config[g]}]_vars
  BY OnlyConfiguredStep DEF IInv
<1> QED
  BY <1>1, <1>2, <1>3, Inductive, PTL DEF Spec, OnlyConfigured

\* Every deployment that the provider begins is one of the whole configuration.
THEOREM WholeDeployed == Spec => WholeIsDeployed
<1>1. IInv /\ [Next]_vars =>
        [(outside' = outside /\ ~meddled /\ deployed' \notin {deployed, Absent})
           => \A g \in Managed : config[g] # Unset => deployed'[g] = config[g]]_vars
  BY WholeStep DEF IInv
<1> QED
  BY <1>1, Inductive, PTL DEF Spec, WholeIsDeployed

-----------------------------------------------------------------------------
(* The contract with the operator. *)

LEMMA OrphanStep ==
  ASSUME TypeOK, PlanInv, OrphanInv, [Next]_vars
  PROVE  OrphanInv'
<1> USE DEF OrphanInv, Handling, Calls
<1>1. CASE Refresh \/ RefreshFails \/ Plan \/ Delete \/ DeleteFails
  BY <1>1 DEF Refresh, RefreshFails, Plan, Steps, Delete, DeleteFails
<1>2. CASE CreateCall \/ CreateFails
  BY <1>2 DEF CreateCall, CreateFails
<1>3. ASSUME NEW step \in Calls, Save(step) PROVE OrphanInv'
  BY <1>3, AheadParts DEF Save
<1>4. CASE ReadBack
  BY <1>4 DEF ReadBack
<1>5. CASE \/ \E step \in Calls : SaveFails(step)
           \/ ReadBackFails \/ Finish \/ DeployFails
  <2>1. plan # Absent /\ state = prior
    BY <1>5, AbsentAssumption
    DEF SaveFails, ReadBackFails, Finish, DeployFails, PlanInv, Applying, AbsentAssumption
  <2>2. state' # Absent
    BY <1>5, <2>1 DEF SaveFails, ReadBackFails, Finish, DeployFails, Abort, Creating
  <2> QED
    BY <2>2
<1>6. CASE \/ \E g \in Groups : \E v \in ValuesOf[g] : Edit(g, v) \/ OutsideChange(g, v)
           \/ OutsideDelete \/ UNCHANGED vars
  BY <1>6 DEF Edit, OutsideChange, OutsideDelete, vars
<1> QED
  BY <1>1, <1>2, <1>3, <1>4, <1>5, <1>6 DEF Next

\* What is wanted is what is configured of the groups it has a say in.
LEMMA WantedParts ==
  /\ DOMAIN Wanted.value = {g \in Managed : config[g] # Unset}
  /\ \A g \in DOMAIN Wanted.value : Wanted.value[g] = config[g]
<1> DEFINE D == {g \in Managed : config[g] # Unset}
<1>1. Wanted.value = [g \in D |-> config[g]]
  BY DEF Wanted
<1> QED
  BY <1>1

\* An application in which everything is as configured meets the contract.
LEMMA MeetsParts ==
  ASSUME server # Absent, \A g \in Managed : config[g] # Unset => server[g] = config[g]
  PROVE  Contract!Meets
BY WantedParts DEF Contract!Meets

\* A save changes what it changes to what is wanted of it.
LEMMA WritesWanted ==
  ASSUME TypeOK, PlanInv, LeftOutInv, NEW step \in Calls, pc = step,
         server # Absent, Needed(step), Write(step)
  PROVE  /\ server' # Absent /\ DOMAIN server' = DOMAIN server
         /\ \A g \in DOMAIN server :
              \/ server'[g] = server[g]
              \/ g \in DOMAIN Wanted.value /\ server'[g] = Wanted.value[g]
<1>1. /\ plan \in Models /\ config \in Models /\ server \in Models
      /\ \A g \in Groups : config[g] # Unset => plan[g] = config[g]
  BY DEF PlanInv, Applying, Handling, TypeOK
<1>2. /\ server' \in Models /\ server' # Absent
      /\ \A g \in Groups :
           /\ server'[g] # Unset
           /\ server'[g] = IF g \in CarriedBy(step) \cap Kept(plan)
                             THEN plan[g] ELSE server[g]
  BY <1>1, WriteParts
<1>3. DOMAIN server = Groups /\ DOMAIN server' = Groups
  BY <1>1, <1>2, ModelParts
<1>4. "source" \in Groups => plan["source"] = config["source"]
  BY <1>1, UnsetParts
<1>5. Managed = Kept(plan)
  BY <1>4 DEF Managed, Kept
<1>6. ASSUME NEW g \in Groups, server'[g] # server[g]
      PROVE  g \in DOMAIN Wanted.value /\ server'[g] = Wanted.value[g]
  <2>1. server'[g] = config[g] /\ config[g] # Unset
    BY <1>2, <1>6, SavesConfigured
  <2>2. g \in Managed
    BY <1>2, <1>5, <1>6
  <2> QED
    BY <2>1, <2>2, WantedParts
<1> QED
  BY <1>2, <1>3, <1>6

\* Every step of a handler is one of the contract: a save is a Write, the end of
\* an Update or Create a Deploy or Succeed.
LEMMA ContractStep ==
  ASSUME TypeOK, TypeOK', PlanInv, SavedInv, LeftOutInv, OrphanInv,
         AppliedInv', [Next]_vars
  PROVE  [Contract!Next]_(Contract!vars)
<1> DEFINE Verdict == IF pc = "idle" THEN result ELSE "running"
<1> USE DEF Contract!Next, Contract!vars
<1>0. /\ config' = config => Wanted' = Wanted
      /\ result # "running" /\ Absent \notin Models
  BY AbsentAssumption DEF Wanted, Managed, TypeOK, AbsentAssumption
<1>m. (pc' = "idle" /\ result' = "ok" /\ ~meddled /\ meddled' = meddled
         /\ server' = server /\ config' = config) => Contract!Meets
  <2> SUFFICES ASSUME pc' = "idle", result' = "ok", ~meddled, meddled' = meddled,
                      server' = server, config' = config
               PROVE  Contract!Meets
    OBVIOUS
  <2>1. server # Absent /\ \A g \in Managed : config[g] # Unset => server[g] = config[g]
    BY DEF AppliedInv, ApplyConverges, Applied, Managed
  <2> QED
    BY <2>1, MeetsParts
<1>1. CASE Refresh
  BY <1>0, <1>1 DEF Refresh, Contract!Begin
<1>2. CASE RefreshFails \/ CreateFails \/ ReadBackFails
  BY <1>0, <1>2 DEF RefreshFails, CreateFails, ReadBackFails, Abort, Contract!Fail
<1>3. CASE Plan
  <2>1. /\ pc = "plan" /\ server' = server /\ deployed' = deployed
        /\ meddled' = meddled /\ config' = config /\ outside' = outside
        /\ (pc' = "idle" /\ result' = "ok") \/ pc' # "idle"
    BY <1>3 DEF Plan, Steps
  <2> QED
    BY <1>0, <1>m, <2>1 DEF Contract!Succeed
<1>4. CASE Delete
  BY <1>0, <1>4 DEF Delete, Contract!Remove
<1>5. CASE DeleteFails
  <2>1. CASE server' = Absent
    BY <1>0, <1>5, <2>1 DEF DeleteFails, Contract!Remove
  <2>2. CASE server' = server /\ server' # Absent
    BY <1>0, <1>5, <2>2 DEF DeleteFails, Contract!Fail
  <2> QED
    BY <1>5, <2>1, <2>2 DEF DeleteFails
<1>6. CASE CreateCall
  <2>1. server' # Absent
    <3>1. /\ server' = [g \in Groups |-> server'[g]]
          /\ \A g \in Groups : server'[g] = IF g = "place" THEN plan[g] ELSE Default[g]
      BY <1>6 DEF CreateCall
    <3>2. plan \in Models
      BY <1>6 DEF CreateCall, PlanInv, Applying
    <3>3. \A g \in Groups : server'[g] \in ValuesOf[g]
      BY <3>1, <3>2, ModelParts, GroupsAssumption DEF GroupsAssumption
    <3> QED
      BY <1>0, <3>1, <3>3, ModelParts
  <2>2. server = Absent
    BY <1>6 DEF CreateCall, PlanInv, Applying, Creating, OrphanInv, Handling, Calls
  <2> QED
    BY <1>0, <1>6, <2>1, <2>2 DEF CreateCall, Contract!Create
<1>7. ASSUME NEW step \in Calls, Save(step) PROVE [Contract!Next]_(Contract!vars)
  <2>1. /\ pc = step /\ pc # "idle" /\ pc' # "idle"
        /\ config' = config /\ deployed' = deployed /\ meddled' = meddled
        /\ outside' = outside
    BY <1>7, AheadParts DEF Save, Calls
  <2>2. CASE server' = server
    BY <1>0, <2>1, <2>2
  <2>3. CASE server # Absent /\ Needed(step) /\ Write(step)
    <3>1. /\ server' # Absent /\ DOMAIN server' = DOMAIN server
          /\ \A g \in DOMAIN server :
               \/ server'[g] = server[g]
               \/ g \in DOMAIN Wanted.value /\ server'[g] = Wanted.value[g]
      BY <2>1, <2>3, WritesWanted
    <3> QED
      BY <1>0, <2>1, <2>3, <3>1 DEF Contract!Write
  <2> QED
    BY <1>7, <2>2, <2>3 DEF Save
<1>8. ASSUME NEW step \in Calls, SaveFails(step) PROVE [Contract!Next]_(Contract!vars)
  <2>1. /\ pc = step /\ pc # "idle" /\ pc' = "idle" /\ result' = "error"
        /\ config' = config /\ deployed' = deployed /\ meddled' = meddled
        /\ outside' = outside
    BY <1>8 DEF SaveFails, Abort, Calls
  <2>2. CASE server' = server
    BY <1>0, <2>1, <2>2 DEF Contract!Fail
  <2>3. CASE server # Absent /\ Needed(step) /\ Write(step)
    <3>1. /\ server' # Absent /\ DOMAIN server' = DOMAIN server
          /\ \A g \in DOMAIN server :
               \/ server'[g] = server[g]
               \/ g \in DOMAIN Wanted.value /\ server'[g] = Wanted.value[g]
      BY <2>1, <2>3, WritesWanted
    <3> QED
      BY <1>0, <2>1, <2>3, <3>1 DEF Contract!Write
  <2> QED
    BY <1>8, <2>2, <2>3 DEF SaveFails
<1>9. CASE ReadBack
  BY <1>0, <1>9 DEF ReadBack
<1>10. CASE Finish
  <2>1. /\ pc = "deploy" /\ pc' = "idle" /\ result' = "ok"
        /\ config' = config /\ server' = server /\ meddled' = meddled
        /\ outside' = outside
        /\ deployed' \in {deployed, server}
    BY <1>10 DEF Finish
  <2>2. meddled \/ Contract!Meets
    BY <1>m, <2>1
  <2>3. CASE deployed' = server
    BY <1>0, <2>1, <2>2, <2>3 DEF Contract!Deploy
  <2>4. CASE deployed' = deployed
    BY <1>0, <2>1, <2>2, <2>4 DEF Contract!Succeed
  <2> QED
    BY <2>1, <2>3, <2>4
<1>11. CASE DeployFails
  <2>1. /\ pc = "deploy" /\ pc' = "idle" /\ result' = "error"
        /\ config' = config /\ server' = server /\ meddled' = meddled
        /\ outside' = outside
        /\ deployed' \in {deployed, server}
    BY <1>11 DEF DeployFails
  <2>2. meddled \/ Contract!Meets
    BY <2>1, WholeRecord, MeetsParts
  <2>3. CASE deployed' = server
    BY <1>0, <2>1, <2>2, <2>3 DEF Contract!Deploy
  <2>4. CASE deployed' = deployed
    BY <1>0, <2>1, <2>4 DEF Contract!Fail
  <2> QED
    BY <2>1, <2>3, <2>4
<1>12. CASE \E g \in Groups : \E v \in ValuesOf[g] : Edit(g, v)
  BY <1>0, <1>12 DEF Edit, Contract!Ask
<1>13. CASE \/ \E g \in Groups : \E v \in ValuesOf[g] : OutsideChange(g, v)
            \/ OutsideDelete
  BY <1>0, <1>13 DEF OutsideChange, OutsideDelete, Contract!Disturb
<1>14. CASE UNCHANGED vars
  BY <1>0, <1>14 DEF vars
<1> QED
  BY <1>1, <1>2, <1>3, <1>4, <1>5, <1>6, <1>7, <1>8, <1>9, <1>10, <1>11, <1>12,
     <1>13, <1>14 DEF Next

\* The handlers of an application implement Reconcile, whatever fails, is lost,
\* is tainted or drifts, and however often the configuration is edited.
THEOREM Implements == Spec => ImplementsReconcile
<1>1. Init => Contract!Init /\ LeftOutInv /\ OrphanInv
  BY DEF Init, Contract!Init, LeftOutInv, OrphanInv, Applying, Handling, Calls
<1>2. IInv /\ LeftOutInv /\ OrphanInv /\ [Next]_vars => (LeftOutInv /\ OrphanInv)'
  BY LeftOutStep, OrphanStep DEF IInv
<1>3. IInv /\ IInv' /\ LeftOutInv /\ OrphanInv /\ [Next]_vars => [Contract!Next]_(Contract!vars)
  BY ContractStep DEF IInv
<1> QED
  BY <1>1, <1>2, <1>3, Inductive, PTL DEF Spec, ImplementsReconcile, Contract!Spec
=============================================================================
