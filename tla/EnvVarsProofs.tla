---------------------------- MODULE EnvVarsProofs ---------------------------
(* What EnvVars guarantees, proved for any maps, texts and fields, and any *)
(* number of edits, failures and changes by others.                        *)
EXTENDS EnvVarsInv, SequenceTheorems, TLAPS

\* What is stored for a map is one of the texts (renderEnv, and Delete's "").
LEMMA Rendered ==
  /\ \A m \in Maps : renderEnv(m) \in Texts
  /\ <<>> \in Texts
  /\ \A t \in OutsideTexts : t \in Texts
BY DEF Texts

\* A record is taken apart and put together within its type.
LEMMA RecordParts ==
  /\ \A r \in Records : r.text \in Texts /\ r.fields \in Fields
  /\ \A t \in Texts, f \in Fields : [text |-> t, fields |-> f] \in Records
BY DEF Records

\* A text of the record that can be read gives a map that has its type.
LEMMA ReadableText ==
  ASSUME NEW r \in Records, parseEnv(r.text) # Unreadable
  PROVE  parseEnv(r.text) \in Readable
BY RecordParts DEF Readable

\* Nothing is stored at first.
LEMMA InvInit == Init => IInv
<1> SUFFICES ASSUME Init PROVE IInv
  OBVIOUS
<1>1. FlagsOK
  BY DEF Init, FlagsOK
<1>2. TypeOK
  BY <1>1, BoundsAssumption DEF Init, TypeOK, BoundsAssumption
<1> QED
  BY <1>2 DEF Init, IInv, PlaceInv, FreshInv, LeftInv, Writing

\* Every step preserves the types, and what each place knows.
LEMMA TypeStep == TypeOK /\ PlaceInv /\ [Next]_vars => TypeOK' /\ PlaceInv'
<1> SUFFICES ASSUME TypeOK, PlaceInv, [Next]_vars
             PROVE  TypeOK' /\ PlaceInv'
  OBVIOUS
<1> USE DEF OthersText, PutOwn, PutEmpty
<1> USE BoundsAssumption, Rendered, RecordParts, ReadableText
    DEF BoundsAssumption
<1>1. ASSUME RefreshOwner PROVE TypeOK' /\ PlaceInv'
  <2>1. FlagsOK'
    BY <1>1 DEF RefreshOwner, TypeOK, FlagsOK, ghosts
  <2> QED
    BY <1>1, <2>1 DEF RefreshOwner, TypeOK, PlaceInv, Writing, ghosts, bounds,
                      run
<1>2. ASSUME Read PROVE TypeOK' /\ PlaceInv'
  <2>1. FlagsOK'
    BY <1>2 DEF Read, TypeOK, FlagsOK, ghosts
  <2> QED
    BY <1>2, <2>1 DEF Read, TypeOK, PlaceInv, Writing, ghosts, bounds, run
<1>3. ASSUME ReadFails PROVE TypeOK' /\ PlaceInv'
  <2>1. FlagsOK'
    BY <1>3 DEF ReadFails, MayFail, TypeOK, FlagsOK, ghosts
  <2> QED
    BY <1>3, <2>1 DEF ReadFails, MayFail, TypeOK, PlaceInv, Writing, ghosts,
                      bounds, run
<1>4. ASSUME Plan PROVE TypeOK' /\ PlaceInv'
  <2>1. FlagsOK'
    BY <1>4 DEF Plan, TypeOK, FlagsOK, ghosts
  <2> QED
    BY <1>4, <2>1 DEF Plan, TypeOK, PlaceInv, Writing, ghosts, bounds, run
<1>5. ASSUME SaveOwner PROVE TypeOK' /\ PlaceInv'
  <2>1. FlagsOK'
    BY <1>5 DEF SaveOwner, OwnersText, Owning, TypeOK, FlagsOK, ghosts
  <2> QED
    BY <1>5, <2>1 DEF SaveOwner, OwnersText, Owning, TypeOK, PlaceInv,
                      Writing, ghosts, bounds, run
<1>6. ASSUME SaveOwnerFails PROVE TypeOK' /\ PlaceInv'
  <2>1. FlagsOK'
    BY <1>6 DEF SaveOwnerFails, CallMayFail, MayFail, OwnersText, Owning,
                TypeOK, FlagsOK, ghosts
  <2> QED
    BY <1>6, <2>1 DEF SaveOwnerFails, CallMayFail, MayFail, OwnersText,
                      Owning, TypeOK, PlaceInv, Writing, ghosts, bounds, run
<1>7. ASSUME GetBeforeWrite PROVE TypeOK' /\ PlaceInv'
  <2>1. FlagsOK'
    BY <1>7 DEF GetBeforeWrite, Get, TypeOK, FlagsOK, ghosts
  <2> QED
    BY <1>7, <2>1 DEF GetBeforeWrite, Get, TypeOK, PlaceInv, Writing, ghosts,
                      bounds, run
<1>8. ASSUME PutVariables PROVE TypeOK' /\ PlaceInv'
  <2>1. FlagsOK'
    BY <1>8 DEF PutVariables, Put, TypeOK, FlagsOK, ghosts
  <2> QED
    BY <1>8, <2>1 DEF PutVariables, Put, TypeOK, PlaceInv, Writing, ghosts,
                      bounds, run
<1>9. ASSUME WriteFails PROVE TypeOK' /\ PlaceInv'
  <2>1. FlagsOK'
    BY <1>9 DEF WriteFails, CallMayFail, MayFail, Put, TypeOK, FlagsOK, ghosts
  <2> QED
    BY <1>9, <2>1 DEF WriteFails, CallMayFail, MayFail, Put, TypeOK, PlaceInv,
                      Writing, ghosts, bounds, run
<1>10. ASSUME ReadBack PROVE TypeOK' /\ PlaceInv'
  <2>1. FlagsOK'
    BY <1>10 DEF ReadBack, TypeOK, FlagsOK, ghosts
  <2> QED
    BY <1>10, <2>1 DEF ReadBack, TypeOK, PlaceInv, Writing, ghosts, bounds,
                       run
<1>11. ASSUME Stored PROVE TypeOK' /\ PlaceInv'
  <2>1. FlagsOK'
    BY <1>11 DEF Stored, TypeOK, FlagsOK, ghosts
  <2> QED
    BY <1>11, <2>1 DEF Stored, TypeOK, PlaceInv, Writing, ghosts, bounds, run
<1>12. ASSUME GetBeforeDelete PROVE TypeOK' /\ PlaceInv'
  <2>1. FlagsOK'
    BY <1>12 DEF GetBeforeDelete, Get, TypeOK, FlagsOK, ghosts
  <2> QED
    BY <1>12, <2>1 DEF GetBeforeDelete, Get, TypeOK, PlaceInv, Writing,
                       ghosts, bounds, run
<1>13. ASSUME PutNothing PROVE TypeOK' /\ PlaceInv'
  <2>1. FlagsOK'
    BY <1>13 DEF PutNothing, Put, Forget, TypeOK, FlagsOK, ghosts
  <2> QED
    BY <1>13, <2>1 DEF PutNothing, Put, Forget, TypeOK, PlaceInv, Writing,
                       ghosts, bounds, run
<1>14. ASSUME DeleteOfGone PROVE TypeOK' /\ PlaceInv'
  <2>1. FlagsOK'
    BY <1>14 DEF DeleteOfGone, Forget, TypeOK, FlagsOK, ghosts
  <2> QED
    BY <1>14, <2>1 DEF DeleteOfGone, Forget, TypeOK, PlaceInv, Writing,
                       ghosts, bounds, run
<1>15. ASSUME DeleteFails PROVE TypeOK' /\ PlaceInv'
  <2>1. FlagsOK'
    BY <1>15 DEF DeleteFails, CallMayFail, MayFail, Put, TypeOK, FlagsOK,
                 ghosts
  <2> QED
    BY <1>15, <2>1 DEF DeleteFails, CallMayFail, MayFail, Put, TypeOK,
                       PlaceInv, Writing,
                       ghosts, bounds, run
<1>16. ASSUME AfterDelete PROVE TypeOK' /\ PlaceInv'
  <2>1. FlagsOK'
    BY <1>16 DEF AfterDelete, TypeOK, FlagsOK, ghosts
  <2> QED
    BY <1>16, <2>1 DEF AfterDelete, TypeOK, PlaceInv, Writing, ghosts, bounds,
                       run
<1>17. ASSUME EndRun PROVE TypeOK' /\ PlaceInv'
  <2>1. FlagsOK'
    BY <1>17 DEF EndRun, TypeOK, FlagsOK, ghosts
  <2> QED
    BY <1>17, <2>1 DEF EndRun, TypeOK, PlaceInv, Writing, ghosts, bounds, run
<1>18. ASSUME Import PROVE TypeOK' /\ PlaceInv'
  <2>1. FlagsOK'
    BY <1>18 DEF Import, TypeOK, FlagsOK, ghosts
  <2> QED
    BY <1>18, <2>1 DEF Import, TypeOK, PlaceInv, Writing, ghosts, bounds, run
<1>19. ASSUME NEW m \in Maps \cup {Absent}, Edit(m) PROVE TypeOK' /\ PlaceInv'
  <2>1. FlagsOK'
    BY <1>19 DEF Edit, TypeOK, FlagsOK, ghosts
  <2> QED
    BY <1>19, <2>1 DEF Edit, TypeOK, PlaceInv, Writing, ghosts, bounds, run
<1>20. ASSUME NEW f \in Fields, EditOwner(f) PROVE TypeOK' /\ PlaceInv'
  <2>1. FlagsOK'
    BY <1>20 DEF EditOwner, TypeOK, FlagsOK, ghosts
  <2> QED
    BY <1>20, <2>1 DEF EditOwner, TypeOK, PlaceInv, Writing, ghosts, bounds,
                       run
<1>21. ASSUME NEW f \in Fields, OutsideFields(f) PROVE TypeOK' /\ PlaceInv'
  <2>1. FlagsOK'
    BY <1>21 DEF OutsideFields, Outsider, TypeOK, FlagsOK, ghosts
  <2> QED
    BY <1>21, <2>1 DEF OutsideFields, Outsider, TypeOK, PlaceInv, Writing,
                       ghosts, bounds, run
<1>22. ASSUME NEW t \in OutsideTexts, OutsideText(t) PROVE TypeOK' /\ PlaceInv'
  <2>1. FlagsOK'
    BY <1>22 DEF OutsideText, Outsider, OthersWrote, TypeOK, FlagsOK, ghosts
  <2> QED
    BY <1>22, <2>1 DEF OutsideText, Outsider, OthersWrote, TypeOK, PlaceInv,
                       Writing, ghosts, bounds, run
<1>23. ASSUME OutsideDelete PROVE TypeOK' /\ PlaceInv'
  <2>1. FlagsOK'
    BY <1>23 DEF OutsideDelete, Outsider, OthersWrote, TypeOK, FlagsOK, ghosts
  <2> QED
    BY <1>23, <2>1 DEF OutsideDelete, Outsider, OthersWrote, TypeOK, PlaceInv,
                       Writing, ghosts, bounds, run
<1>24. ASSUME UNCHANGED vars PROVE TypeOK' /\ PlaceInv'
  BY <1>24 DEF TypeOK, PlaceInv, Writing, FlagsOK, vars, run, ghosts, bounds
<1> QED
  BY <1>1, <1>2, <1>3, <1>4, <1>5, <1>6, <1>7, <1>8,
     <1>9, <1>10, <1>11, <1>12, <1>13, <1>14, <1>15, <1>16,
     <1>17, <1>18, <1>19, <1>20, <1>21, <1>22, <1>23, <1>24
  DEF Next

\* Every step preserves what the next write of the other fields rests on:
\* whoever else writes to the record marks the window as raced.
LEMMA FreshStep == TypeOK /\ FreshInv /\ [Next]_vars => FreshInv'
<1> SUFFICES ASSUME TypeOK, FreshInv, [Next]_vars
             PROVE  FreshInv'
  OBVIOUS
<1> USE DEF OthersText, PutOwn, PutEmpty
<1>1. ASSUME RefreshOwner PROVE FreshInv'
  BY <1>1 DEF RefreshOwner, FreshInv, TypeOK, FlagsOK, ghosts, bounds, run
<1>2. ASSUME Read PROVE FreshInv'
  BY <1>2 DEF Read, FreshInv, TypeOK, FlagsOK, ghosts, bounds, run
<1>3. ASSUME ReadFails PROVE FreshInv'
  BY <1>3 DEF ReadFails, MayFail, FreshInv, TypeOK, FlagsOK, ghosts, bounds,
              run
<1>4. ASSUME Plan PROVE FreshInv'
  BY <1>4 DEF Plan, FreshInv, TypeOK, FlagsOK, ghosts, bounds, run
<1>5. ASSUME SaveOwner PROVE FreshInv'
  BY <1>5 DEF SaveOwner, OwnersText, Owning, FreshInv, TypeOK, FlagsOK,
              ghosts, bounds, run
<1>6. ASSUME SaveOwnerFails PROVE FreshInv'
  BY <1>6 DEF SaveOwnerFails, CallMayFail, MayFail, OwnersText, Owning,
              FreshInv, TypeOK, FlagsOK, ghosts, bounds, run
<1>7. ASSUME GetBeforeWrite PROVE FreshInv'
  BY <1>7 DEF GetBeforeWrite, Get, FreshInv, TypeOK, FlagsOK, ghosts, bounds,
              run
<1>8. ASSUME PutVariables PROVE FreshInv'
  BY <1>8 DEF PutVariables, Put, FreshInv, TypeOK, FlagsOK, ghosts, bounds,
              run
<1>9. ASSUME WriteFails PROVE FreshInv'
  BY <1>9 DEF WriteFails, CallMayFail, MayFail, Put, FreshInv, TypeOK,
              FlagsOK, ghosts, bounds, run
<1>10. ASSUME ReadBack PROVE FreshInv'
  BY <1>10 DEF ReadBack, FreshInv, TypeOK, FlagsOK, ghosts, bounds, run
<1>11. ASSUME Stored PROVE FreshInv'
  BY <1>11 DEF Stored, FreshInv, TypeOK, FlagsOK, ghosts, bounds, run
<1>12. ASSUME GetBeforeDelete PROVE FreshInv'
  BY <1>12 DEF GetBeforeDelete, Get, FreshInv, TypeOK, FlagsOK, ghosts,
               bounds, run
<1>13. ASSUME PutNothing PROVE FreshInv'
  BY <1>13 DEF PutNothing, Put, Forget, FreshInv, TypeOK, FlagsOK, ghosts,
               bounds, run
<1>14. ASSUME DeleteOfGone PROVE FreshInv'
  BY <1>14 DEF DeleteOfGone, Forget, FreshInv, TypeOK, FlagsOK, ghosts,
               bounds, run
<1>15. ASSUME DeleteFails PROVE FreshInv'
  BY <1>15 DEF DeleteFails, CallMayFail, MayFail, Put, FreshInv, TypeOK,
               FlagsOK, ghosts,
               bounds, run
<1>16. ASSUME AfterDelete PROVE FreshInv'
  BY <1>16 DEF AfterDelete, FreshInv, TypeOK, FlagsOK, ghosts, bounds, run
<1>17. ASSUME EndRun PROVE FreshInv'
  BY <1>17 DEF EndRun, FreshInv, TypeOK, FlagsOK, ghosts, bounds, run
<1>18. ASSUME Import PROVE FreshInv'
  BY <1>18 DEF Import, FreshInv, TypeOK, FlagsOK, ghosts, bounds, run
<1>19. ASSUME NEW m \in Maps \cup {Absent}, Edit(m) PROVE FreshInv'
  BY <1>19 DEF Edit, FreshInv, TypeOK, FlagsOK, ghosts, bounds, run
<1>20. ASSUME NEW f \in Fields, EditOwner(f) PROVE FreshInv'
  BY <1>20 DEF EditOwner, FreshInv, TypeOK, FlagsOK, ghosts, bounds, run
<1>21. ASSUME NEW f \in Fields, OutsideFields(f) PROVE FreshInv'
  BY <1>21 DEF OutsideFields, Outsider, FreshInv, TypeOK, FlagsOK, ghosts,
               bounds, run
<1>22. ASSUME NEW t \in OutsideTexts, OutsideText(t) PROVE FreshInv'
  BY <1>22 DEF OutsideText, Outsider, OthersWrote, FreshInv, TypeOK, FlagsOK,
               ghosts, bounds, run
<1>23. ASSUME OutsideDelete PROVE FreshInv'
  BY <1>23 DEF OutsideDelete, Outsider, OthersWrote, FreshInv, TypeOK,
               FlagsOK, ghosts, bounds, run
<1>24. ASSUME UNCHANGED vars PROVE FreshInv'
  BY <1>24 DEF FreshInv, TypeOK, FlagsOK, vars, run, ghosts, bounds
<1> QED
  BY <1>1, <1>2, <1>3, <1>4, <1>5, <1>6, <1>7, <1>8,
     <1>9, <1>10, <1>11, <1>12, <1>13, <1>14, <1>15, <1>16,
     <1>17, <1>18, <1>19, <1>20, <1>21, <1>22, <1>23, <1>24
  DEF Next

\* Every step preserves that a text of this resource is in the state, was
\* complained of, or is on its way into the state.
LEMMA LeftStep ==
  TypeOK /\ PlaceInv /\ LeftInv /\ [Next]_vars => LeftInv'
<1> SUFFICES ASSUME TypeOK, PlaceInv, LeftInv, [Next]_vars
             PROVE  LeftInv'
  OBVIOUS
<1> USE DEF OthersText, PutOwn, PutEmpty
<1> USE AbsentAssumption, ReadableText DEF AbsentAssumption
<1>1. ASSUME RefreshOwner PROVE LeftInv'
  BY <1>1 DEF RefreshOwner, LeftInv, TypeOK, FlagsOK, PlaceInv, Writing,
              ghosts, bounds, run
<1>2. ASSUME Read PROVE LeftInv'
  BY <1>2 DEF Read, LeftInv, TypeOK, FlagsOK, PlaceInv, Writing, ghosts,
              bounds, run
<1>3. ASSUME ReadFails PROVE LeftInv'
  BY <1>3 DEF ReadFails, MayFail, LeftInv, TypeOK, FlagsOK, PlaceInv, Writing,
              ghosts, bounds, run
<1>4. ASSUME Plan PROVE LeftInv'
  BY <1>4 DEF Plan, LeftInv, TypeOK, FlagsOK, PlaceInv, Writing, ghosts,
              bounds, run
<1>5. ASSUME SaveOwner PROVE LeftInv'
  BY <1>5 DEF SaveOwner, OwnersText, Owning, LeftInv, TypeOK, FlagsOK,
              PlaceInv, Writing, ghosts, bounds, run
<1>6. ASSUME SaveOwnerFails PROVE LeftInv'
  BY <1>6 DEF SaveOwnerFails, CallMayFail, MayFail, OwnersText, Owning,
              LeftInv, TypeOK, FlagsOK, PlaceInv, Writing, ghosts, bounds, run
<1>7. ASSUME GetBeforeWrite PROVE LeftInv'
  BY <1>7 DEF GetBeforeWrite, Get, LeftInv, TypeOK, FlagsOK, PlaceInv,
              Writing, ghosts, bounds, run
<1>8. ASSUME PutVariables PROVE LeftInv'
  BY <1>8 DEF PutVariables, Put, LeftInv, TypeOK, FlagsOK, PlaceInv, Writing,
              ghosts, bounds, run
<1>9. ASSUME WriteFails PROVE LeftInv'
  BY <1>9 DEF WriteFails, CallMayFail, MayFail, Put, LeftInv, TypeOK, FlagsOK,
              PlaceInv, Writing, ghosts, bounds, run
<1>10. ASSUME ReadBack PROVE LeftInv'
  BY <1>10 DEF ReadBack, LeftInv, TypeOK, FlagsOK, PlaceInv, Writing, ghosts,
               bounds, run
<1>11. ASSUME Stored PROVE LeftInv'
  BY <1>11 DEF Stored, LeftInv, TypeOK, FlagsOK, PlaceInv, Writing, ghosts,
               bounds, run
<1>12. ASSUME GetBeforeDelete PROVE LeftInv'
  BY <1>12 DEF GetBeforeDelete, Get, LeftInv, TypeOK, FlagsOK, PlaceInv,
               Writing, ghosts, bounds, run
<1>13. ASSUME PutNothing PROVE LeftInv'
  BY <1>13 DEF PutNothing, Put, Forget, LeftInv, TypeOK, FlagsOK, PlaceInv,
               Writing, ghosts, bounds, run
<1>14. ASSUME DeleteOfGone PROVE LeftInv'
  BY <1>14 DEF DeleteOfGone, Forget, LeftInv, TypeOK, FlagsOK, PlaceInv,
               Writing, ghosts, bounds, run
<1>15. ASSUME DeleteFails PROVE LeftInv'
  BY <1>15 DEF DeleteFails, CallMayFail, MayFail, Put, LeftInv, TypeOK,
               FlagsOK, PlaceInv,
               Writing, ghosts, bounds, run
<1>16. ASSUME AfterDelete PROVE LeftInv'
  BY <1>16 DEF AfterDelete, LeftInv, TypeOK, FlagsOK, PlaceInv, Writing,
               ghosts, bounds, run
<1>17. ASSUME EndRun PROVE LeftInv'
  BY <1>17 DEF EndRun, LeftInv, TypeOK, FlagsOK, PlaceInv, Writing, ghosts,
               bounds, run
<1>18. ASSUME Import PROVE LeftInv'
  BY <1>18 DEF Import, LeftInv, TypeOK, FlagsOK, PlaceInv, Writing, ghosts,
               bounds, run
<1>19. ASSUME NEW m \in Maps \cup {Absent}, Edit(m) PROVE LeftInv'
  BY <1>19 DEF Edit, LeftInv, TypeOK, FlagsOK, PlaceInv, Writing, ghosts,
               bounds, run
<1>20. ASSUME NEW f \in Fields, EditOwner(f) PROVE LeftInv'
  BY <1>20 DEF EditOwner, LeftInv, TypeOK, FlagsOK, PlaceInv, Writing, ghosts,
               bounds, run
<1>21. ASSUME NEW f \in Fields, OutsideFields(f) PROVE LeftInv'
  BY <1>21 DEF OutsideFields, Outsider, LeftInv, TypeOK, FlagsOK, PlaceInv,
               Writing, ghosts, bounds, run
<1>22. ASSUME NEW t \in OutsideTexts, OutsideText(t) PROVE LeftInv'
  BY <1>22 DEF OutsideText, Outsider, OthersWrote, LeftInv, TypeOK, FlagsOK,
               PlaceInv, Writing, ghosts, bounds, run
<1>23. ASSUME OutsideDelete PROVE LeftInv'
  BY <1>23 DEF OutsideDelete, Outsider, OthersWrote, LeftInv, TypeOK, FlagsOK,
               PlaceInv, Writing, ghosts, bounds, run
<1>24. ASSUME UNCHANGED vars PROVE LeftInv'
  BY <1>24 DEF LeftInv, TypeOK, FlagsOK, PlaceInv, Writing, vars, run, ghosts,
               bounds
<1> QED
  BY <1>1, <1>2, <1>3, <1>4, <1>5, <1>6, <1>7, <1>8,
     <1>9, <1>10, <1>11, <1>12, <1>13, <1>14, <1>15, <1>16,
     <1>17, <1>18, <1>19, <1>20, <1>21, <1>22, <1>23, <1>24
  DEF Next

\* The invariants hold in every reachable state.
THEOREM Invariance == Spec => []IInv
<1>1. IInv /\ [Next]_vars => IInv'
  BY TypeStep, FreshStep, LeftStep DEF IInv
<1> QED
  BY InvInit, <1>1, PTL DEF Spec

\* Every variable keeps its type: no interleaving of this resource, the
\* owner and others wipes a field of the record.
THEOREM TypeCorrect == Spec => []TypeOK
<1>1. IInv => TypeOK
  BY DEF IInv
<1> QED
  BY Invariance, <1>1, PTL

\* A text of this resource is at the server without a state only after an
\* error, or when the owner has put it back.
THEOREM Leftovers == Spec => []LeftoversAreReported
<1>1. IInv => LeftoversAreReported
  BY DEF IInv, LeftInv, LeftoversAreReported
<1> QED
  BY Invariance, <1>1, PTL

\* A write of the text (writeEnv) keeps the other fields of the record,
\* unless somebody wrote to it between the GET and the POST.
THEOREM FieldsKept == Spec => OthersFieldsAreKept
<1>1. IInv /\ [Next]_vars => [KeepsOthersFields]_vars
  <2> SUFFICES ASSUME IInv, Next, pc \in {"put", "clear"}, pc' # pc, ~raced,
                      server # Absent, server' # Absent
               PROVE  server'.fields = server.fields
    BY DEF KeepsOthersFields
  <2>1. server.fields = resent
    BY DEF IInv, FreshInv
  <2>2. CASE PutVariables \/ WriteFails \/ PutNothing \/ DeleteFails
    BY <2>1, <2>2 DEF PutVariables, WriteFails, PutNothing, DeleteFails, PutOwn,
                      PutEmpty, Put
  <2>3. CASE SaveOwner \/ SaveOwnerFails
    BY <2>3 DEF SaveOwner, SaveOwnerFails, Owning, run
  <2>4. CASE DeleteOfGone
    BY <2>4 DEF DeleteOfGone
  <2>5. CASE \/ RefreshOwner \/ Read \/ ReadFails \/ Plan
             \/ GetBeforeWrite \/ GetBeforeDelete \/ ReadBack \/ Stored
             \/ AfterDelete \/ EndRun \/ Import
             \/ \E m \in Maps \cup {Absent} : Edit(m)
             \/ \E f \in Fields : EditOwner(f)
    BY <2>5 DEF RefreshOwner, Read, ReadFails, Plan, GetBeforeWrite,
                GetBeforeDelete, Get, ReadBack, Stored, AfterDelete, EndRun,
                Import, Edit, EditOwner
  <2>6. CASE \/ \E f \in Fields : OutsideFields(f)
             \/ \E t \in OutsideTexts : OutsideText(t)
             \/ OutsideDelete
    BY <2>6 DEF OutsideFields, OutsideText, OutsideDelete, Outsider, run
  <2> QED
    BY <2>2, <2>3, <2>4, <2>5, <2>6 DEF Next
<1> QED
  BY Invariance, <1>1, PTL DEF Spec, OthersFieldsAreKept
-----------------------------------------------------------------------------
(* The codec: what renderEnv makes of a legible map, parseEnv reads as it.  *)

\* A bound that is a member is the maximum, and the minimum.
LEMMA MaxIs ==
  ASSUME NEW S \in SUBSET Int, NEW x \in S, \A y \in S : x >= y
  PROVE  Max(S) = x
<1>1. Max(S) \in S /\ \A y \in S : Max(S) >= y
  BY DEF Max
<1>2. Max(S) \in Int /\ x \in Int
  BY <1>1
<1>3. Max(S) >= x /\ x >= Max(S)
  BY <1>1
<1> QED
  BY <1>2, <1>3

LEMMA MinIs ==
  ASSUME NEW S \in SUBSET Int, NEW x \in S, \A y \in S : x =< y
  PROVE  Min(S) = x
<1>1. Min(S) \in S /\ \A y \in S : Min(S) =< y
  BY DEF Min
<1>2. Min(S) \in Int /\ x \in Int
  BY <1>1
<1>3. Min(S) =< x /\ x =< Min(S)
  BY <1>1
<1> QED
  BY <1>2, <1>3

LEMMA MaxOfOne ==
  ASSUME NEW x \in Int
  PROVE  Max({x}) = x
<1>1. {x} \in SUBSET Int /\ x \in {x} /\ \A y \in {x} : x >= y
  OBVIOUS
<1> QED
  BY <1>1, MaxIs

\* The line of a name and a value, and the characters it is made of.
Line(n, v) == n \o <<"=">> \o v

Written == Characters \cup {"="}

\* What stands where in a line.
LEMMA LineParts ==
  ASSUME NEW n \in Seq(Characters), NEW v \in Seq(Characters)
  PROVE  /\ Line(n, v) \in Seq(Written)
         /\ Len(Line(n, v)) = Len(n) + 1 + Len(v)
         /\ \A i \in 1 .. Len(n) : Line(n, v)[i] = n[i]
         /\ Line(n, v)[Len(n) + 1] = "="
         /\ \A i \in 1 .. Len(v) : Line(n, v)[Len(n) + 1 + i] = v[i]
<1> DEFINE head == n \o <<"=">>
<1>1. n \in Seq(Written) /\ v \in Seq(Written) /\ <<"=">> \in Seq(Written)
  BY DEF Written
<1>2. /\ head \in Seq(Written) /\ Len(head) = Len(n) + 1
      /\ \A i \in 1 .. Len(n) : head[i] = n[i]
      /\ head[Len(n) + 1] = "="
  BY <1>1, ConcatProperties
<1> HIDE DEF head
<1>3. /\ head \o v \in Seq(Written)
      /\ Len(head \o v) = Len(n) + 1 + Len(v)
      /\ \A i \in 1 .. Len(n) + 1 : (head \o v)[i] = head[i]
      /\ \A i \in 1 .. Len(v) : (head \o v)[Len(n) + 1 + i] = v[i]
  <2>1. Len(v) \in Nat /\ Len(n) \in Nat
    OBVIOUS
  <2>2. /\ head \o v \in Seq(Written)
        /\ Len(head \o v) = Len(head) + Len(v)
        /\ \A i \in 1 .. Len(head) + Len(v) :
             (head \o v)[i] = IF i <= Len(head) THEN head[i]
                                                ELSE v[i - Len(head)]
    BY <1>1, <1>2, ConcatProperties
  <2> QED
    BY <1>2, <2>1, <2>2
<1>4. Line(n, v) = head \o v
  BY DEF Line, head
<1> QED
  BY <1>2, <1>3, <1>4

\* No carriage return is cut from a line whose value has none.
LEMMA LineIsTrimmed ==
  ASSUME NEW n \in Seq(Characters), NEW v \in Seq(Characters),
         ~Has(v, {"CR", "LF"})
  PROVE  TrimRight(Line(n, v), {"CR"}) = Line(n, v)
<1> DEFINE line == Line(n, v)
           last == Len(n) + 1 + Len(v)
<1>1. /\ line \in Seq(Written) /\ Len(line) = last /\ last \in Nat
      /\ DOMAIN line = 1 .. last /\ last \in 1 .. last
  BY LineParts
<1>2. line[last] # "CR"
  <2>1. CASE v = <<>>
    <3>1. last = Len(n) + 1
      BY <2>1
    <3> QED
      BY <3>1, LineParts
  <2>2. CASE v # <<>>
    <3>1. Len(v) \in 1 .. Len(v) /\ Len(v) \in DOMAIN v
      BY <2>2
    <3>2. line[last] = v[Len(v)]
      BY <3>1, LineParts
    <3> QED
      BY <3>1, <3>2 DEF Has
  <2> QED
    BY <2>1, <2>2
<1> HIDE DEF line, last
<1> DEFINE S == {0} \cup {i \in DOMAIN line : line[i] \notin {"CR"}}
<1>3. S \in SUBSET Int /\ last \in S /\ \A y \in S : last >= y
  BY <1>1, <1>2
<1>4. TrimRight(line, {"CR"}) = SubSeq(line, 1, last)
  <2>1. TrimRight(line, {"CR"}) = SubSeq(line, 1, Max(S))
    BY DEF TrimRight
  <2> HIDE DEF S
  <2> QED
    BY <1>3, <2>1, MaxIs
<1>5. SubSeq(line, 1, last) = line
  BY <1>1, SubSeqFull
<1> QED
  BY <1>4, <1>5 DEF line

\* A name that begins and ends with ink is not trimmed.
LEMMA NameIsTrimmed ==
  ASSUME NEW n \in Seq(Characters), n # <<>>,
         n[1] \notin Blank, n[Len(n)] \notin Blank
  PROVE  TrimSpace(n) = n
<1>1. /\ DOMAIN n = 1 .. Len(n) /\ Len(n) \in Nat
      /\ 1 \in Ink(n) /\ Len(n) \in Ink(n) /\ Ink(n) \in SUBSET (1 .. Len(n))
  BY DEF Ink
<1>2. Min(Ink(n)) = 1
  BY <1>1, MinIs
<1>3. Max(Ink(n)) = Len(n)
  BY <1>1, MaxIs
<1>4. TrimSpace(n) = SubSeq(n, 1, Len(n))
  BY <1>1, <1>2, <1>3 DEF TrimSpace
<1> QED
  BY <1>4, SubSeqFull

\* The line of a legible name is neither blank nor a comment.
LEMMA LineIsPair ==
  ASSUME NEW n \in Seq(Characters), NEW v \in Seq(Characters), n # <<>>,
         n[1] \notin Blank \cup {"#"}
  PROVE  ~Skipped(Line(n, v))
<1> DEFINE line == Line(n, v)
<1>1. /\ line \in Seq(Written) /\ Len(line) = Len(n) + 1 + Len(v)
      /\ \A i \in 1 .. Len(n) : line[i] = n[i]
  BY LineParts
<1> HIDE DEF line
<1>2. Len(n) \in Nat \ {0} /\ Len(v) \in Nat
  OBVIOUS
<1>3. 1 \in DOMAIN line /\ line[1] = n[1] /\ DOMAIN line = 1 .. Len(line)
  BY <1>1, <1>2
<1>4. 1 \in Ink(line) /\ Ink(line) \in SUBSET (1 .. Len(line))
  BY <1>3 DEF Ink
<1>5. Min(Ink(line)) = 1
  BY <1>4, MinIs
<1>6. ~Skipped(line)
  BY <1>3, <1>4, <1>5 DEF Skipped
<1> QED
  BY <1>6 DEF line

\* strings.Cut takes the line apart where renderEnv put it together.
LEMMA LineIsCut ==
  ASSUME NEW n \in Seq(Characters), NEW v \in Seq(Characters),
         ~Has(n, {"=", "SPACE", "CR", "LF"})
  PROVE  /\ Cut(Line(n, v)) = Len(n) + 1
         /\ SubSeq(Line(n, v), 1, Len(n)) = n
         /\ ValueIn(Line(n, v)) = v
<1> DEFINE line == Line(n, v)
           p == Len(n) + 1
<1>1. /\ line \in Seq(Written)
      /\ Len(line) = Len(n) + 1 + Len(v)
      /\ \A i \in 1 .. Len(n) : line[i] = n[i]
      /\ line[Len(n) + 1] = "="
      /\ \A i \in 1 .. Len(v) : line[Len(n) + 1 + i] = v[i]
  BY LineParts
<1>2. \A i \in 1 .. Len(n) : n[i] # "=" /\ n[i] \in Characters
  BY DEF Has
<1>3. \A i \in 1 .. Len(v) : v[i] \in Characters
  OBVIOUS
<1> HIDE DEF line
<1>4. /\ DOMAIN line = 1 .. Len(line) /\ Len(line) = p + Len(v)
      /\ p \in Nat /\ Len(n) \in Nat /\ Len(v) \in Nat
  BY <1>1
<1>5. Cut(line) = p
  <2> DEFINE S == {Len(line) + 1} \cup {i \in DOMAIN line : line[i] = "="}
  <2>1. S \in SUBSET Int
    BY <1>4
  <2>2. p \in S
    BY <1>1, <1>4
  <2>3. \A y \in S : p =< y
    <3>1. \A y \in DOMAIN line : line[y] = "=" => p =< y
      BY <1>1, <1>2, <1>4
    <3> QED
      BY <1>4, <3>1
  <2>4. Cut(line) = Min(S)
    BY DEF Cut
  <2> HIDE DEF S
  <2> QED
    BY <2>1, <2>2, <2>3, <2>4, MinIs
<1>6. SubSeq(line, 1, Len(n)) = n
  <2> DEFINE t == SubSeq(line, 1, Len(n))
  <2>1. \A i \in 1 .. Len(n) : line[i] \in Characters
    BY <1>1, <1>2
  <2>2. /\ t \in Seq(Characters)
        /\ Len(t) = IF 1 <= Len(n) THEN Len(n) - 1 + 1 ELSE 0
        /\ \A i \in 1 .. Len(n) - 1 + 1 : t[i] = line[1 + i - 1]
    BY <1>4, <2>1, SubSeqProperties
  <2> HIDE DEF t
  <2>3. Len(t) = Len(n)
    BY <1>4, <2>2
  <2>4. \A i \in 1 .. Len(n) : t[i] = n[i]
    BY <1>1, <1>4, <2>2
  <2>5. t = n
    BY <2>2, <2>3, <2>4, SeqEqual
  <2> QED
    BY <2>5 DEF t
<1>7. SubSeq(line, p + 1, Len(line)) = v
  <2> DEFINE t == SubSeq(line, p + 1, Len(line))
  <2>1. \A i \in p + 1 .. Len(line) : line[i] \in Characters
    <3> SUFFICES ASSUME NEW i \in p + 1 .. Len(line)
                 PROVE  line[i] \in Characters
      OBVIOUS
    <3>1. PICK j \in 1 .. Len(v) : i = p + j
      <4>1. i - p \in 1 .. Len(v) /\ i = p + (i - p)
        BY <1>4
      <4> QED
        BY <4>1
    <3> QED
      BY <1>1, <1>3, <3>1
  <2>2. /\ t \in Seq(Characters)
        /\ Len(t) = IF p + 1 <= Len(line) THEN Len(line) - (p + 1) + 1 ELSE 0
        /\ \A i \in 1 .. Len(line) - (p + 1) + 1 : t[i] = line[p + 1 + i - 1]
    <3>1. p + 1 \in Int /\ Len(line) \in Int
      BY <1>4
    <3> HIDE DEF p
    <3> QED
      BY <2>1, <3>1, SubSeqProperties
  <2> HIDE DEF t
  <2>3. Len(t) = Len(v)
    BY <1>4, <2>2
  <2>4. \A i \in 1 .. Len(v) : t[i] = v[i]
    <3> SUFFICES ASSUME NEW i \in 1 .. Len(v) PROVE t[i] = v[i]
      OBVIOUS
    <3>1. i \in 1 .. Len(line) - (p + 1) + 1 /\ p + 1 + i - 1 = p + i
      BY <1>4
    <3>2. t[i] = line[p + i]
      BY <2>2, <3>1
    <3> QED
      BY <1>1, <3>2
  <2>5. t = v
    BY <2>2, <2>3, <2>4, SeqEqual
  <2> QED
    BY <2>5 DEF t
<1>8. ValueIn(line) = v
  BY <1>5, <1>7 DEF ValueIn
<1> QED
  BY <1>5, <1>6, <1>8 DEF line

\* What parseEnv reads of one line of a legible map.
LEMMA LineReads ==
  ASSUME NEW m \in Maps, NEW n \in DOMAIN m, Valid(m), Legible(m)
  PROVE  LET line == Line(n, m[n])
         IN  /\ TrimRight(line, {"CR"}) = line
             /\ ~Skipped(line)
             /\ Cut(line) <= Len(line)
             /\ NameIn(line) = n /\ n # <<>>
             /\ ValueIn(line) = m[n]
<1>1. n \in Seq(Characters) /\ m[n] \in Seq(Characters)
  BY MapsAssumption DEF MapsAssumption
<1>2. /\ n # <<>> /\ ~Has(n, {"=", "SPACE", "CR", "LF"})
      /\ ~Has(m[n], {"CR", "LF"})
  BY DEF Valid
<1>3. n[1] \notin Blank \cup {"#"} /\ n[Len(n)] \notin Blank
  BY DEF Legible
<1> DEFINE line == Line(n, m[n])
<1>4. /\ Len(line) = Len(n) + 1 + Len(m[n])
      /\ Len(n) \in Nat /\ Len(m[n]) \in Nat
  BY <1>1, LineParts
<1>5. /\ Cut(line) = Len(n) + 1 /\ SubSeq(line, 1, Len(n)) = n
      /\ ValueIn(line) = m[n]
  BY <1>1, <1>2, LineIsCut
<1>6. TrimRight(line, {"CR"}) = line
  BY <1>1, <1>2, LineIsTrimmed
<1>7. ~Skipped(line)
  BY <1>1, <1>2, <1>3, LineIsPair
<1> HIDE DEF line
<1>8. NameIn(line) = n
  <2>1. Cut(line) - 1 = Len(n)
    BY <1>4, <1>5
  <2>2. TrimSpace(n) = n
    BY <1>1, <1>2, <1>3, NameIsTrimmed
  <2> QED
    BY <1>5, <2>1, <2>2 DEF NameIn
<1>9. Cut(line) <= Len(line)
  BY <1>4, <1>5
<1> QED
  BY <1>2, <1>5, <1>6, <1>7, <1>8, <1>9 DEF line

\* parseEnv is the inverse of renderEnv on the legible maps that
\* ValidateConfig accepts.
LEMMA RoundTrip ==
  ASSUME NEW m \in Maps, Valid(m), Legible(m)
  PROVE  parseEnv(renderEnv(m)) = m
<1> DEFINE names == Sorted[DOMAIN m]
           text  == renderEnv(m)
           lines == [i \in DOMAIN text |-> TrimRight(text[i], {"CR"})]
           pairs == {i \in DOMAIN lines : ~Skipped(lines[i])}
           At(n) == {i \in pairs : NameIn(lines[i]) = n}
<1>1. /\ names \in Seq(DOMAIN m) /\ DOMAIN names = 1 .. Len(names)
      /\ \A n \in DOMAIN m : \E i \in DOMAIN names : names[i] = n
      /\ \A i, j \in DOMAIN names : names[i] = names[j] => i = j
  BY SortedAssumption DEF SortedAssumption
<1>2. DOMAIN text = DOMAIN names
      /\ \A i \in DOMAIN names : text[i] = Line(names[i], m[names[i]])
  BY DEF renderEnv, Line
<1> HIDE DEF names, text
<1>3. ASSUME NEW i \in DOMAIN names
      PROVE  /\ names[i] \in DOMAIN m
             /\ lines[i] = Line(names[i], m[names[i]])
             /\ i \in pairs /\ Cut(lines[i]) <= Len(lines[i])
             /\ NameIn(lines[i]) = names[i] /\ names[i] # <<>>
             /\ ValueIn(lines[i]) = m[names[i]]
  <2>1. names[i] \in DOMAIN m
    BY <1>1
  <2>2. lines[i] = Line(names[i], m[names[i]])
    BY <1>2, <2>1, LineReads
  <2> QED
    BY <1>2, <2>1, <2>2, LineReads
<1>4. pairs = DOMAIN names
  BY <1>2, <1>3
<1> HIDE DEF lines, pairs
<1>5. ~\E i \in pairs : Cut(lines[i]) > Len(lines[i]) \/ NameIn(lines[i]) = <<>>
  <2>1. \A i \in pairs : Cut(lines[i]) = Len(names[i]) + 1
    <3> SUFFICES ASSUME NEW i \in DOMAIN names
                 PROVE  Cut(lines[i]) = Len(names[i]) + 1
      BY <1>4
    <3>1. /\ names[i] \in Seq(Characters) /\ m[names[i]] \in Seq(Characters)
          /\ ~Has(names[i], {"=", "SPACE", "CR", "LF"})
      BY <1>3, MapsAssumption DEF MapsAssumption, Valid
    <3> QED
      BY <1>3, <3>1, LineIsCut
  <2> QED
    BY <1>3, <1>4, <2>1
<1>6. {NameIn(lines[i]) : i \in pairs} = DOMAIN m
  <2>1. \A i \in pairs : NameIn(lines[i]) = names[i] /\ names[i] \in DOMAIN m
    BY <1>3, <1>4
  <2>2. \A n \in DOMAIN m : \E i \in pairs : names[i] = n
    BY <1>1, <1>4
  <2> QED
    BY <2>1, <2>2
<1>7. ASSUME NEW n \in DOMAIN m
      PROVE  ValueIn(lines[Max(At(n))]) = m[n]
  <2>1. PICK i \in DOMAIN names : names[i] = n
    BY <1>1
  <2>2. At(n) = {i}
    BY <1>1, <1>3, <1>4, <2>1
  <2>3. i \in Int
    BY <1>1
  <2>4. Max({i}) = i
    BY <2>3, MaxOfOne
  <2>5. Max(At(n)) = i
    BY <2>2, <2>4
  <2> QED
    BY <1>3, <2>1, <2>5
<1>8. parseEnv(text) = [n \in DOMAIN m |-> ValueIn(lines[Max(At(n))])]
  BY <1>5, <1>6 DEF parseEnv, lines, pairs
<1>9. m = [n \in DOMAIN m |-> m[n]]
  BY MapsAssumption DEF MapsAssumption
<1> QED
  BY <1>7, <1>8, <1>9 DEF text
-----------------------------------------------------------------------------
(* What a run promises. *)

\* Every step preserves that what was written is what is read back.
LEMMA ReadBackStep ==
  ASSUME TypeOK, PlaceInv, ReadBackInv, [Next]_vars
  PROVE  ReadBackInv'
<1> USE DEF OthersText, PutOwn, PutEmpty
<1>1. ASSUME RefreshOwner PROVE ReadBackInv'
  BY <1>1 DEF RefreshOwner, ReadBackInv, LegibleMapIsReadBack, TypeOK,
          FlagsOK, PlaceInv, Writing, ghosts, bounds, run
<1>2. ASSUME Read PROVE ReadBackInv'
  BY <1>2 DEF Read, ReadBackInv, LegibleMapIsReadBack, TypeOK, FlagsOK,
          PlaceInv, Writing, ghosts, bounds, run
<1>3. ASSUME ReadFails PROVE ReadBackInv'
  BY <1>3 DEF ReadFails, MayFail, ReadBackInv, LegibleMapIsReadBack,
          TypeOK, FlagsOK, PlaceInv, Writing, ghosts, bounds, run
<1>4. ASSUME Plan PROVE ReadBackInv'
  BY <1>4 DEF Plan, ReadBackInv, LegibleMapIsReadBack, TypeOK, FlagsOK,
          PlaceInv, Writing, ghosts, bounds, run
<1>5. ASSUME SaveOwner PROVE ReadBackInv'
  BY <1>5 DEF SaveOwner, OwnersText, Owning, ReadBackInv,
          LegibleMapIsReadBack, TypeOK, FlagsOK, PlaceInv, Writing, ghosts,
          bounds, run
<1>6. ASSUME SaveOwnerFails PROVE ReadBackInv'
  BY <1>6 DEF SaveOwnerFails, CallMayFail, MayFail, OwnersText, Owning,
          ReadBackInv, LegibleMapIsReadBack, TypeOK, FlagsOK, PlaceInv,
          Writing, ghosts, bounds, run
<1>7. ASSUME GetBeforeWrite PROVE ReadBackInv'
  BY <1>7 DEF GetBeforeWrite, Get, ReadBackInv, LegibleMapIsReadBack,
          TypeOK, FlagsOK, PlaceInv, Writing, ghosts, bounds, run
<1>8. ASSUME PutVariables PROVE ReadBackInv'
  BY <1>8 DEF PutVariables, Put, ReadBackInv, LegibleMapIsReadBack, TypeOK,
          FlagsOK, PlaceInv, Writing, ghosts, bounds, run
<1>9. ASSUME WriteFails PROVE ReadBackInv'
  BY <1>9 DEF WriteFails, CallMayFail, MayFail, Put, ReadBackInv,
          LegibleMapIsReadBack, TypeOK, FlagsOK, PlaceInv, Writing, ghosts,
          bounds, run
<1>10. ASSUME ReadBack PROVE ReadBackInv'
  <2>1. config \in Maps /\ Valid(config)
    BY <1>10 DEF ReadBack, ReadBackInv, PlaceInv, Writing
  <2>2. Legible(config) => parseEnv(renderEnv(config)) = config
    BY <2>1, RoundTrip
  <2> QED
    BY <1>10, <2>2 DEF ReadBack, ReadBackInv, LegibleMapIsReadBack, Writing,
                       ghosts, bounds, run
<1>11. ASSUME Stored PROVE ReadBackInv'
  BY <1>11 DEF Stored, ReadBackInv, LegibleMapIsReadBack, TypeOK, FlagsOK,
          PlaceInv, Writing, ghosts, bounds, run
<1>12. ASSUME GetBeforeDelete PROVE ReadBackInv'
  BY <1>12 DEF GetBeforeDelete, Get, ReadBackInv, LegibleMapIsReadBack,
          TypeOK, FlagsOK, PlaceInv, Writing, ghosts, bounds, run
<1>13. ASSUME PutNothing PROVE ReadBackInv'
  BY <1>13 DEF PutNothing, Put, Forget, ReadBackInv, LegibleMapIsReadBack,
          TypeOK, FlagsOK, PlaceInv, Writing, ghosts, bounds, run
<1>14. ASSUME DeleteOfGone PROVE ReadBackInv'
  BY <1>14 DEF DeleteOfGone, Forget, ReadBackInv, LegibleMapIsReadBack,
          TypeOK, FlagsOK, PlaceInv, Writing, ghosts, bounds, run
<1>15. ASSUME DeleteFails PROVE ReadBackInv'
  BY <1>15 DEF DeleteFails, CallMayFail, MayFail, Put, ReadBackInv,
          LegibleMapIsReadBack, TypeOK, FlagsOK, PlaceInv, Writing, ghosts,
          bounds, run
<1>16. ASSUME AfterDelete PROVE ReadBackInv'
  BY <1>16 DEF AfterDelete, ReadBackInv, LegibleMapIsReadBack, TypeOK,
          FlagsOK, PlaceInv, Writing, ghosts, bounds, run
<1>17. ASSUME EndRun PROVE ReadBackInv'
  BY <1>17 DEF EndRun, ReadBackInv, LegibleMapIsReadBack, TypeOK, FlagsOK,
          PlaceInv, Writing, ghosts, bounds, run
<1>18. ASSUME Import PROVE ReadBackInv'
  BY <1>18 DEF Import, ReadBackInv, LegibleMapIsReadBack, TypeOK, FlagsOK,
          PlaceInv, Writing, ghosts, bounds, run
<1>19. ASSUME NEW m \in Maps \cup {Absent}, Edit(m) PROVE ReadBackInv'
  BY <1>19 DEF Edit, ReadBackInv, LegibleMapIsReadBack, TypeOK, FlagsOK,
          PlaceInv, Writing, ghosts, bounds, run
<1>20. ASSUME NEW f \in Fields, EditOwner(f) PROVE ReadBackInv'
  BY <1>20 DEF EditOwner, ReadBackInv, LegibleMapIsReadBack, TypeOK,
          FlagsOK, PlaceInv, Writing, ghosts, bounds, run
<1>21. ASSUME NEW f \in Fields, OutsideFields(f) PROVE ReadBackInv'
  BY <1>21 DEF OutsideFields, Outsider, ReadBackInv, LegibleMapIsReadBack,
          TypeOK, FlagsOK, PlaceInv, Writing, ghosts, bounds, run
<1>22. ASSUME NEW t \in OutsideTexts, OutsideText(t) PROVE ReadBackInv'
  BY <1>22 DEF OutsideText, Outsider, OthersWrote, ReadBackInv,
          LegibleMapIsReadBack, TypeOK, FlagsOK, PlaceInv, Writing, ghosts,
          bounds, run
<1>23. ASSUME OutsideDelete PROVE ReadBackInv'
  BY <1>23 DEF OutsideDelete, Outsider, OthersWrote, ReadBackInv,
          LegibleMapIsReadBack, TypeOK, FlagsOK, PlaceInv, Writing, ghosts,
          bounds, run
<1>24. ASSUME UNCHANGED vars PROVE ReadBackInv'
  BY <1>24 DEF vars, ReadBackInv, LegibleMapIsReadBack, TypeOK, FlagsOK,
          PlaceInv, Writing, ghosts, bounds, run
<1> QED
  BY <1>1, <1>2, <1>3, <1>4, <1>5, <1>6, <1>7, <1>8, <1>9, <1>10,
     <1>11, <1>12, <1>13, <1>14, <1>15, <1>16, <1>17, <1>18,
     <1>19, <1>20, <1>21, <1>22, <1>23, <1>24
  DEF Next

\* Nothing orders the owner's step into the middle of writeEnv, unless it
\* counts as somebody else's.
LEMMA OrderStep ==
  ASSUME TypeOK, OrderInv, [Next]_vars
  PROVE  OrderInv'
<1> USE DEF OthersText, PutOwn, PutEmpty
<1>1. ASSUME RefreshOwner PROVE OrderInv'
  BY <1>1 DEF RefreshOwner, OrderInv, TypeOK, FlagsOK, ghosts, bounds, run
<1>2. ASSUME Read PROVE OrderInv'
  BY <1>2 DEF Read, OrderInv, TypeOK, FlagsOK, ghosts, bounds, run
<1>3. ASSUME ReadFails PROVE OrderInv'
  BY <1>3 DEF ReadFails, MayFail, OrderInv, TypeOK, FlagsOK, ghosts, bounds,
          run
<1>4. ASSUME Plan PROVE OrderInv'
  BY <1>4 DEF Plan, OrderInv, TypeOK, FlagsOK, ghosts, bounds, run
<1>5. ASSUME SaveOwner PROVE OrderInv'
  BY <1>5 DEF SaveOwner, OwnersText, Owning, OrderInv, TypeOK, FlagsOK,
          ghosts, bounds, run
<1>6. ASSUME SaveOwnerFails PROVE OrderInv'
  BY <1>6 DEF SaveOwnerFails, CallMayFail, MayFail, OwnersText, Owning,
          OrderInv, TypeOK, FlagsOK, ghosts, bounds, run
<1>7. ASSUME GetBeforeWrite PROVE OrderInv'
  BY <1>7 DEF GetBeforeWrite, Get, OrderInv, TypeOK, FlagsOK, ghosts,
          bounds, run
<1>8. ASSUME PutVariables PROVE OrderInv'
  BY <1>8 DEF PutVariables, Put, OrderInv, TypeOK, FlagsOK, ghosts, bounds,
          run
<1>9. ASSUME WriteFails PROVE OrderInv'
  BY <1>9 DEF WriteFails, CallMayFail, MayFail, Put, OrderInv, TypeOK,
          FlagsOK, ghosts, bounds, run
<1>10. ASSUME ReadBack PROVE OrderInv'
  BY <1>10 DEF ReadBack, OrderInv, TypeOK, FlagsOK, ghosts, bounds, run
<1>11. ASSUME Stored PROVE OrderInv'
  BY <1>11 DEF Stored, OrderInv, TypeOK, FlagsOK, ghosts, bounds, run
<1>12. ASSUME GetBeforeDelete PROVE OrderInv'
  BY <1>12 DEF GetBeforeDelete, Get, OrderInv, TypeOK, FlagsOK, ghosts,
          bounds, run
<1>13. ASSUME PutNothing PROVE OrderInv'
  BY <1>13 DEF PutNothing, Put, Forget, OrderInv, TypeOK, FlagsOK, ghosts,
          bounds, run
<1>14. ASSUME DeleteOfGone PROVE OrderInv'
  BY <1>14 DEF DeleteOfGone, Forget, OrderInv, TypeOK, FlagsOK, ghosts,
          bounds, run
<1>15. ASSUME DeleteFails PROVE OrderInv'
  BY <1>15 DEF DeleteFails, CallMayFail, MayFail, Put, OrderInv, TypeOK,
          FlagsOK, ghosts, bounds, run
<1>16. ASSUME AfterDelete PROVE OrderInv'
  BY <1>16 DEF AfterDelete, OrderInv, TypeOK, FlagsOK, ghosts, bounds, run
<1>17. ASSUME EndRun PROVE OrderInv'
  BY <1>17 DEF EndRun, OrderInv, TypeOK, FlagsOK, ghosts, bounds, run
<1>18. ASSUME Import PROVE OrderInv'
  BY <1>18 DEF Import, OrderInv, TypeOK, FlagsOK, ghosts, bounds, run
<1>19. ASSUME NEW m \in Maps \cup {Absent}, Edit(m) PROVE OrderInv'
  BY <1>19 DEF Edit, OrderInv, TypeOK, FlagsOK, ghosts, bounds, run
<1>20. ASSUME NEW f \in Fields, EditOwner(f) PROVE OrderInv'
  BY <1>20 DEF EditOwner, OrderInv, TypeOK, FlagsOK, ghosts, bounds, run
<1>21. ASSUME NEW f \in Fields, OutsideFields(f) PROVE OrderInv'
  BY <1>21 DEF OutsideFields, Outsider, OrderInv, TypeOK, FlagsOK, ghosts,
          bounds, run
<1>22. ASSUME NEW t \in OutsideTexts, OutsideText(t) PROVE OrderInv'
  BY <1>22 DEF OutsideText, Outsider, OthersWrote, OrderInv, TypeOK,
          FlagsOK, ghosts, bounds, run
<1>23. ASSUME OutsideDelete PROVE OrderInv'
  BY <1>23 DEF OutsideDelete, Outsider, OthersWrote, OrderInv, TypeOK,
          FlagsOK, ghosts, bounds, run
<1>24. ASSUME UNCHANGED vars PROVE OrderInv'
  BY <1>24 DEF vars, OrderInv, TypeOK, FlagsOK, ghosts, bounds, run
<1> QED
  BY <1>1, <1>2, <1>3, <1>4, <1>5, <1>6, <1>7, <1>8, <1>9, <1>10,
     <1>11, <1>12, <1>13, <1>14, <1>15, <1>16, <1>17, <1>18,
     <1>19, <1>20, <1>21, <1>22, <1>23, <1>24
  DEF Next

\* Until a run writes, both resources know the record as it is.
LEMMA RefreshedStep ==
  ASSUME TypeOK, RefreshedInv, [Next]_vars
  PROVE  RefreshedInv'
<1> USE DEF OthersText, PutOwn, PutEmpty
<1>1. ASSUME RefreshOwner PROVE RefreshedInv'
  BY <1>1 DEF RefreshOwner, RefreshedInv, Undisturbed, TypeOK, FlagsOK,
          ghosts, bounds, run
<1>2. ASSUME Read PROVE RefreshedInv'
  BY <1>2 DEF Read, RefreshedInv, Undisturbed, TypeOK, FlagsOK, ghosts,
          bounds, run
<1>3. ASSUME ReadFails PROVE RefreshedInv'
  BY <1>3 DEF ReadFails, MayFail, RefreshedInv, Undisturbed, TypeOK,
          FlagsOK, ghosts, bounds, run
<1>4. ASSUME Plan PROVE RefreshedInv'
  BY <1>4 DEF Plan, RefreshedInv, Undisturbed, TypeOK, FlagsOK, ghosts,
          bounds, run
<1>5. ASSUME SaveOwner PROVE RefreshedInv'
  BY <1>5 DEF SaveOwner, OwnersText, Owning, RefreshedInv, Undisturbed,
          TypeOK, FlagsOK, ghosts, bounds, run
<1>6. ASSUME SaveOwnerFails PROVE RefreshedInv'
  BY <1>6 DEF SaveOwnerFails, CallMayFail, MayFail, OwnersText, Owning,
          RefreshedInv, Undisturbed, TypeOK, FlagsOK, ghosts, bounds, run
<1>7. ASSUME GetBeforeWrite PROVE RefreshedInv'
  BY <1>7 DEF GetBeforeWrite, Get, RefreshedInv, Undisturbed, TypeOK,
          FlagsOK, ghosts, bounds, run
<1>8. ASSUME PutVariables PROVE RefreshedInv'
  BY <1>8 DEF PutVariables, Put, RefreshedInv, Undisturbed, TypeOK, FlagsOK,
          ghosts, bounds, run
<1>9. ASSUME WriteFails PROVE RefreshedInv'
  BY <1>9 DEF WriteFails, CallMayFail, MayFail, Put, RefreshedInv,
          Undisturbed, TypeOK, FlagsOK, ghosts, bounds, run
<1>10. ASSUME ReadBack PROVE RefreshedInv'
  BY <1>10 DEF ReadBack, RefreshedInv, Undisturbed, TypeOK, FlagsOK, ghosts,
          bounds, run
<1>11. ASSUME Stored PROVE RefreshedInv'
  BY <1>11 DEF Stored, RefreshedInv, Undisturbed, TypeOK, FlagsOK, ghosts,
          bounds, run
<1>12. ASSUME GetBeforeDelete PROVE RefreshedInv'
  BY <1>12 DEF GetBeforeDelete, Get, RefreshedInv, Undisturbed, TypeOK,
          FlagsOK, ghosts, bounds, run
<1>13. ASSUME PutNothing PROVE RefreshedInv'
  BY <1>13 DEF PutNothing, Put, Forget, RefreshedInv, Undisturbed, TypeOK,
          FlagsOK, ghosts, bounds, run
<1>14. ASSUME DeleteOfGone PROVE RefreshedInv'
  BY <1>14 DEF DeleteOfGone, Forget, RefreshedInv, Undisturbed, TypeOK,
          FlagsOK, ghosts, bounds, run
<1>15. ASSUME DeleteFails PROVE RefreshedInv'
  BY <1>15 DEF DeleteFails, CallMayFail, MayFail, Put, RefreshedInv,
          Undisturbed, TypeOK, FlagsOK, ghosts, bounds, run
<1>16. ASSUME AfterDelete PROVE RefreshedInv'
  BY <1>16 DEF AfterDelete, RefreshedInv, Undisturbed, TypeOK, FlagsOK,
          ghosts, bounds, run
<1>17. ASSUME EndRun PROVE RefreshedInv'
  BY <1>17 DEF EndRun, RefreshedInv, Undisturbed, TypeOK, FlagsOK, ghosts,
          bounds, run
<1>18. ASSUME Import PROVE RefreshedInv'
  BY <1>18 DEF Import, RefreshedInv, Undisturbed, TypeOK, FlagsOK, ghosts,
          bounds, run
<1>19. ASSUME NEW m \in Maps \cup {Absent}, Edit(m) PROVE RefreshedInv'
  BY <1>19 DEF Edit, RefreshedInv, Undisturbed, TypeOK, FlagsOK, ghosts,
          bounds, run
<1>20. ASSUME NEW f \in Fields, EditOwner(f) PROVE RefreshedInv'
  BY <1>20 DEF EditOwner, RefreshedInv, Undisturbed, TypeOK, FlagsOK,
          ghosts, bounds, run
<1>21. ASSUME NEW f \in Fields, OutsideFields(f) PROVE RefreshedInv'
  BY <1>21 DEF OutsideFields, Outsider, RefreshedInv, Undisturbed, TypeOK,
          FlagsOK, ghosts, bounds, run
<1>22. ASSUME NEW t \in OutsideTexts, OutsideText(t) PROVE RefreshedInv'
  BY <1>22 DEF OutsideText, Outsider, OthersWrote, RefreshedInv,
          Undisturbed, TypeOK, FlagsOK, ghosts, bounds, run
<1>23. ASSUME OutsideDelete PROVE RefreshedInv'
  BY <1>23 DEF OutsideDelete, Outsider, OthersWrote, RefreshedInv,
          Undisturbed, TypeOK, FlagsOK, ghosts, bounds, run
<1>24. ASSUME UNCHANGED vars PROVE RefreshedInv'
  BY <1>24 DEF vars, RefreshedInv, Undisturbed, TypeOK, FlagsOK, ghosts,
          bounds, run
<1> QED
  BY <1>1, <1>2, <1>3, <1>4, <1>5, <1>6, <1>7, <1>8, <1>9, <1>10,
     <1>11, <1>12, <1>13, <1>14, <1>15, <1>16, <1>17, <1>18,
     <1>19, <1>20, <1>21, <1>22, <1>23, <1>24
  DEF Next

\* Once the owner's step is over, the other fields are the owner's: writeEnv
\* resends what it has just read.
LEMMA OwnerStep ==
  ASSUME TypeOK, FreshInv, OrderInv, RefreshedInv, OwnerInv, [Next]_vars
  PROVE  OwnerInv'
<1> USE DEF OthersText, PutOwn, PutEmpty
<1> USE DEF FreshInv, OrderInv, RefreshedInv
<1>1. ASSUME RefreshOwner PROVE OwnerInv'
  BY <1>1 DEF RefreshOwner, OwnerInv, Undisturbed, Applying, Writing,
          TypeOK, FlagsOK, ghosts, bounds, run
<1>2. ASSUME Read PROVE OwnerInv'
  BY <1>2 DEF Read, OwnerInv, Undisturbed, Applying, Writing, TypeOK,
          FlagsOK, ghosts, bounds, run
<1>3. ASSUME ReadFails PROVE OwnerInv'
  BY <1>3 DEF ReadFails, MayFail, OwnerInv, Undisturbed, Applying, Writing,
          TypeOK, FlagsOK, ghosts, bounds, run
<1>4. ASSUME Plan PROVE OwnerInv'
  BY <1>4 DEF Plan, OwnerInv, Undisturbed, Applying, Writing, TypeOK,
          FlagsOK, ghosts, bounds, run
<1>5. ASSUME SaveOwner PROVE OwnerInv'
  BY <1>5 DEF SaveOwner, OwnersText, Owning, OwnerInv, Undisturbed,
          Applying, Writing, TypeOK, FlagsOK, ghosts, bounds, run
<1>6. ASSUME SaveOwnerFails PROVE OwnerInv'
  BY <1>6 DEF SaveOwnerFails, CallMayFail, MayFail, OwnersText, Owning,
          OwnerInv, Undisturbed, Applying, Writing, TypeOK, FlagsOK, ghosts,
          bounds, run
<1>7. ASSUME GetBeforeWrite PROVE OwnerInv'
  BY <1>7 DEF GetBeforeWrite, Get, OwnerInv, Undisturbed, Applying, Writing,
          TypeOK, FlagsOK, ghosts, bounds, run
<1>8. ASSUME PutVariables PROVE OwnerInv'
  BY <1>8 DEF PutVariables, Put, OwnerInv, Undisturbed, Applying, Writing,
          TypeOK, FlagsOK, ghosts, bounds, run
<1>9. ASSUME WriteFails PROVE OwnerInv'
  BY <1>9 DEF WriteFails, CallMayFail, MayFail, Put, OwnerInv, Undisturbed,
          Applying, Writing, TypeOK, FlagsOK, ghosts, bounds, run
<1>10. ASSUME ReadBack PROVE OwnerInv'
  BY <1>10 DEF ReadBack, OwnerInv, Undisturbed, Applying, Writing, TypeOK,
          FlagsOK, ghosts, bounds, run
<1>11. ASSUME Stored PROVE OwnerInv'
  BY <1>11 DEF Stored, OwnerInv, Undisturbed, Applying, Writing, TypeOK,
          FlagsOK, ghosts, bounds, run
<1>12. ASSUME GetBeforeDelete PROVE OwnerInv'
  BY <1>12 DEF GetBeforeDelete, Get, OwnerInv, Undisturbed, Applying,
          Writing, TypeOK, FlagsOK, ghosts, bounds, run
<1>13. ASSUME PutNothing PROVE OwnerInv'
  BY <1>13 DEF PutNothing, Put, Forget, OwnerInv, Undisturbed, Applying,
          Writing, TypeOK, FlagsOK, ghosts, bounds, run
<1>14. ASSUME DeleteOfGone PROVE OwnerInv'
  BY <1>14 DEF DeleteOfGone, Forget, OwnerInv, Undisturbed, Applying,
          Writing, TypeOK, FlagsOK, ghosts, bounds, run
<1>15. ASSUME DeleteFails PROVE OwnerInv'
  BY <1>15 DEF DeleteFails, CallMayFail, MayFail, Put, OwnerInv,
          Undisturbed, Applying, Writing, TypeOK, FlagsOK, ghosts, bounds,
          run
<1>16. ASSUME AfterDelete PROVE OwnerInv'
  BY <1>16 DEF AfterDelete, OwnerInv, Undisturbed, Applying, Writing,
          TypeOK, FlagsOK, ghosts, bounds, run
<1>17. ASSUME EndRun PROVE OwnerInv'
  BY <1>17 DEF EndRun, OwnerInv, Undisturbed, Applying, Writing, TypeOK,
          FlagsOK, ghosts, bounds, run
<1>18. ASSUME Import PROVE OwnerInv'
  BY <1>18 DEF Import, OwnerInv, Undisturbed, Applying, Writing, TypeOK,
          FlagsOK, ghosts, bounds, run
<1>19. ASSUME NEW m \in Maps \cup {Absent}, Edit(m) PROVE OwnerInv'
  BY <1>19 DEF Edit, OwnerInv, Undisturbed, Applying, Writing, TypeOK,
          FlagsOK, ghosts, bounds, run
<1>20. ASSUME NEW f \in Fields, EditOwner(f) PROVE OwnerInv'
  BY <1>20 DEF EditOwner, OwnerInv, Undisturbed, Applying, Writing, TypeOK,
          FlagsOK, ghosts, bounds, run
<1>21. ASSUME NEW f \in Fields, OutsideFields(f) PROVE OwnerInv'
  BY <1>21 DEF OutsideFields, Outsider, OwnerInv, Undisturbed, Applying,
          Writing, TypeOK, FlagsOK, ghosts, bounds, run
<1>22. ASSUME NEW t \in OutsideTexts, OutsideText(t) PROVE OwnerInv'
  BY <1>22 DEF OutsideText, Outsider, OthersWrote, OwnerInv, Undisturbed,
          Applying, Writing, TypeOK, FlagsOK, ghosts, bounds, run
<1>23. ASSUME OutsideDelete PROVE OwnerInv'
  BY <1>23 DEF OutsideDelete, Outsider, OthersWrote, OwnerInv, Undisturbed,
          Applying, Writing, TypeOK, FlagsOK, ghosts, bounds, run
<1>24. ASSUME UNCHANGED vars PROVE OwnerInv'
  BY <1>24 DEF vars, OwnerInv, Undisturbed, Applying, Writing, TypeOK,
          FlagsOK, ghosts, bounds, run
<1> QED
  BY <1>1, <1>2, <1>3, <1>4, <1>5, <1>6, <1>7, <1>8, <1>9, <1>10,
     <1>11, <1>12, <1>13, <1>14, <1>15, <1>16, <1>17, <1>18,
     <1>19, <1>20, <1>21, <1>22, <1>23, <1>24
  DEF Next

\* Once the write of the map is over, the text reads as the map.
LEMMA MapStep ==
  ASSUME TypeOK, PlaceInv, OrderInv, RefreshedInv, ReadBackInv, MapInv,
         [Next]_vars
  PROVE  MapInv'
<1> USE DEF OthersText, PutOwn, PutEmpty
<1> USE DEF PlaceInv, OrderInv, RefreshedInv, ReadBackInv,
            LegibleMapIsReadBack
<1>1. ASSUME RefreshOwner PROVE MapInv'
  BY <1>1 DEF RefreshOwner, MapInv, Undisturbed, Writing, TypeOK, FlagsOK,
          ghosts, bounds, run
<1>2. ASSUME Read PROVE MapInv'
  BY <1>2 DEF Read, MapInv, Undisturbed, Writing, TypeOK, FlagsOK, ghosts,
          bounds, run
<1>3. ASSUME ReadFails PROVE MapInv'
  BY <1>3 DEF ReadFails, MayFail, MapInv, Undisturbed, Writing, TypeOK,
          FlagsOK, ghosts, bounds, run
<1>4. ASSUME Plan PROVE MapInv'
  BY <1>4 DEF Plan, MapInv, Undisturbed, Writing, TypeOK, FlagsOK, ghosts,
          bounds, run
<1>5. ASSUME SaveOwner PROVE MapInv'
  <2> SUFFICES ASSUME Undisturbed', config # Absent, pc = "done"
               PROVE  /\ server' # Absent /\ parseEnv(server'.text) = config
                      /\ state = config /\ ~tainted
    BY <1>5 DEF SaveOwner, Owning, MapInv, run
  <2>1. Undisturbed /\ saving
    BY <1>5 DEF SaveOwner, Undisturbed, run
  <2>2. /\ owner = server /\ server # Absent /\ state = config
        /\ parseEnv(server.text) = config /\ ~tainted
    BY <2>1 DEF MapInv
  <2>3. server' = [text |-> server.text, fields |-> fields]
    BY <1>5, <2>2 DEF SaveOwner, OwnersText
  <2>4. server' \in Records
    BY <2>2, <2>3, RecordParts DEF TypeOK
  <2>5. server'.text = server.text
    BY <2>3
  <2> QED
    BY <2>2, <2>3, <2>4, <2>5, RecordsAssumption DEF RecordsAssumption
<1>6. ASSUME SaveOwnerFails PROVE MapInv'
  BY <1>6 DEF SaveOwnerFails, CallMayFail, MayFail, OwnersText, Owning,
          MapInv, Undisturbed, Writing, TypeOK, FlagsOK, ghosts, bounds, run
<1>7. ASSUME GetBeforeWrite PROVE MapInv'
  BY <1>7 DEF GetBeforeWrite, Get, MapInv, Undisturbed, Writing, TypeOK,
          FlagsOK, ghosts, bounds, run
<1>8. ASSUME PutVariables PROVE MapInv'
  BY <1>8 DEF PutVariables, Put, MapInv, Undisturbed, Writing, TypeOK,
          FlagsOK, ghosts, bounds, run
<1>9. ASSUME WriteFails PROVE MapInv'
  BY <1>9 DEF WriteFails, CallMayFail, MayFail, Put, MapInv, Undisturbed,
          Writing, TypeOK, FlagsOK, ghosts, bounds, run
<1>10. ASSUME ReadBack PROVE MapInv'
  BY <1>10 DEF ReadBack, MapInv, Undisturbed, Writing, TypeOK, FlagsOK,
          ghosts, bounds, run
<1>11. ASSUME Stored PROVE MapInv'
  BY <1>11 DEF Stored, MapInv, Undisturbed, Writing, TypeOK, FlagsOK,
          ghosts, bounds, run
<1>12. ASSUME GetBeforeDelete PROVE MapInv'
  BY <1>12 DEF GetBeforeDelete, Get, MapInv, Undisturbed, Writing, TypeOK,
          FlagsOK, ghosts, bounds, run
<1>13. ASSUME PutNothing PROVE MapInv'
  BY <1>13 DEF PutNothing, Put, Forget, MapInv, Undisturbed, Writing,
          TypeOK, FlagsOK, ghosts, bounds, run
<1>14. ASSUME DeleteOfGone PROVE MapInv'
  BY <1>14 DEF DeleteOfGone, Forget, MapInv, Undisturbed, Writing, TypeOK,
          FlagsOK, ghosts, bounds, run
<1>15. ASSUME DeleteFails PROVE MapInv'
  BY <1>15 DEF DeleteFails, CallMayFail, MayFail, Put, MapInv, Undisturbed,
          Writing, TypeOK, FlagsOK, ghosts, bounds, run
<1>16. ASSUME AfterDelete PROVE MapInv'
  BY <1>16 DEF AfterDelete, MapInv, Undisturbed, Writing, TypeOK, FlagsOK,
          ghosts, bounds, run
<1>17. ASSUME EndRun PROVE MapInv'
  BY <1>17 DEF EndRun, MapInv, Undisturbed, Writing, TypeOK, FlagsOK,
          ghosts, bounds, run
<1>18. ASSUME Import PROVE MapInv'
  BY <1>18 DEF Import, MapInv, Undisturbed, Writing, TypeOK, FlagsOK,
          ghosts, bounds, run
<1>19. ASSUME NEW m \in Maps \cup {Absent}, Edit(m) PROVE MapInv'
  BY <1>19 DEF Edit, MapInv, Undisturbed, Writing, TypeOK, FlagsOK, ghosts,
          bounds, run
<1>20. ASSUME NEW f \in Fields, EditOwner(f) PROVE MapInv'
  BY <1>20 DEF EditOwner, MapInv, Undisturbed, Writing, TypeOK, FlagsOK,
          ghosts, bounds, run
<1>21. ASSUME NEW f \in Fields, OutsideFields(f) PROVE MapInv'
  BY <1>21 DEF OutsideFields, Outsider, MapInv, Undisturbed, Writing,
          TypeOK, FlagsOK, ghosts, bounds, run
<1>22. ASSUME NEW t \in OutsideTexts, OutsideText(t) PROVE MapInv'
  BY <1>22 DEF OutsideText, Outsider, OthersWrote, MapInv, Undisturbed,
          Writing, TypeOK, FlagsOK, ghosts, bounds, run
<1>23. ASSUME OutsideDelete PROVE MapInv'
  BY <1>23 DEF OutsideDelete, Outsider, OthersWrote, MapInv, Undisturbed,
          Writing, TypeOK, FlagsOK, ghosts, bounds, run
<1>24. ASSUME UNCHANGED vars PROVE MapInv'
  BY <1>24 DEF vars, MapInv, Undisturbed, Writing, TypeOK, FlagsOK, ghosts,
          bounds, run
<1> QED
  BY <1>1, <1>2, <1>3, <1>4, <1>5, <1>6, <1>7, <1>8, <1>9, <1>10,
     <1>11, <1>12, <1>13, <1>14, <1>15, <1>16, <1>17, <1>18,
     <1>19, <1>20, <1>21, <1>22, <1>23, <1>24
  DEF Next

\* A run that ends well ends with both.
LEMMA ConvergeStep ==
  ASSUME TypeOK, OwnerInv, MapInv, BothConverge, [Next]_vars
  PROVE  BothConverge'
<1> USE DEF OthersText, PutOwn, PutEmpty
<1> USE DEF OwnerInv, MapInv
<1>1. ASSUME RefreshOwner PROVE BothConverge'
  BY <1>1 DEF RefreshOwner, BothConverge, Applied, Undisturbed, Applying,
          TypeOK, FlagsOK, ghosts, bounds, run
<1>2. ASSUME Read PROVE BothConverge'
  BY <1>2 DEF Read, BothConverge, Applied, Undisturbed, Applying, TypeOK,
          FlagsOK, ghosts, bounds, run
<1>3. ASSUME ReadFails PROVE BothConverge'
  BY <1>3 DEF ReadFails, MayFail, BothConverge, Applied, Undisturbed,
          Applying, TypeOK, FlagsOK, ghosts, bounds, run
<1>4. ASSUME Plan PROVE BothConverge'
  BY <1>4 DEF Plan, BothConverge, Applied, Undisturbed, Applying, TypeOK,
          FlagsOK, ghosts, bounds, run
<1>5. ASSUME SaveOwner PROVE BothConverge'
  BY <1>5 DEF SaveOwner, OwnersText, Owning, BothConverge, Applied,
          Undisturbed, Applying, TypeOK, FlagsOK, ghosts, bounds, run
<1>6. ASSUME SaveOwnerFails PROVE BothConverge'
  BY <1>6 DEF SaveOwnerFails, CallMayFail, MayFail, OwnersText, Owning,
          BothConverge, Applied, Undisturbed, Applying, TypeOK, FlagsOK,
          ghosts, bounds, run
<1>7. ASSUME GetBeforeWrite PROVE BothConverge'
  BY <1>7 DEF GetBeforeWrite, Get, BothConverge, Applied, Undisturbed,
          Applying, TypeOK, FlagsOK, ghosts, bounds, run
<1>8. ASSUME PutVariables PROVE BothConverge'
  BY <1>8 DEF PutVariables, Put, BothConverge, Applied, Undisturbed,
          Applying, TypeOK, FlagsOK, ghosts, bounds, run
<1>9. ASSUME WriteFails PROVE BothConverge'
  BY <1>9 DEF WriteFails, CallMayFail, MayFail, Put, BothConverge, Applied,
          Undisturbed, Applying, TypeOK, FlagsOK, ghosts, bounds, run
<1>10. ASSUME ReadBack PROVE BothConverge'
  BY <1>10 DEF ReadBack, BothConverge, Applied, Undisturbed, Applying,
          TypeOK, FlagsOK, ghosts, bounds, run
<1>11. ASSUME Stored PROVE BothConverge'
  BY <1>11 DEF Stored, BothConverge, Applied, Undisturbed, Applying, TypeOK,
          FlagsOK, ghosts, bounds, run
<1>12. ASSUME GetBeforeDelete PROVE BothConverge'
  BY <1>12 DEF GetBeforeDelete, Get, BothConverge, Applied, Undisturbed,
          Applying, TypeOK, FlagsOK, ghosts, bounds, run
<1>13. ASSUME PutNothing PROVE BothConverge'
  BY <1>13 DEF PutNothing, Put, Forget, BothConverge, Applied, Undisturbed,
          Applying, TypeOK, FlagsOK, ghosts, bounds, run
<1>14. ASSUME DeleteOfGone PROVE BothConverge'
  BY <1>14 DEF DeleteOfGone, Forget, BothConverge, Applied, Undisturbed,
          Applying, TypeOK, FlagsOK, ghosts, bounds, run
<1>15. ASSUME DeleteFails PROVE BothConverge'
  BY <1>15 DEF DeleteFails, CallMayFail, MayFail, Put, BothConverge,
          Applied, Undisturbed, Applying, TypeOK, FlagsOK, ghosts, bounds,
          run
<1>16. ASSUME AfterDelete PROVE BothConverge'
  BY <1>16 DEF AfterDelete, BothConverge, Applied, Undisturbed, Applying,
          TypeOK, FlagsOK, ghosts, bounds, run
<1>17. ASSUME EndRun PROVE BothConverge'
  BY <1>17 DEF EndRun, BothConverge, Applied, Undisturbed, Applying, TypeOK,
          FlagsOK, ghosts, bounds, run
<1>18. ASSUME Import PROVE BothConverge'
  BY <1>18 DEF Import, BothConverge, Applied, Undisturbed, Applying, TypeOK,
          FlagsOK, ghosts, bounds, run
<1>19. ASSUME NEW m \in Maps \cup {Absent}, Edit(m) PROVE BothConverge'
  BY <1>19 DEF Edit, BothConverge, Applied, Undisturbed, Applying, TypeOK,
          FlagsOK, ghosts, bounds, run
<1>20. ASSUME NEW f \in Fields, EditOwner(f) PROVE BothConverge'
  BY <1>20 DEF EditOwner, BothConverge, Applied, Undisturbed, Applying,
          TypeOK, FlagsOK, ghosts, bounds, run
<1>21. ASSUME NEW f \in Fields, OutsideFields(f) PROVE BothConverge'
  BY <1>21 DEF OutsideFields, Outsider, BothConverge, Applied, Undisturbed,
          Applying, TypeOK, FlagsOK, ghosts, bounds, run
<1>22. ASSUME NEW t \in OutsideTexts, OutsideText(t) PROVE BothConverge'
  BY <1>22 DEF OutsideText, Outsider, OthersWrote, BothConverge, Applied,
          Undisturbed, Applying, TypeOK, FlagsOK, ghosts, bounds, run
<1>23. ASSUME OutsideDelete PROVE BothConverge'
  BY <1>23 DEF OutsideDelete, Outsider, OthersWrote, BothConverge, Applied,
          Undisturbed, Applying, TypeOK, FlagsOK, ghosts, bounds, run
<1>24. ASSUME UNCHANGED vars PROVE BothConverge'
  BY <1>24 DEF vars, BothConverge, Applied, Undisturbed, Applying, TypeOK,
          FlagsOK, ghosts, bounds, run
<1> QED
  BY <1>1, <1>2, <1>3, <1>4, <1>5, <1>6, <1>7, <1>8, <1>9, <1>10,
     <1>11, <1>12, <1>13, <1>14, <1>15, <1>16, <1>17, <1>18,
     <1>19, <1>20, <1>21, <1>22, <1>23, <1>24
  DEF Next

LEMMA PromiseInit == Init => ReadBackInv /\ ConvergeInv
BY DEF Init, ReadBackInv, LegibleMapIsReadBack, ConvergeInv, OrderInv,
       RefreshedInv, OwnerInv, MapInv, BothConverge, Applied, Applying, Writing

\* Of a map that ValidateConfig accepts and that parseEnv can tell from
\* comments and blanks, what apply wrote is what its GET returns, unless
\* somebody wrote in between.
THEOREM ReadBackIsLegible == Spec => []LegibleMapIsReadBack
<1>1. IInv /\ ReadBackInv /\ [Next]_vars => ReadBackInv'
  BY ReadBackStep DEF IInv
<1>2. ReadBackInv => LegibleMapIsReadBack
  BY DEF ReadBackInv
<1> QED
  BY Invariance, PromiseInit, <1>1, <1>2, PTL DEF Spec

\* After a run that ends well, and during which nobody else wrote, the
\* resource of the variables and the owner of the record both have what they
\* ask for: neither undid the other.
THEOREM Convergence == Spec => []BothConverge
<1>1. IInv /\ ReadBackInv /\ [Next]_vars => ReadBackInv'
  BY ReadBackStep DEF IInv
<1>2. IInv /\ ReadBackInv /\ ConvergeInv /\ [Next]_vars => ConvergeInv'
  BY OrderStep, RefreshedStep, OwnerStep, MapStep, ConvergeStep
  DEF IInv, ConvergeInv
<1>3. ConvergeInv => BothConverge
  BY DEF ConvergeInv
<1> QED
  BY Invariance, PromiseInit, <1>1, <1>2, <1>3, PTL DEF Spec
=============================================================================
