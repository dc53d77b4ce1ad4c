---------------------------- MODULE RecordProofs ----------------------------
(* What Record guarantees, proved for every resource that is built the way *)
(* Sound says, any values and secrets, and any number of edits, failures   *)
(* and changes by others.                                                  *)
EXTENDS RecordInv, TLAPS

-----------------------------------------------------------------------------
(* Types. *)

\* The parts of a kind.
LEMMA KindParts ==
  ASSUME TypeOK
  PROVE  /\ Sound(kind)
         /\ kind.wire.secret \in {"none", "returned", "withheld", "masked"}
         /\ kind.wire.create \in {"record", "id", "nothing"}
         /\ kind.schema.replaces \in {"nothing", "secret", "all"}
         /\ kind.schema.keeps \in BOOLEAN
         /\ kind.flow.flags \in {"never", "first", "late"}
         /\ kind.flow.sends \in {"new", "every"}
         /\ kind.flow.extra \in {"none", "update", "own", "share"}
         /\ kind.flow.onFail \in {"forget", "keep", "blank", "go_on"}
         /\ kind.flow.back \in {"never", "extra", "always"}
         /\ kind.flow.backFail \in {"forget", "keep"}
<1>1. kind \in KindType /\ Sound(kind)
  BY KindsAssumption DEF TypeOK, KindsAssumption
<1>2. kind.wire \in Wires /\ kind.schema \in Schemas /\ kind.flow \in Flows
  BY <1>1 DEF KindType
<1> QED
  BY <1>1, <1>2 DEF Wires, Schemas, Flows

\* The parts of a configuration.
LEMMA ConfigParts ==
  ASSUME NEW c \in Configs(kind)
  PROVE  /\ c.main \in Values
         /\ c.extra \in ExtraOf(kind)
         /\ c.extra \in {Default, Other, Unset}
         /\ c.form \in {"plain", "companion"}
         /\ c.secret \in Secrets \cup {Null}
         /\ c.version \in 0 .. MaxEdits + 1
         /\ c.verify \in BOOLEAN
         /\ c.secret # Null <=> HasSecret(kind)
         /\ c.form = "companion" => HasSecret(kind)
         /\ c.version > 0 <=> c.form = "companion"
         /\ c.verify => kind.flow.check # "none"
BY DEF Configs, ExtraOf

\* A record and a state are taken apart and put together within their types.
LEMMA RecordParts ==
  /\ \A r \in Records : /\ r.main \in Values /\ r.extra \in {Default, Other}
                        /\ r.secret \in SomeSecret
  /\ \A m \in Values, x \in {Default, Other}, s \in SomeSecret :
       Stored(m, x, s) \in Records
BY DEF Records, Stored

LEMMA StateParts ==
  /\ \A r \in States : /\ r.main \in Values /\ r.extra \in {Default, Other}
                       /\ r.secret \in SomeSecret
                       /\ r.version \in 0 .. MaxEdits + 1 /\ r.verify \in BOOLEAN
  /\ \A m \in Values, x \in {Default, Other}, s \in SomeSecret,
        v \in 0 .. MaxEdits + 1, t \in BOOLEAN : Model(m, x, s, v, t) \in States
BY DEF States, Model

\* What Plan proposes.
LEMMA PlannedParts ==
  ASSUME TypeOK, NEW s \in States \cup {Absent}
  PROVE  /\ PlannedFrom(s).main = config.main
         /\ PlannedFrom(s).extra = IF config.extra = Unset /\ s # Absent
                                     THEN s.extra ELSE config.extra
         /\ PlannedFrom(s).secret = Plain(config)
         /\ PlannedFrom(s).version = config.version
         /\ PlannedFrom(s).verify = config.verify
         /\ PlannedFrom(s).extra \in {Default, Other, Unset}
         /\ PlannedFrom(s).extra = Unset => s = Absent
         /\ Plain(config) \in Secrets \cup {Null}
<1>1. config \in Configs(kind)
  BY DEF TypeOK
<1>2. /\ config.extra \in {Default, Other, Unset} /\ config.main \in Values
      /\ config.secret \in Secrets \cup {Null}
  BY <1>1, ConfigParts
<1>3. s # Absent => s.extra \in {Default, Other}
  BY StateParts
<1> QED
  BY <1>2, <1>3, ExtraAssumption DEF PlannedFrom, Model, Plain, ExtraAssumption

\* A record read into a model.
LEMMA FlattenParts ==
  ASSUME NEW r, NEW m
  PROVE  /\ Flatten(r, m).main = r.main
         /\ Flatten(r, m).extra = r.extra
         /\ Flatten(r, m).secret = IF flag THEN Null
                                   ELSE IF kind.wire.secret = "returned" THEN r.secret
                                   ELSE m.secret
         /\ Flatten(r, m).version = m.version
         /\ Flatten(r, m).verify = m.verify
BY DEF Flatten, Model

LEMMA FlattenType ==
  ASSUME NEW r \in Records, NEW m, m.secret \in SomeSecret,
         m.version \in 0 .. MaxEdits + 1, m.verify \in BOOLEAN
  PROVE  Flatten(r, m) \in States
<1>1. r.main \in Values /\ r.extra \in {Default, Other} /\ r.secret \in SomeSecret
  BY RecordParts
<1>2. (IF flag THEN Null ELSE IF kind.wire.secret = "returned" THEN r.secret
       ELSE m.secret) \in SomeSecret
  BY <1>1 DEF SomeSecret
<1> QED
  BY <1>1, <1>2, StateParts DEF Flatten

\* What Create keeps is a state; Unset is filled in from the answer.
LEMMA KeptParts ==
  ASSUME TypeOK, rec \in Records
  PROVE  /\ Kept \in States
         /\ Kept.version = config.version
         /\ Kept.main = IF kind.flow.saves = "plan" THEN config.main ELSE rec.main
         /\ Kept.extra = IF kind.flow.saves = "plan" /\ Planned.extra # Unset
                           THEN Planned.extra ELSE rec.extra
         /\ Kept.secret = IF kind.flow.saves = "plan" THEN Plain(config)
                          ELSE IF flag THEN Null
                          ELSE IF kind.wire.secret = "returned" THEN rec.secret
                          ELSE Plain(config)
<1>1. prior \in States \cup {Absent}
  BY DEF TypeOK
<1>2. config \in Configs(kind)
  BY DEF TypeOK
<1>3. /\ config.version \in 0 .. MaxEdits + 1 /\ config.verify \in BOOLEAN
      /\ config.main \in Values
  BY <1>2, ConfigParts
<1>4. /\ Planned.extra \in {Default, Other, Unset} /\ Planned.secret = Plain(config)
      /\ Planned.version = config.version /\ Planned.verify = config.verify
      /\ Plain(config) \in SomeSecret
  BY <1>1, PlannedParts DEF Planned, SomeSecret
<1>5. rec.extra \in {Default, Other}
  BY RecordParts
<1>6. CASE kind.flow.saves = "plan"
  <2>1. Kept = Model(config.main,
                     IF Planned.extra = Unset THEN rec.extra ELSE Planned.extra,
                     Plain(config), config.version, config.verify)
    BY <1>6 DEF Kept
  <2>2. Kept \in States
    BY <2>1, <1>3, <1>4, <1>5, StateParts
  <2> QED
    BY <1>6, <2>1, <2>2 DEF Model
<1>7. CASE kind.flow.saves # "plan"
  <2>1. Kept = Flatten(rec, Planned)
    BY <1>7 DEF Kept
  <2>2. Kept \in States
    BY <2>1, <1>3, <1>4, FlattenType
  <2> QED
    BY <1>7, <2>1, <2>2, <1>4, FlattenParts
<1> QED
  BY <1>6, <1>7

\* Create may keep it without the extra attribute.
LEMMA BlankParts ==
  ASSUME NEW m \in States
  PROVE  /\ [m EXCEPT !.extra = Default] \in States
         /\ [m EXCEPT !.extra = Default].version = m.version
         /\ [m EXCEPT !.extra = Default].main = m.main
         /\ [m EXCEPT !.extra = Default].secret = m.secret
BY DEF States

\* What a write sends.
LEMMA SendParts ==
  ASSUME TypeOK, ReadsStored => server # Absent
  PROVE  /\ SecretToSend \in SomeSecret \cup {Mask}
         /\ Creating => SecretToSend = config.secret
<1>1. config \in Configs(kind)
  BY DEF TypeOK
<1>2. config.secret \in Secrets \cup {Null} /\ (config.secret # Null <=> HasSecret(kind))
  BY <1>1, ConfigParts
<1>3. ReadsStored => server.secret \in SomeSecret
  BY RecordParts DEF TypeOK
<1>4. kind.flow.sends \in {"new", "every"}
  BY KindParts
<1> QED
  BY <1>2, <1>3, <1>4 DEF SecretToSend, SomeSecret

\* What a create and an update make of the record.
LEMMA MadeParts ==
  ASSUME TypeOK
  PROVE  /\ sending # Mask => Made \in Records
         /\ Made.main = config.main /\ Made.extra = Default
         /\ Made.secret = sending
<1>1. config \in Configs(kind) /\ sending \in SomeSecret \cup {Mask}
  BY DEF TypeOK
<1>2. config.main \in Values
  BY <1>1, ConfigParts
<1>3. sending # Mask => Made \in Records
  BY <1>1, <1>2, RecordParts DEF Made
<1> QED
  BY <1>3 DEF Made, Stored

LEMMA UpdatedParts ==
  ASSUME TypeOK, ~Creating, server # Absent
  PROVE  /\ Updated \in Records
         /\ Updated.main = config.main
         /\ Updated.extra = IF kind.flow.extra = "update" THEN Planned.extra
                                                          ELSE server.extra
         /\ Updated.secret = IF sending = Mask THEN server.secret ELSE sending
<1>1. /\ config \in Configs(kind) /\ sending \in SomeSecret \cup {Mask}
      /\ server \in Records /\ prior \in States
  BY DEF TypeOK, Creating
<1>2. config.main \in Values
  BY <1>1, ConfigParts
<1>3. Planned.extra \in {Default, Other}
  BY <1>1, PlannedParts DEF Planned, Creating
<1>4. server.extra \in {Default, Other} /\ server.secret \in SomeSecret
  BY <1>1, RecordParts
<1>5. Updated \in Records
  BY <1>1, <1>2, <1>3, <1>4, RecordParts DEF Updated, Meant
<1> QED
  BY <1>5 DEF Updated, Stored, Meant

\* What the call for the extra attribute makes of the record.
LEMMA FollowParts ==
  ASSUME TypeOK, rec \in Records, Follows
  PROVE  /\ Planned.extra \in {Default, Other}
         /\ WriteExtra => /\ server # Absent
                          /\ server' \in Records
                          /\ server'.extra = Planned.extra
                          /\ server'.secret = server.secret
                          /\ server'.main = IF kind.flow.extra = "update"
                                              THEN config.main ELSE server.main
         /\ Stored(rec.main, Planned.extra, rec.secret) \in Records
<1>1. Planned.extra \in {Default, Other}
  BY PlannedParts DEF Planned, TypeOK, Follows
<1>2. /\ config.main \in Values
      /\ server # Absent => server.main \in Values /\ server.secret \in SomeSecret
      /\ rec.main \in Values /\ rec.secret \in SomeSecret
  BY ConfigParts, RecordParts DEF TypeOK
<1> DEFINE m == IF kind.flow.extra = "update" THEN config.main ELSE server.main
<1>3. server # Absent => Stored(m, Planned.extra, server.secret) \in Records
  BY <1>1, <1>2, RecordParts
<1> QED
  BY <1>1, <1>2, <1>3, RecordParts DEF WriteExtra, Stored

LEMMA TypeInit == Init => TypeOK /\ PlaceInv
<1> SUFFICES ASSUME Init PROVE TypeOK /\ PlaceInv
  OBVIOUS
<1>1. config \in Configs(kind) /\ kind \in Kinds
  BY DEF Init
<1>2. Plain(config) \in Secrets \cup {Null}
  BY <1>1, ConfigParts DEF Plain
<1>3. openly \subseteq Secrets
  BY <1>2 DEF Init
<1>4. Booleans
  BY DEF Init, Booleans
<1> QED
  BY <1>1, <1>3, <1>4, BoundsAssumption
  DEF Init, TypeOK, Booleans, PlaceInv, Handling, Sending, Written, SomeSecret,
      BoundsAssumption

\* Every step preserves the types, and what each place knows.
LEMMA TypeStep == TypeOK /\ PlaceInv /\ [Next]_vars => TypeOK' /\ PlaceInv'
<1> SUFFICES ASSUME TypeOK, PlaceInv, [Next]_vars PROVE TypeOK' /\ PlaceInv'
  OBVIOUS
<1> USE BoundsAssumption, SecretsAssumption, ExtraAssumption
    DEF BoundsAssumption, SecretsAssumption, ExtraAssumption
<1>c. /\ config \in Configs(kind)
      /\ config.secret \in Secrets \cup {Null} /\ config.main \in Values
  BY ConfigParts DEF TypeOK
<1>1. ASSUME Refresh PROVE (TypeOK /\ PlaceInv)'
  <2>f. state # Absent /\ server # Absent => Flatten(server, state) \in States
    BY StateParts, FlattenType DEF TypeOK
  <2>1. Booleans'
    BY <1>1 DEF Refresh, Booleans, TypeOK
  <2>2. TypeOK'
    BY <1>1, <2>1, <1>c, <2>f DEF Refresh, Booleans, TypeOK
  <2>3. PlaceInv'
    BY <1>1, <2>2, <1>c, <2>f DEF Refresh, PlaceInv, Handling, Sending, Written,
       Creating, TypeOK
  <2> QED
    BY <2>2, <2>3
<1>2. ASSUME RefreshFails PROVE (TypeOK /\ PlaceInv)'
  <2>1. Booleans'
    BY <1>2 DEF RefreshFails, MayFail, Booleans, TypeOK
  <2>2. TypeOK'
    BY <1>2, <2>1, <1>c DEF RefreshFails, MayFail, Booleans, TypeOK
  <2>3. PlaceInv'
    BY <1>2, <2>2, <1>c DEF RefreshFails, MayFail, PlaceInv, Handling, Sending,
       Written, Creating, TypeOK
  <2> QED
    BY <2>2, <2>3
<1>3. ASSUME Plan PROVE (TypeOK /\ PlaceInv)'
  <2>1. Booleans'
    BY <1>3 DEF Plan, Booleans, TypeOK
  <2>2. TypeOK'
    BY <1>3, <2>1, <1>c DEF Plan, Booleans, TypeOK
  <2>3. PlaceInv'
    BY <1>3, <2>2, <1>c DEF Plan, PlaceInv, Handling, Sending, Written,
       Creating, TypeOK
  <2> QED
    BY <2>2, <2>3
<1>4. ASSUME Delete PROVE (TypeOK /\ PlaceInv)'
  <2>1. Booleans'
    BY <1>4 DEF Delete, Booleans, TypeOK
  <2>2. TypeOK'
    BY <1>4, <2>1, <1>c DEF Delete, Booleans, TypeOK
  <2>3. PlaceInv'
    BY <1>4, <2>2, <1>c DEF Delete, PlaceInv, Handling, Sending, Written,
       Creating, TypeOK
  <2> QED
    BY <2>2, <2>3
<1>5. ASSUME DeleteFails PROVE (TypeOK /\ PlaceInv)'
  <2>1. Booleans'
    BY <1>5 DEF DeleteFails, MayFail, Booleans, TypeOK
  <2>2. TypeOK'
    BY <1>5, <2>1, <1>c DEF DeleteFails, MayFail, Booleans, TypeOK
  <2>3. PlaceInv'
    BY <1>5, <2>2, <1>c DEF DeleteFails, MayFail, PlaceInv, Handling, Sending,
       Written, Creating, TypeOK
  <2> QED
    BY <2>2, <2>3
<1>6. ASSUME Before PROVE (TypeOK /\ PlaceInv)'
  <2>f. /\ SecretToSend \in SomeSecret \cup {Mask}
        /\ Creating => SecretToSend = config.secret
    BY <1>6, SendParts DEF Before
  <2>1. Booleans'
    BY <1>6 DEF Before, Booleans, TypeOK, InUse
  <2>2. TypeOK'
    BY <1>6, <2>1, <1>c, <2>f DEF Before, Booleans, TypeOK
  <2>3. PlaceInv'
    BY <1>6, <2>2, <1>c, <2>f DEF Before, PlaceInv, Handling, Sending, Written,
       Creating, TypeOK
  <2> QED
    BY <2>2, <2>3
<1>7. ASSUME PreludeFails PROVE (TypeOK /\ PlaceInv)'
  <2>1. Booleans'
    BY <1>7 DEF PreludeFails, MayFail, GiveUp, Booleans, TypeOK
  <2>2. TypeOK'
    BY <1>7, <2>1, <1>c DEF PreludeFails, MayFail, GiveUp, Booleans, TypeOK
  <2>3. PlaceInv'
    BY <1>7, <2>2, <1>c DEF PreludeFails, MayFail, GiveUp, PlaceInv, Handling,
       Sending, Written, Creating, TypeOK
  <2> QED
    BY <2>2, <2>3
<1>8. ASSUME NameRefused PROVE (TypeOK /\ PlaceInv)'
  <2>1. Booleans'
    BY <1>8 DEF NameRefused, GiveUp, Booleans, TypeOK
  <2>2. TypeOK'
    BY <1>8, <2>1, <1>c DEF NameRefused, GiveUp, Booleans, TypeOK
  <2>3. PlaceInv'
    BY <1>8, <2>2, <1>c DEF NameRefused, GiveUp, PlaceInv, Handling, Sending,
       Written, Creating, TypeOK
  <2> QED
    BY <2>2, <2>3
<1>9. ASSUME StoredFails PROVE (TypeOK /\ PlaceInv)'
  <2>1. Booleans'
    BY <1>9 DEF StoredFails, CallMayFail, MayFail, Booleans, TypeOK, InUse
  <2>2. TypeOK'
    BY <1>9, <2>1, <1>c DEF StoredFails, CallMayFail, MayFail, Booleans, TypeOK
  <2>3. PlaceInv'
    BY <1>9, <2>2, <1>c DEF StoredFails, CallMayFail, MayFail, PlaceInv,
       Handling, Sending, Written, Creating, TypeOK
  <2> QED
    BY <2>2, <2>3
<1>10. ASSUME Check PROVE (TypeOK /\ PlaceInv)'
  <2>f. (sending = Mask => server # Absent) => Meant(sending) \in SomeSecret
    BY RecordParts DEF Meant, TypeOK
  <2>1. Booleans'
    BY <1>10 DEF Check, Booleans, TypeOK
  <2>2. TypeOK'
    BY <1>10, <2>1, <1>c, <2>f DEF Check, Booleans, TypeOK
  <2>3. PlaceInv'
    BY <1>10, <2>2, <1>c, <2>f DEF Check, PlaceInv, Handling, Sending, Written,
       Creating, TypeOK
  <2> QED
    BY <2>2, <2>3
<1>11. ASSUME CheckFails PROVE (TypeOK /\ PlaceInv)'
  <2>1. Booleans'
    BY <1>11 DEF CheckFails, MayFail, GiveUp, Booleans, TypeOK
  <2>2. TypeOK'
    BY <1>11, <2>1, <1>c DEF CheckFails, MayFail, GiveUp, Booleans, TypeOK
  <2>3. PlaceInv'
    BY <1>11, <2>2, <1>c DEF CheckFails, MayFail, GiveUp, PlaceInv, Handling,
       Sending, Written, Creating, TypeOK
  <2> QED
    BY <2>2, <2>3
<1>12. ASSUME SendCreate PROVE (TypeOK /\ PlaceInv)'
  <2>f. Made \in Records
    BY <1>12, <1>c, MadeParts DEF SendCreate, PlaceInv, Sending
  <2>1. Booleans'
    BY <1>12 DEF SendCreate, Booleans, TypeOK
  <2>2. TypeOK'
    BY <1>12, <2>1, <1>c, <2>f DEF SendCreate, Booleans, TypeOK
  <2>3. PlaceInv'
    BY <1>12, <2>2, <1>c, <2>f DEF SendCreate, PlaceInv, Handling, Sending,
       Written, Creating, TypeOK
  <2> QED
    BY <2>2, <2>3
<1>13. ASSUME SendCreateFails PROVE (TypeOK /\ PlaceInv)'
  <2>f. Made \in Records
    BY <1>13, <1>c, MadeParts DEF SendCreateFails, PlaceInv, Sending
  <2>1. Booleans'
    BY <1>13 DEF SendCreateFails, MayFail, GiveUp, Booleans, TypeOK
  <2>2. TypeOK'
    BY <1>13, <2>1, <1>c, <2>f DEF SendCreateFails, MayFail, GiveUp, Booleans,
       TypeOK
  <2>3. PlaceInv'
    BY <1>13, <2>2, <1>c, <2>f DEF SendCreateFails, MayFail, GiveUp, PlaceInv,
       Handling, Sending, Written, Creating, TypeOK
  <2> QED
    BY <2>2, <2>3
<1>14. ASSUME SendUpdate PROVE (TypeOK /\ PlaceInv)'
  <2>f. Updated \in Records
    BY <1>14, UpdatedParts DEF SendUpdate, Write
  <2>1. Booleans'
    BY <1>14 DEF SendUpdate, Write, Booleans, TypeOK
  <2>2. TypeOK'
    BY <1>14, <2>1, <1>c, <2>f DEF SendUpdate, Write, Booleans, TypeOK
  <2>3. PlaceInv'
    BY <1>14, <2>2, <1>c, <2>f DEF SendUpdate, Write, PlaceInv, Handling,
       Sending, Written, Creating, TypeOK
  <2> QED
    BY <2>2, <2>3
<1>15. ASSUME SendUpdateFails PROVE (TypeOK /\ PlaceInv)'
  <2>f. server # Absent => Updated \in Records
    BY <1>15, UpdatedParts DEF SendUpdateFails
  <2>1. Booleans'
    BY <1>15 DEF SendUpdateFails, CallMayFail, MayFail, Write, GiveUp, Booleans,
       TypeOK
  <2>2. TypeOK'
    BY <1>15, <2>1, <1>c, <2>f DEF SendUpdateFails, CallMayFail, MayFail, Write,
       GiveUp, Booleans, TypeOK
  <2>3. PlaceInv'
    BY <1>15, <2>2, <1>c, <2>f DEF SendUpdateFails, CallMayFail, MayFail, Write,
       GiveUp, PlaceInv, Handling, Sending, Written, Creating, TypeOK
  <2> QED
    BY <2>2, <2>3
<1>16. ASSUME Fetch PROVE (TypeOK /\ PlaceInv)'
  <2>1. Booleans'
    BY <1>16 DEF Fetch, Booleans, TypeOK
  <2>2. TypeOK'
    BY <1>16, <2>1, <1>c DEF Fetch, Booleans, TypeOK
  <2>3. PlaceInv'
    BY <1>16, <2>2, <1>c DEF Fetch, PlaceInv, Handling, Sending, Written,
       Creating, TypeOK
  <2> QED
    BY <2>2, <2>3
<1>17. ASSUME FetchFails PROVE (TypeOK /\ PlaceInv)'
  <2>1. Booleans'
    BY <1>17 DEF FetchFails, CallMayFail, MayFail, GiveUp, Booleans, TypeOK
  <2>2. TypeOK'
    BY <1>17, <2>1, <1>c DEF FetchFails, CallMayFail, MayFail, GiveUp, Booleans,
       TypeOK
  <2>3. PlaceInv'
    BY <1>17, <2>2, <1>c DEF FetchFails, CallMayFail, MayFail, GiveUp, PlaceInv,
       Handling, Sending, Written, Creating, TypeOK
  <2> QED
    BY <2>2, <2>3
<1>18. ASSUME Follow PROVE (TypeOK /\ PlaceInv)'
  <2>f. /\ WriteExtra /\ Follows => server' \in Records
        /\ Follows => Stored(rec.main, Planned.extra, rec.secret) \in Records
    BY <1>18, FollowParts DEF Follow, PlaceInv, Written
  <2>1. Booleans'
    BY <1>18 DEF Follow, WriteExtra, Booleans, TypeOK
  <2>2. TypeOK'
    BY <1>18, <2>1, <1>c, <2>f DEF Follow, WriteExtra, Booleans, TypeOK
  <2>3. PlaceInv'
    BY <1>18, <2>2, <1>c, <2>f DEF Follow, WriteExtra, PlaceInv, Handling,
       Sending, Written, Creating, TypeOK
  <2> QED
    BY <2>2, <2>3
<1>19. ASSUME FollowFails PROVE (TypeOK /\ PlaceInv)'
  <2>f. /\ WriteExtra => server' \in Records
        /\ Kept \in States /\ [Kept EXCEPT !.extra = Default] \in States
    BY <1>19, FollowParts, KeptParts, BlankParts DEF FollowFails, PlaceInv, Written
  <2>1. Booleans'
    BY <1>19 DEF FollowFails, CallMayFail, MayFail, WriteExtra, GiveUp,
       GiveUpWith, Booleans, TypeOK
  <2>2. TypeOK'
    BY <1>19, <2>1, <1>c, <2>f DEF FollowFails, CallMayFail, MayFail, WriteExtra,
       GiveUp, GiveUpWith, Booleans, TypeOK
  <2>3. PlaceInv'
    BY <1>19, <2>2, <1>c, <2>f DEF FollowFails, CallMayFail, MayFail, WriteExtra,
       GiveUp, GiveUpWith, PlaceInv, Handling, Sending, Written, Creating,
       TypeOK
  <2> QED
    BY <2>2, <2>3
<1>20. ASSUME Back PROVE (TypeOK /\ PlaceInv)'
  <2>1. Booleans'
    BY <1>20 DEF Back, Booleans, TypeOK
  <2>2. TypeOK'
    BY <1>20, <2>1, <1>c DEF Back, Booleans, TypeOK
  <2>3. PlaceInv'
    BY <1>20, <2>2, <1>c DEF Back, PlaceInv, Handling, Sending, Written,
       Creating, TypeOK
  <2> QED
    BY <2>2, <2>3
<1>21. ASSUME BackFails PROVE (TypeOK /\ PlaceInv)'
  <2>f. Kept \in States
    BY <1>21, KeptParts DEF BackFails, PlaceInv, Written
  <2>1. Booleans'
    BY <1>21 DEF BackFails, CallMayFail, MayFail, GiveUp, GiveUpWith, Booleans,
       TypeOK
  <2>2. TypeOK'
    BY <1>21, <2>1, <1>c, <2>f DEF BackFails, CallMayFail, MayFail, GiveUp,
       GiveUpWith, Booleans, TypeOK
  <2>3. PlaceInv'
    BY <1>21, <2>2, <1>c, <2>f DEF BackFails, CallMayFail, MayFail, GiveUp,
       GiveUpWith, PlaceInv, Handling, Sending, Written, Creating, TypeOK
  <2> QED
    BY <2>2, <2>3
<1>22. ASSUME Save PROVE (TypeOK /\ PlaceInv)'
  <2>f. Kept \in States
    BY <1>22, KeptParts DEF Save, PlaceInv, Written
  <2>1. Booleans'
    BY <1>22 DEF Save, Booleans, TypeOK
  <2>2. TypeOK'
    BY <1>22, <2>1, <1>c, <2>f DEF Save, Booleans, TypeOK
  <2>3. PlaceInv'
    BY <1>22, <2>2, <1>c, <2>f DEF Save, PlaceInv, Handling, Sending, Written,
       Creating, TypeOK
  <2> QED
    BY <2>2, <2>3
<1>23. ASSUME Test PROVE (TypeOK /\ PlaceInv)'
  <2>f. server # Absent =>
          [main |-> server.main, secret |-> server.secret]
            \in [main : Values, secret : SomeSecret]
    BY RecordParts DEF TypeOK
  <2>1. Booleans'
    BY <1>23 DEF Test, Booleans, TypeOK
  <2>2. TypeOK'
    BY <1>23, <2>1, <1>c, <2>f DEF Test, Booleans, TypeOK
  <2>3. PlaceInv'
    BY <1>23, <2>2, <1>c, <2>f DEF Test, PlaceInv, Handling, Sending, Written,
       Creating, TypeOK
  <2> QED
    BY <2>2, <2>3
<1>24. ASSUME TestFails PROVE (TypeOK /\ PlaceInv)'
  <2>1. Booleans'
    BY <1>24 DEF TestFails, CallMayFail, MayFail, Booleans, TypeOK, Creating
  <2>2. TypeOK'
    BY <1>24, <2>1, <1>c DEF TestFails, CallMayFail, MayFail, Booleans, TypeOK
  <2>3. PlaceInv'
    BY <1>24, <2>2, <1>c DEF TestFails, CallMayFail, MayFail, PlaceInv, Handling,
       Sending, Written, Creating, TypeOK
  <2> QED
    BY <2>2, <2>3
<1>25. ASSUME Edit PROVE (TypeOK /\ PlaceInv)'
  <2>f. config' \in Configs(kind) /\ Plain(config') \in Secrets \cup {Null}
    BY <1>25, ConfigParts DEF Edit, Plain
  <2>1. Booleans'
    BY <1>25 DEF Edit, Booleans, TypeOK
  <2>2. TypeOK'
    BY <1>25, <2>1, <1>c, <2>f DEF Edit, Booleans, TypeOK
  <2>3. PlaceInv'
    BY <1>25, <2>2, <1>c, <2>f DEF Edit, PlaceInv, Handling, Sending, Written,
       Creating, TypeOK
  <2> QED
    BY <2>2, <2>3
<1>26. ASSUME OutsideChange PROVE (TypeOK /\ PlaceInv)'
  <2>f. server' \in Records
    BY <1>26, RecordParts DEF OutsideChange, TypeOK, ExtraOf, SomeSecret
  <2>1. Booleans'
    BY <1>26 DEF OutsideChange, Booleans, TypeOK
  <2>2. TypeOK'
    BY <1>26, <2>1, <1>c, <2>f DEF OutsideChange, Booleans, TypeOK
  <2>3. PlaceInv'
    BY <1>26, <2>2, <1>c, <2>f DEF OutsideChange, PlaceInv, Handling, Sending,
       Written, Creating, TypeOK
  <2> QED
    BY <2>2, <2>3
<1>27. ASSUME OutsideDelete PROVE (TypeOK /\ PlaceInv)'
  <2>1. Booleans'
    BY <1>27 DEF OutsideDelete, Booleans, TypeOK
  <2>2. TypeOK'
    BY <1>27, <2>1, <1>c DEF OutsideDelete, Booleans, TypeOK
  <2>3. PlaceInv'
    BY <1>27, <2>2, <1>c DEF OutsideDelete, PlaceInv, Handling, Sending, Written,
       Creating, TypeOK
  <2> QED
    BY <2>2, <2>3
<1>28. ASSUME UNCHANGED vars PROVE (TypeOK /\ PlaceInv)'
  <2>1. Booleans'
    BY <1>28 DEF vars, Booleans, TypeOK
  <2>2. TypeOK'
    BY <1>28, <2>1, <1>c DEF vars, Booleans, TypeOK
  <2>3. PlaceInv'
    BY <1>28, <2>2, <1>c DEF vars, PlaceInv, Handling, Sending, Written,
       Creating, TypeOK
  <2> QED
    BY <2>2, <2>3
<1> QED
  BY <1>1, <1>2, <1>3, <1>4, <1>5, <1>6, <1>7, <1>8, <1>9, <1>10,
     <1>11, <1>12, <1>13, <1>14, <1>15, <1>16, <1>17, <1>18,
     <1>19, <1>20, <1>21, <1>22, <1>23, <1>24, <1>25, <1>26,
     <1>27, <1>28
  DEF Next

\* The types and places hold in every reachable state.
LEMMA BaseAlways == Spec => [](TypeOK /\ PlaceInv)
BY TypeInit, TypeStep, PTL DEF Spec

\* The type invariant of Record: no record and no state ever holds the mask.
THEOREM TypeCorrect == Spec => []TypeOK
BY BaseAlways, PTL

-----------------------------------------------------------------------------
(* The secret stays out of the state. *)

LEMMA OpenStep == TypeOK /\ OpenInv /\ [Next]_vars => OpenInv'
<1> SUFFICES ASSUME TypeOK, OpenInv, [Next]_vars PROVE OpenInv'
  OBVIOUS
<1>1. CASE Edit
  BY <1>1 DEF Edit, OpenInv
<1>2. CASE UNCHANGED <<config, openly>>
  BY <1>2 DEF OpenInv, Plain
<1> QED
  BY <1>1, <1>2 DEF Next, vars, Refresh, RefreshFails, Plan, Delete,
     DeleteFails, Before, PreludeFails, NameRefused, StoredFails, Check,
     CheckFails, SendCreate, SendCreateFails, SendUpdate, SendUpdateFails,
     Fetch, FetchFails, Follow, FollowFails, Back, BackFails, Save, Test,
     TestFails, OutsideChange, OutsideDelete

\* A configuration that gives no secret openly uses the companion.
LEMMA CompanionUsed ==
  ASSUME TypeOK, OpenInv, openly = {}
  PROVE  /\ Plain(config) = Null
         /\ kind.wire.secret = "returned" => InUse
<1>1. Plain(config) = Null
  BY DEF OpenInv
<1>2. config \in Configs(kind)
  BY DEF TypeOK
<1>3. kind.wire.secret = "returned" =>
        HasSecret(kind) /\ kind.flow.flags # "never"
  BY KindParts DEF HasSecret, Sound
<1> QED
  BY <1>1, <1>2, <1>3, ConfigParts DEF InUse, Plain

LEMMA FlagStep ==
  ASSUME TypeOK, PlaceInv, OpenInv, OpenInv', FlagInv, [Next]_vars
  PROVE  FlagInv'
<1>c. openly = {} => /\ Plain(config) = Null
                     /\ kind.wire.secret = "returned" => InUse
  BY CompanionUsed
<1>p. Creating /\ (Handling \/ pc = "delete") => state = Absent
  BY DEF PlaceInv, Creating
<1>k. Written => /\ Kept \in States
                 /\ openly = {} => Kept.secret = Null
                 /\ [Kept EXCEPT !.extra = Default].secret = Kept.secret
  BY KeptParts, BlankParts, <1>c DEF PlaceInv, FlagInv
<1>1. ASSUME Refresh PROVE FlagInv'
  BY <1>1, <1>c, <1>p DEF Refresh, Flatten, Model, FlagInv, CompanionKeptOut,
     Sending, Written, Handling
<1>2. ASSUME RefreshFails PROVE FlagInv'
  BY <1>2, <1>c, <1>p DEF RefreshFails, MayFail, FlagInv, CompanionKeptOut,
     Sending, Written, Handling
<1>3. ASSUME Plan PROVE FlagInv'
  BY <1>3, <1>c, <1>p DEF Plan, FlagInv, CompanionKeptOut, Sending, Written,
     Handling
<1>4. ASSUME Delete PROVE FlagInv'
  BY <1>4, <1>c, <1>p DEF Delete, FlagInv, CompanionKeptOut, Sending,
     Written, Handling
<1>5. ASSUME DeleteFails PROVE FlagInv'
  BY <1>5, <1>c, <1>p DEF DeleteFails, MayFail, FlagInv, CompanionKeptOut,
     Sending, Written, Handling
<1>6. ASSUME Before PROVE FlagInv'
  BY <1>6, <1>c, <1>p DEF Before, FlagInv, CompanionKeptOut, Sending,
     Written, Handling
<1>7. ASSUME PreludeFails PROVE FlagInv'
  BY <1>7, <1>c, <1>p DEF PreludeFails, MayFail, GiveUp, FlagInv,
     CompanionKeptOut, Sending, Written, Handling
<1>8. ASSUME NameRefused PROVE FlagInv'
  BY <1>8, <1>c, <1>p DEF NameRefused, GiveUp, FlagInv, CompanionKeptOut,
     Sending, Written, Handling
<1>9. ASSUME StoredFails PROVE FlagInv'
  BY <1>9, <1>c, <1>p DEF StoredFails, CallMayFail, MayFail, FlagInv,
     CompanionKeptOut, Sending, Written, Handling
<1>10. ASSUME Check PROVE FlagInv'
  BY <1>10, <1>c, <1>p DEF Check, FlagInv, CompanionKeptOut, Sending,
     Written, Handling
<1>11. ASSUME CheckFails PROVE FlagInv'
  BY <1>11, <1>c, <1>p DEF CheckFails, MayFail, GiveUp, FlagInv,
     CompanionKeptOut, Sending, Written, Handling
<1>12. ASSUME SendCreate PROVE FlagInv'
  BY <1>12, <1>c, <1>p DEF SendCreate, FlagInv, CompanionKeptOut, Sending,
     Written, Handling
<1>13. ASSUME SendCreateFails PROVE FlagInv'
  BY <1>13, <1>c, <1>p DEF SendCreateFails, MayFail, GiveUp, FlagInv,
     CompanionKeptOut, Sending, Written, Handling
<1>14. ASSUME SendUpdate PROVE FlagInv'
  BY <1>14, <1>c, <1>p DEF SendUpdate, Write, FlagInv, CompanionKeptOut,
     Sending, Written, Handling
<1>15. ASSUME SendUpdateFails PROVE FlagInv'
  BY <1>15, <1>c, <1>p DEF SendUpdateFails, CallMayFail, MayFail, Write,
     GiveUp, FlagInv, CompanionKeptOut, Sending, Written, Handling
<1>16. ASSUME Fetch PROVE FlagInv'
  BY <1>16, <1>c, <1>p DEF Fetch, FlagInv, CompanionKeptOut, Sending,
     Written, Handling
<1>17. ASSUME FetchFails PROVE FlagInv'
  BY <1>17, <1>c, <1>p DEF FetchFails, CallMayFail, MayFail, GiveUp, FlagInv,
     CompanionKeptOut, Sending, Written, Handling
<1>18. ASSUME Follow PROVE FlagInv'
  BY <1>18, <1>c, <1>p DEF Follow, WriteExtra, FlagInv, CompanionKeptOut,
     Sending, Written, Handling
<1>19. ASSUME FollowFails PROVE FlagInv'
  BY <1>19, <1>c, <1>p, <1>k DEF FollowFails, CallMayFail, MayFail,
     WriteExtra, GiveUp, GiveUpWith, FlagInv, CompanionKeptOut, Sending,
     Written, Handling
<1>20. ASSUME Back PROVE FlagInv'
  BY <1>20, <1>c, <1>p DEF Back, FlagInv, CompanionKeptOut, Sending, Written,
     Handling
<1>21. ASSUME BackFails PROVE FlagInv'
  BY <1>21, <1>c, <1>p, <1>k DEF BackFails, CallMayFail, MayFail, GiveUp,
     GiveUpWith, FlagInv, CompanionKeptOut, Sending, Written, Handling
<1>22. ASSUME Save PROVE FlagInv'
  BY <1>22, <1>c, <1>k DEF Save, FlagInv, CompanionKeptOut, Sending, Written,
     Handling
<1>23. ASSUME Test PROVE FlagInv'
  BY <1>23, <1>c, <1>p DEF Test, FlagInv, CompanionKeptOut, Sending, Written,
     Handling
<1>24. ASSUME TestFails PROVE FlagInv'
  BY <1>24, <1>c, <1>p DEF TestFails, CallMayFail, MayFail, FlagInv,
     CompanionKeptOut, Sending, Written, Handling
<1>25. ASSUME Edit PROVE FlagInv'
  BY <1>25, <1>c, <1>p DEF Edit, FlagInv, CompanionKeptOut, Sending, Written,
     Handling
<1>26. ASSUME OutsideChange PROVE FlagInv'
  BY <1>26, <1>c, <1>p DEF OutsideChange, FlagInv, CompanionKeptOut, Sending,
     Written, Handling
<1>27. ASSUME OutsideDelete PROVE FlagInv'
  BY <1>27, <1>c, <1>p DEF OutsideDelete, FlagInv, CompanionKeptOut, Sending,
     Written, Handling
<1>28. ASSUME UNCHANGED vars PROVE FlagInv'
  BY <1>28, <1>c, <1>p DEF vars, FlagInv, CompanionKeptOut, Sending, Written,
     Handling
<1> QED
  BY <1>1, <1>2, <1>3, <1>4, <1>5, <1>6, <1>7, <1>8, <1>9, <1>10,
     <1>11, <1>12, <1>13, <1>14, <1>15, <1>16, <1>17, <1>18,
     <1>19, <1>20, <1>21, <1>22, <1>23, <1>24, <1>25, <1>26,
     <1>27, <1>28
  DEF Next

\* While no configuration has given the secret openly, no read, no failed
\* Create and no switch puts it into the state (hideWriteOnly), for any
\* resource that raises its flag before its state is set.
THEOREM KeptOut == Spec => []CompanionKeptOut
<1>1. Init => OpenInv /\ FlagInv
  <2> SUFFICES ASSUME Init PROVE OpenInv /\ FlagInv
    OBVIOUS
  <2>1. OpenInv
    BY DEF Init, OpenInv
  <2> QED
    BY <2>1 DEF Init, FlagInv, CompanionKeptOut, Sending, Written
<1>2. /\ TypeOK /\ PlaceInv /\ OpenInv /\ FlagInv /\ [Next]_vars
      => OpenInv' /\ FlagInv'
  BY OpenStep, FlagStep
<1>3. FlagInv => CompanionKeptOut
  BY DEF FlagInv
<1> QED
  BY BaseAlways, <1>1, <1>2, <1>3, PTL DEF Spec

-----------------------------------------------------------------------------
(* A created record is recorded. *)

LEMMA KnownStep ==
  ASSUME TypeOK, PlaceInv, KnownInv, [Next]_vars
  PROVE  KnownInv'
<1>p. Handling \/ pc = "delete" => (Creating <=> state = Absent)
  BY DEF PlaceInv, Creating
<1>k. Written => /\ Kept \in States
                 /\ [Kept EXCEPT !.extra = Default] \in States
  BY KeptParts, BlankParts DEF PlaceInv
<1>a. Absent \notin States
  BY AbsentAssumption DEF AbsentAssumption
<1>1. ASSUME Refresh PROVE KnownInv'
  <2>1. state # Absent /\ server # Absent => Flatten(server, state) # Absent
    BY StateParts, FlattenType, <1>a DEF TypeOK
  <2> QED
    BY <1>1, <2>1 DEF Refresh, KnownInv, Written
<1>2. ASSUME RefreshFails PROVE KnownInv'
  BY <1>2, <1>p DEF RefreshFails, MayFail, KnownInv, Handling, Sending,
     Written, Creating
<1>3. ASSUME Plan PROVE KnownInv'
  BY <1>3, <1>p DEF Plan, KnownInv, Handling, Sending, Written, Creating
<1>4. ASSUME Delete PROVE KnownInv'
  BY <1>4, <1>p DEF Delete, KnownInv, Handling, Sending, Written, Creating
<1>5. ASSUME DeleteFails PROVE KnownInv'
  BY <1>5, <1>p DEF DeleteFails, MayFail, KnownInv, Handling, Sending,
     Written, Creating
<1>6. ASSUME Before PROVE KnownInv'
  BY <1>6, <1>p DEF Before, KnownInv, Handling, Sending, Written, Creating
<1>7. ASSUME PreludeFails PROVE KnownInv'
  BY <1>7, <1>p DEF PreludeFails, MayFail, GiveUp, KnownInv, Handling,
     Sending, Written, Creating
<1>8. ASSUME NameRefused PROVE KnownInv'
  BY <1>8, <1>p DEF NameRefused, GiveUp, KnownInv, Handling, Sending,
     Written, Creating
<1>9. ASSUME StoredFails PROVE KnownInv'
  BY <1>9, <1>p DEF StoredFails, CallMayFail, MayFail, KnownInv, Handling,
     Sending, Written, Creating
<1>10. ASSUME Check PROVE KnownInv'
  BY <1>10, <1>p DEF Check, KnownInv, Handling, Sending, Written, Creating
<1>11. ASSUME CheckFails PROVE KnownInv'
  BY <1>11, <1>p DEF CheckFails, MayFail, GiveUp, KnownInv, Handling,
     Sending, Written, Creating
<1>12. ASSUME SendCreate PROVE KnownInv'
  BY <1>12, <1>p DEF SendCreate, KnownInv, Handling, Sending, Written,
     Creating
<1>13. ASSUME SendCreateFails PROVE KnownInv'
  BY <1>13, <1>p DEF SendCreateFails, MayFail, GiveUp, KnownInv, Handling,
     Sending, Written, Creating
<1>14. ASSUME SendUpdate PROVE KnownInv'
  BY <1>14, <1>p DEF SendUpdate, Write, KnownInv, Handling, Sending, Written,
     Creating
<1>15. ASSUME SendUpdateFails PROVE KnownInv'
  BY <1>15, <1>p DEF SendUpdateFails, CallMayFail, MayFail, Write, GiveUp,
     KnownInv, Handling, Sending, Written, Creating
<1>16. ASSUME Fetch PROVE KnownInv'
  BY <1>16, <1>p DEF Fetch, KnownInv, Handling, Sending, Written, Creating
<1>17. ASSUME FetchFails PROVE KnownInv'
  <2>1. CASE ~Creating
    BY <1>17, <2>1, <1>p DEF FetchFails, GiveUp, KnownInv, Handling, Written, Creating
  <2>2. CASE Creating
    <3>1. kind.wire.create # "record"
      BY <1>17, <2>2 DEF FetchFails, Fetches
    <3>2. Recording(kind) => ~known
      BY <1>17, <2>2, <3>1, KindParts DEF FetchFails, Recording, KnownInv
    <3> QED
      BY <1>17, <2>2, <3>2 DEF FetchFails, GiveUp, KnownInv, Creating, Recording
  <2> QED
    BY <2>1, <2>2
<1>18. ASSUME Follow PROVE KnownInv'
  BY <1>18, <1>p DEF Follow, WriteExtra, KnownInv, Handling, Sending,
     Written, Creating
<1>19. ASSUME FollowFails PROVE KnownInv'
  <2>1. Recording(kind) => kind.flow.onFail # "forget"
    BY <1>19 DEF FollowFails, Follows, Recording
  <2>2. Recording(kind) => state' # Absent \/ pc' = "back"
    BY <1>19, <2>1, <1>p, <1>k, <1>a
    DEF FollowFails, GiveUpWith, Handling, Written
  <2> QED
    BY <1>19, <2>2 DEF FollowFails, KnownInv, Written, Recording, GiveUp, GiveUpWith
<1>20. ASSUME Back PROVE KnownInv'
  BY <1>20, <1>p DEF Back, KnownInv, Handling, Sending, Written, Creating
<1>21. ASSUME BackFails PROVE KnownInv'
  <2>1. Creating /\ Recording(kind) => kind.flow.backFail # "forget"
    BY <1>21 DEF BackFails, ReadsBack, Recording
  <2>2. Recording(kind) => state' # Absent
    BY <1>21, <2>1, <1>p, <1>k, <1>a
    DEF BackFails, GiveUp, GiveUpWith, Handling, Written
  <2> QED
    BY <1>21, <2>2 DEF BackFails, KnownInv, Recording, GiveUp, GiveUpWith
<1>22. ASSUME Save PROVE KnownInv'
  BY <1>22, <1>p, <1>k, <1>a DEF Save, KnownInv, Handling, Sending, Written,
     Creating
<1>23. ASSUME Test PROVE KnownInv'
  BY <1>23, <1>p DEF Test, KnownInv, Handling, Sending, Written, Creating
<1>24. ASSUME TestFails PROVE KnownInv'
  BY <1>24, <1>p DEF TestFails, CallMayFail, MayFail, KnownInv, Handling,
     Sending, Written, Creating
<1>25. ASSUME Edit PROVE KnownInv'
  BY <1>25, <1>p DEF Edit, KnownInv, Handling, Sending, Written, Creating
<1>26. ASSUME OutsideChange PROVE KnownInv'
  BY <1>26, <1>p DEF OutsideChange, KnownInv, Handling, Sending, Written,
     Creating
<1>27. ASSUME OutsideDelete PROVE KnownInv'
  BY <1>27, <1>p DEF OutsideDelete, KnownInv, Handling, Sending, Written,
     Creating
<1>28. ASSUME UNCHANGED vars PROVE KnownInv'
  BY <1>28, <1>p DEF vars, KnownInv, Handling, Sending, Written, Creating
<1> QED
  BY <1>1, <1>2, <1>3, <1>4, <1>5, <1>6, <1>7, <1>8, <1>9, <1>10,
     <1>11, <1>12, <1>13, <1>14, <1>15, <1>16, <1>17, <1>18,
     <1>19, <1>20, <1>21, <1>22, <1>23, <1>24, <1>25, <1>26,
     <1>27, <1>28
  DEF Next

\* A handler of which no later call drops the id loses no record it was told
\* of, whichever of its calls fail.
THEOREM Recorded == Spec => []CreatedIsRecorded
<1>1. Init => KnownInv
  BY DEF Init, KnownInv
<1>2. TypeOK /\ PlaceInv /\ KnownInv /\ [Next]_vars => KnownInv'
  BY KnownStep
<1>3. KnownInv => CreatedIsRecorded
  BY DEF KnownInv, CreatedIsRecorded, Written
<1> QED
  BY BaseAlways, <1>1, <1>2, <1>3, PTL DEF Spec

-----------------------------------------------------------------------------
(* What passed the test is what is written. *)

LEMMA TestStep ==
  ASSUME TypeOK, PlaceInv, TestInv, [Next]_vars
  PROVE  TestInv'
<1>1. ASSUME Refresh PROVE TestInv'
  BY <1>1 DEF Refresh, TestInv, Tests, Meant
<1>2. ASSUME RefreshFails PROVE TestInv'
  BY <1>2 DEF RefreshFails, MayFail, TestInv, Tests, Meant
<1>3. ASSUME Plan PROVE TestInv'
  BY <1>3 DEF Plan, TestInv, Tests, Meant
<1>4. ASSUME Delete PROVE TestInv'
  BY <1>4 DEF Delete, TestInv, Tests, Meant
<1>5. ASSUME DeleteFails PROVE TestInv'
  BY <1>5 DEF DeleteFails, MayFail, TestInv, Tests, Meant
<1>6. ASSUME Before PROVE TestInv'
  BY <1>6 DEF Before, TestInv, Tests, Meant
<1>7. ASSUME PreludeFails PROVE TestInv'
  BY <1>7 DEF PreludeFails, MayFail, GiveUp, TestInv, Tests, Meant
<1>8. ASSUME NameRefused PROVE TestInv'
  BY <1>8 DEF NameRefused, GiveUp, TestInv, Tests, Meant
<1>9. ASSUME StoredFails PROVE TestInv'
  BY <1>9 DEF StoredFails, CallMayFail, MayFail, TestInv, Tests, Meant
<1>10. ASSUME Check PROVE TestInv'
  BY <1>10 DEF Check, TestInv, Tests, Meant
<1>11. ASSUME CheckFails PROVE TestInv'
  BY <1>11 DEF CheckFails, MayFail, GiveUp, TestInv, Tests, Meant
<1>12. ASSUME SendCreate PROVE TestInv'
  BY <1>12 DEF SendCreate, TestInv, Tests, Meant
<1>13. ASSUME SendCreateFails PROVE TestInv'
  BY <1>13 DEF SendCreateFails, MayFail, GiveUp, TestInv, Tests, Meant
<1>14. ASSUME SendUpdate PROVE TestInv'
  BY <1>14 DEF SendUpdate, Write, TestInv, Tests, Meant
<1>15. ASSUME SendUpdateFails PROVE TestInv'
  BY <1>15 DEF SendUpdateFails, CallMayFail, MayFail, Write, GiveUp, TestInv,
     Tests, Meant
<1>16. ASSUME Fetch PROVE TestInv'
  BY <1>16 DEF Fetch, TestInv, Tests, Meant
<1>17. ASSUME FetchFails PROVE TestInv'
  BY <1>17 DEF FetchFails, CallMayFail, MayFail, GiveUp, TestInv, Tests,
     Meant
<1>18. ASSUME Follow PROVE TestInv'
  BY <1>18 DEF Follow, WriteExtra, TestInv, Tests, Meant
<1>19. ASSUME FollowFails PROVE TestInv'
  BY <1>19 DEF FollowFails, CallMayFail, MayFail, WriteExtra, GiveUp,
     GiveUpWith, TestInv, Tests, Meant
<1>20. ASSUME Back PROVE TestInv'
  BY <1>20 DEF Back, TestInv, Tests, Meant
<1>21. ASSUME BackFails PROVE TestInv'
  BY <1>21 DEF BackFails, CallMayFail, MayFail, GiveUp, GiveUpWith, TestInv,
     Tests, Meant
<1>22. ASSUME Save PROVE TestInv'
  BY <1>22 DEF Save, TestInv, Tests, Meant
<1>23. ASSUME Test PROVE TestInv'
  BY <1>23 DEF Test, TestInv, Tests, Meant
<1>24. ASSUME TestFails PROVE TestInv'
  BY <1>24 DEF TestFails, CallMayFail, MayFail, TestInv, Tests, Meant
<1>25. ASSUME Edit PROVE TestInv'
  BY <1>25 DEF Edit, TestInv, Tests, Meant
<1>26. ASSUME OutsideChange PROVE TestInv'
  BY <1>26 DEF OutsideChange, TestInv, Tests, Meant
<1>27. ASSUME OutsideDelete PROVE TestInv'
  BY <1>27 DEF OutsideDelete, TestInv, Tests, Meant
<1>28. ASSUME UNCHANGED vars PROVE TestInv'
  BY <1>28 DEF vars, TestInv, Tests, Meant
<1> QED
  BY <1>1, <1>2, <1>3, <1>4, <1>5, <1>6, <1>7, <1>8, <1>9, <1>10,
     <1>11, <1>12, <1>13, <1>14, <1>15, <1>16, <1>17, <1>18,
     <1>19, <1>20, <1>21, <1>22, <1>23, <1>24, <1>25, <1>26,
     <1>27, <1>28
  DEF Next

\* With verify_connection nothing is written but what passed the test: the
\* resolved secret and the planned attributes, also on an update that resends
\* the stored secret.
THEOREM OnlyChecked == Spec => CheckedWrites
<1>1. Init => TestInv
  BY DEF Init, TestInv
<1>2. TypeOK /\ PlaceInv /\ TestInv /\ [Next]_vars => TestInv'
  BY TestStep
<1>3. TypeOK /\ PlaceInv /\ TestInv /\ [Next]_vars => [ChecksWrite]_vars
  <2> SUFFICES ASSUME TypeOK, PlaceInv, TestInv, Next, pc = "send",
                      server' # Absent, server' # server, ~meddled',
                      Tests("before")
               PROVE  passed = [main |-> server'.main, secret |-> server'.secret]
    BY DEF ChecksWrite
  <2>1. CASE SendCreate \/ SendCreateFails
    <3>1. server' = Made /\ ~meddled /\ sending # Mask /\ Creating
      BY <2>1, ConfigParts, SecretsAssumption
      DEF SendCreate, SendCreateFails, PlaceInv, Sending, TypeOK,
          SecretsAssumption
    <3> QED
      BY <3>1, MadeParts DEF TestInv, Meant
  <2>2. CASE SendUpdate \/ SendUpdateFails
    <3>1. server' = Updated /\ ~meddled /\ server # Absent /\ ~Creating
      BY <2>2 DEF SendUpdate, SendUpdateFails, Write
    <3> QED
      BY <3>1, UpdatedParts DEF TestInv, Meant
  <2>3. CASE OutsideChange \/ OutsideDelete
    BY <2>3 DEF OutsideChange, OutsideDelete
  <2> QED
    BY <2>1, <2>2, <2>3 DEF Next, Refresh, RefreshFails, Plan, Delete,
       DeleteFails, Before, PreludeFails, NameRefused, StoredFails, Check,
       CheckFails, Fetch, FetchFails, Follow, FollowFails, Back, BackFails,
       Save, Test, TestFails, Edit
<1> QED
  BY BaseAlways, <1>1, <1>2, <1>3, PTL DEF Spec, CheckedWrites

-----------------------------------------------------------------------------
(* An apply that ends well converges. *)

LEMMA ResultStep ==
  ASSUME TypeOK, ResultInv, [Next]_vars
  PROVE  ResultInv'
<1>1. ASSUME Refresh PROVE ResultInv'
  BY <1>1 DEF Refresh, ResultInv, Handling, Sending, Written
<1>2. ASSUME RefreshFails PROVE ResultInv'
  BY <1>2 DEF RefreshFails, MayFail, ResultInv, Handling, Sending, Written
<1>3. ASSUME Plan PROVE ResultInv'
  BY <1>3 DEF Plan, ResultInv, Handling, Sending, Written
<1>4. ASSUME Delete PROVE ResultInv'
  BY <1>4 DEF Delete, ResultInv, Handling, Sending, Written
<1>5. ASSUME DeleteFails PROVE ResultInv'
  BY <1>5 DEF DeleteFails, MayFail, ResultInv, Handling, Sending, Written
<1>6. ASSUME Before PROVE ResultInv'
  BY <1>6 DEF Before, ResultInv, Handling, Sending, Written
<1>7. ASSUME PreludeFails PROVE ResultInv'
  BY <1>7 DEF PreludeFails, MayFail, GiveUp, ResultInv, Handling, Sending,
     Written
<1>8. ASSUME NameRefused PROVE ResultInv'
  BY <1>8 DEF NameRefused, GiveUp, ResultInv, Handling, Sending, Written
<1>9. ASSUME StoredFails PROVE ResultInv'
  BY <1>9 DEF StoredFails, CallMayFail, MayFail, ResultInv, Handling,
     Sending, Written
<1>10. ASSUME Check PROVE ResultInv'
  BY <1>10 DEF Check, ResultInv, Handling, Sending, Written
<1>11. ASSUME CheckFails PROVE ResultInv'
  BY <1>11 DEF CheckFails, MayFail, GiveUp, ResultInv, Handling, Sending,
     Written
<1>12. ASSUME SendCreate PROVE ResultInv'
  BY <1>12 DEF SendCreate, ResultInv, Handling, Sending, Written
<1>13. ASSUME SendCreateFails PROVE ResultInv'
  BY <1>13 DEF SendCreateFails, MayFail, GiveUp, ResultInv, Handling,
     Sending, Written
<1>14. ASSUME SendUpdate PROVE ResultInv'
  BY <1>14 DEF SendUpdate, Write, ResultInv, Handling, Sending, Written
<1>15. ASSUME SendUpdateFails PROVE ResultInv'
  BY <1>15 DEF SendUpdateFails, CallMayFail, MayFail, Write, GiveUp,
     ResultInv, Handling, Sending, Written
<1>16. ASSUME Fetch PROVE ResultInv'
  BY <1>16 DEF Fetch, ResultInv, Handling, Sending, Written
<1>17. ASSUME FetchFails PROVE ResultInv'
  BY <1>17 DEF FetchFails, CallMayFail, MayFail, GiveUp, ResultInv, Handling,
     Sending, Written
<1>18. ASSUME Follow PROVE ResultInv'
  BY <1>18 DEF Follow, WriteExtra, ResultInv, Handling, Sending, Written
<1>19. ASSUME FollowFails PROVE ResultInv'
  BY <1>19 DEF FollowFails, CallMayFail, MayFail, WriteExtra, GiveUp,
     GiveUpWith, ResultInv, Handling, Sending, Written
<1>20. ASSUME Back PROVE ResultInv'
  BY <1>20 DEF Back, ResultInv, Handling, Sending, Written
<1>21. ASSUME BackFails PROVE ResultInv'
  BY <1>21 DEF BackFails, CallMayFail, MayFail, GiveUp, GiveUpWith,
     ResultInv, Handling, Sending, Written
<1>22. ASSUME Save PROVE ResultInv'
  BY <1>22 DEF Save, ResultInv, Handling, Sending, Written
<1>23. ASSUME Test PROVE ResultInv'
  BY <1>23 DEF Test, ResultInv, Handling, Sending, Written
<1>24. ASSUME TestFails PROVE ResultInv'
  BY <1>24 DEF TestFails, CallMayFail, MayFail, ResultInv, Handling, Sending,
     Written
<1>25. ASSUME Edit PROVE ResultInv'
  BY <1>25 DEF Edit, ResultInv, Handling, Sending, Written
<1>26. ASSUME OutsideChange PROVE ResultInv'
  BY <1>26 DEF OutsideChange, ResultInv, Handling, Sending, Written
<1>27. ASSUME OutsideDelete PROVE ResultInv'
  BY <1>27 DEF OutsideDelete, ResultInv, Handling, Sending, Written
<1>28. ASSUME UNCHANGED vars PROVE ResultInv'
  BY <1>28 DEF vars, ResultInv, Handling, Sending, Written
<1> QED
  BY <1>1, <1>2, <1>3, <1>4, <1>5, <1>6, <1>7, <1>8, <1>9, <1>10,
     <1>11, <1>12, <1>13, <1>14, <1>15, <1>16, <1>17, <1>18,
     <1>19, <1>20, <1>21, <1>22, <1>23, <1>24, <1>25, <1>26,
     <1>27, <1>28
  DEF Next

\* What an edit makes of the secret: all of it stays, or the version is new.
LEMMA EditParts ==
  ASSUME TypeOK, Edit
  PROVE  /\ config' \in Configs(kind)
         /\ \/ /\ config'.version = config.version /\ config'.form = config.form
               /\ config'.secret = config.secret
            \/ config'.version \in {0, edits + 2}
         /\ config'.version > 0 <=> config'.form = "companion"
         /\ config'.version > 0 => HasSecret(kind)
<1>1. PICK c \in Configs(kind) : Edited(c) /\ config' = c
  BY DEF Edit
<1>2. config \in Configs(kind)
  BY DEF TypeOK
<1>3. \/ c.version = config.version /\ c.form = config.form /\ c.secret = config.secret
      \/ c.form = "companion" => c.version = edits + 2
  <2> DEFINE Same(d, e) == /\ e.version = d.version /\ e.form = d.form
                           /\ e.secret = d.secret
  <2>1. ASSUME NEW d \in Configs(kind), NEW e
        PROVE  /\ e = [d EXCEPT !.main = e.main] => Same(d, e)
               /\ e = [d EXCEPT !.extra = e.extra] => Same(d, e)
               /\ e = [d EXCEPT !.verify = e.verify] => Same(d, e)
    BY DEF Configs
  <2> HIDE DEF Same
  <2>2. \/ c = [config EXCEPT !.main = c.main]
        \/ c = [config EXCEPT !.extra = c.extra]
        \/ c = [config EXCEPT !.verify = c.verify]
        => Same(config, c)
    BY <1>2, <2>1, Zenon
  <2>3. \/ c = [config EXCEPT !.main = c.main]
        \/ c = [config EXCEPT !.extra = c.extra]
        \/ c = [config EXCEPT !.verify = c.verify]
        \/ c.form = "companion" => c.version = edits + 2
    BY <1>1, Zenon DEF Edited
  <2> QED
    BY <2>2, <2>3, Zenon DEF Same
<1>4. /\ c.version \in 0 .. MaxEdits + 1 /\ c.form \in {"plain", "companion"}
      /\ c.version > 0 <=> c.form = "companion"
      /\ c.form = "companion" => HasSecret(kind)
  BY <1>1, ConfigParts
<1> QED
  BY <1>1, <1>3, <1>4, BoundsAssumption DEF BoundsAssumption

LEMMA VersionStep ==
  ASSUME TypeOK, PlaceInv, VersionInv, [Next]_vars
  PROVE  VersionInv'
<1>t. /\ edits \in Nat /\ config.version \in Nat
      /\ state # Absent => state.version \in Nat
  BY ConfigParts, StateParts, BoundsAssumption DEF TypeOK, BoundsAssumption
<1>k. Written => /\ Kept.version = config.version
                 /\ [Kept EXCEPT !.extra = Default].version = config.version
  BY KeptParts, BlankParts DEF PlaceInv
<1>1. ASSUME Refresh PROVE VersionInv'
  BY <1>1, <1>t, FlattenParts DEF Refresh, VersionInv
<1>2. ASSUME RefreshFails PROVE VersionInv'
  BY <1>2, <1>t DEF RefreshFails, MayFail, VersionInv
<1>3. ASSUME Plan PROVE VersionInv'
  BY <1>3, <1>t DEF Plan, VersionInv
<1>4. ASSUME Delete PROVE VersionInv'
  BY <1>4, <1>t DEF Delete, VersionInv
<1>5. ASSUME DeleteFails PROVE VersionInv'
  BY <1>5, <1>t DEF DeleteFails, MayFail, VersionInv
<1>6. ASSUME Before PROVE VersionInv'
  BY <1>6, <1>t DEF Before, VersionInv
<1>7. ASSUME PreludeFails PROVE VersionInv'
  BY <1>7, <1>t DEF PreludeFails, MayFail, GiveUp, VersionInv
<1>8. ASSUME NameRefused PROVE VersionInv'
  BY <1>8, <1>t DEF NameRefused, GiveUp, VersionInv
<1>9. ASSUME StoredFails PROVE VersionInv'
  BY <1>9, <1>t DEF StoredFails, CallMayFail, MayFail, VersionInv
<1>10. ASSUME Check PROVE VersionInv'
  BY <1>10, <1>t DEF Check, VersionInv
<1>11. ASSUME CheckFails PROVE VersionInv'
  BY <1>11, <1>t DEF CheckFails, MayFail, GiveUp, VersionInv
<1>12. ASSUME SendCreate PROVE VersionInv'
  BY <1>12, <1>t DEF SendCreate, VersionInv
<1>13. ASSUME SendCreateFails PROVE VersionInv'
  BY <1>13, <1>t DEF SendCreateFails, MayFail, GiveUp, VersionInv
<1>14. ASSUME SendUpdate PROVE VersionInv'
  BY <1>14, <1>t DEF SendUpdate, Write, VersionInv
<1>15. ASSUME SendUpdateFails PROVE VersionInv'
  BY <1>15, <1>t DEF SendUpdateFails, CallMayFail, MayFail, Write, GiveUp,
     VersionInv
<1>16. ASSUME Fetch PROVE VersionInv'
  BY <1>16, <1>t DEF Fetch, VersionInv
<1>17. ASSUME FetchFails PROVE VersionInv'
  BY <1>17, <1>t DEF FetchFails, CallMayFail, MayFail, GiveUp, VersionInv
<1>18. ASSUME Follow PROVE VersionInv'
  BY <1>18, <1>t DEF Follow, WriteExtra, VersionInv
<1>19. ASSUME FollowFails PROVE VersionInv'
  BY <1>19, <1>t, <1>k DEF FollowFails, CallMayFail, MayFail, WriteExtra,
     GiveUp, GiveUpWith, Written, VersionInv
<1>20. ASSUME Back PROVE VersionInv'
  BY <1>20, <1>t DEF Back, VersionInv
<1>21. ASSUME BackFails PROVE VersionInv'
  BY <1>21, <1>t, <1>k DEF BackFails, CallMayFail, MayFail, GiveUp,
     GiveUpWith, Written, VersionInv
<1>22. ASSUME Save PROVE VersionInv'
  BY <1>22, <1>t, <1>k DEF Save, Written, VersionInv
<1>23. ASSUME Test PROVE VersionInv'
  BY <1>23, <1>t DEF Test, VersionInv
<1>24. ASSUME TestFails PROVE VersionInv'
  BY <1>24, <1>t DEF TestFails, CallMayFail, MayFail, VersionInv
<1>25. ASSUME Edit PROVE VersionInv'
  <2>1. config'.version \in {config.version, 0, edits + 2} /\ edits' = edits + 1
    BY <1>25, EditParts DEF Edit
  <2> QED
    BY <1>25, <2>1, <1>t DEF Edit, VersionInv
<1>26. ASSUME OutsideChange PROVE VersionInv'
  BY <1>26, <1>t DEF OutsideChange, VersionInv
<1>27. ASSUME OutsideDelete PROVE VersionInv'
  BY <1>27, <1>t DEF OutsideDelete, VersionInv
<1>28. ASSUME UNCHANGED vars PROVE VersionInv'
  BY <1>28, <1>t DEF vars, VersionInv
<1> QED
  BY <1>1, <1>2, <1>3, <1>4, <1>5, <1>6, <1>7, <1>8, <1>9, <1>10,
     <1>11, <1>12, <1>13, <1>14, <1>15, <1>16, <1>17, <1>18,
     <1>19, <1>20, <1>21, <1>22, <1>23, <1>24, <1>25, <1>26,
     <1>27, <1>28
  DEF Next

LEMMA KindStep ==
  ASSUME TypeOK, PlaceInv, KindInv, [Next]_vars
  PROVE  KindInv'
<1> USE SecretsAssumption, ExtraAssumption DEF SecretsAssumption, ExtraAssumption
<1>c. /\ config \in Configs(kind)
      /\ ~HasSecret(kind) => config.secret = Null /\ Plain(config) = Null
      /\ ~HasSecret(kind) => kind.wire.secret = "none"
  BY ConfigParts DEF TypeOK, Plain, HasSecret
<1>k. Written /\ ~HasSecret(kind) =>
        /\ Kept.secret = Null
        /\ [Kept EXCEPT !.extra = Default].secret = Null
  BY KeptParts, BlankParts, <1>c DEF PlaceInv
<1>f. Follows /\ Written /\ WriteExtra =>
        /\ server # Absent /\ server'.secret = server.secret
        /\ server'.extra \in {Default, Other}
  BY FollowParts DEF PlaceInv
<1>x. kind.flow.extra # "none" => {Default, Other} \subseteq ExtraOf(kind)
  BY DEF ExtraOf
<1>m. /\ Made.extra = Default /\ Made.secret = sending
      /\ Default \in ExtraOf(kind)
  BY MadeParts DEF ExtraOf
<1>u. ~Creating /\ server # Absent /\ Sending =>
        /\ ~HasSecret(kind) => Updated.secret = Null
        /\ Updated.extra \in ExtraOf(kind)
  <2> SUFFICES ASSUME ~Creating, server # Absent, Sending
               PROVE  /\ ~HasSecret(kind) => Updated.secret = Null
                      /\ Updated.extra \in ExtraOf(kind)
    OBVIOUS
  <2>1. Planned.extra \in {Default, Other}
    BY PlannedParts DEF Planned, Creating, TypeOK
  <2> QED
    BY <2>1, <1>x, UpdatedParts DEF KindInv
<1>1. ASSUME Refresh PROVE KindInv'
  BY <1>1, <1>c, FlattenParts DEF Refresh, KindInv, Sending, Written
<1>2. ASSUME RefreshFails PROVE KindInv'
  BY <1>2 DEF RefreshFails, MayFail, KindInv, Sending, Written
<1>3. ASSUME Plan PROVE KindInv'
  BY <1>3 DEF Plan, KindInv, Sending, Written
<1>4. ASSUME Delete PROVE KindInv'
  BY <1>4 DEF Delete, KindInv, Sending, Written
<1>5. ASSUME DeleteFails PROVE KindInv'
  BY <1>5 DEF DeleteFails, MayFail, KindInv, Sending, Written
<1>6. ASSUME Before PROVE KindInv'
  BY <1>6 DEF Before, SecretToSend, KindInv, Sending, Written
<1>7. ASSUME PreludeFails PROVE KindInv'
  BY <1>7 DEF PreludeFails, MayFail, GiveUp, KindInv, Sending, Written
<1>8. ASSUME NameRefused PROVE KindInv'
  BY <1>8 DEF NameRefused, GiveUp, KindInv, Sending, Written
<1>9. ASSUME StoredFails PROVE KindInv'
  BY <1>9 DEF StoredFails, CallMayFail, MayFail, KindInv, Sending, Written
<1>10. ASSUME Check PROVE KindInv'
  BY <1>10 DEF Check, KindInv, Sending, Written
<1>11. ASSUME CheckFails PROVE KindInv'
  BY <1>11 DEF CheckFails, MayFail, GiveUp, KindInv, Sending, Written
<1>12. ASSUME SendCreate PROVE KindInv'
  BY <1>12, <1>m DEF SendCreate, KindInv, Sending, Written
<1>13. ASSUME SendCreateFails PROVE KindInv'
  BY <1>13, <1>m DEF SendCreateFails, MayFail, GiveUp, KindInv, Sending,
     Written
<1>14. ASSUME SendUpdate PROVE KindInv'
  BY <1>14, <1>u DEF SendUpdate, Write, KindInv, Sending, Written
<1>15. ASSUME SendUpdateFails PROVE KindInv'
  BY <1>15, <1>u DEF SendUpdateFails, CallMayFail, MayFail, Write, GiveUp,
     KindInv, Sending, Written
<1>16. ASSUME Fetch PROVE KindInv'
  BY <1>16 DEF Fetch, KindInv, Sending, Written
<1>17. ASSUME FetchFails PROVE KindInv'
  BY <1>17 DEF FetchFails, CallMayFail, MayFail, GiveUp, KindInv, Sending,
     Written
<1>18. ASSUME Follow PROVE KindInv'
  <2>1. CASE Follows
    BY <1>18, <2>1, <1>f, <1>x DEF Follow, Follows, KindInv, Sending, Written
  <2>2. CASE ~Follows
    BY <1>18, <2>2 DEF Follow, KindInv, Sending
  <2> QED
    BY <2>1, <2>2
<1>19. ASSUME FollowFails PROVE KindInv'
  <2>1. server' # Absent =>
          /\ ~HasSecret(kind) => server'.secret = Null
          /\ server'.extra \in ExtraOf(kind)
    BY <1>19, <1>f, <1>x DEF FollowFails, Follows, KindInv, Written
  <2>2. ~HasSecret(kind) /\ state' # Absent => state'.secret = Null
    BY <1>19, <1>k DEF FollowFails, GiveUp, GiveUpWith, KindInv, Written
  <2>3. ~Sending' /\ kind' = kind
    BY <1>19 DEF FollowFails, GiveUp, GiveUpWith, Sending
  <2> QED
    BY <2>1, <2>2, <2>3 DEF KindInv, HasSecret, ExtraOf
<1>20. ASSUME Back PROVE KindInv'
  BY <1>20 DEF Back, KindInv, Sending, Written
<1>21. ASSUME BackFails PROVE KindInv'
  BY <1>21, <1>k DEF BackFails, CallMayFail, MayFail, GiveUp, GiveUpWith,
     KindInv, Sending, Written
<1>22. ASSUME Save PROVE KindInv'
  BY <1>22, <1>k DEF Save, KindInv, Sending, Written
<1>23. ASSUME Test PROVE KindInv'
  BY <1>23 DEF Test, KindInv, Sending, Written
<1>24. ASSUME TestFails PROVE KindInv'
  BY <1>24 DEF TestFails, CallMayFail, MayFail, KindInv, Sending, Written
<1>25. ASSUME Edit PROVE KindInv'
  BY <1>25 DEF Edit, KindInv, Sending, Written
<1>26. ASSUME OutsideChange PROVE KindInv'
  <2>1. /\ ~HasSecret(kind) => server'.secret = Null
        /\ server'.extra \in ExtraOf(kind)
    BY <1>26 DEF OutsideChange, Stored, KindInv
  <2> QED
    BY <1>26, <2>1 DEF OutsideChange, KindInv, Sending
<1>27. ASSUME OutsideDelete PROVE KindInv'
  BY <1>27 DEF OutsideDelete, KindInv, Sending, Written
<1>28. ASSUME UNCHANGED vars PROVE KindInv'
  BY <1>28 DEF vars, KindInv, Sending, Written
<1> QED
  BY <1>1, <1>2, <1>3, <1>4, <1>5, <1>6, <1>7, <1>8, <1>9, <1>10,
     <1>11, <1>12, <1>13, <1>14, <1>15, <1>16, <1>17, <1>18,
     <1>19, <1>20, <1>21, <1>22, <1>23, <1>24, <1>25, <1>26,
     <1>27, <1>28
  DEF Next

LEMMA InUseStep ==
  ASSUME TypeOK, PlaceInv, VersionInv, InUseInv, [Next]_vars
  PROVE  InUseInv'
<1>t. /\ edits \in Nat /\ config.version \in Nat
      /\ state # Absent => state.version \in Nat
      /\ config.version > 0 <=> config.form = "companion"
  BY ConfigParts, StateParts, BoundsAssumption DEF TypeOK, BoundsAssumption
<1>p. Handling \/ pc = "delete" => (Creating <=> state = Absent)
  BY DEF PlaceInv, Creating
<1>k. Written => /\ Kept.version = config.version
                 /\ [Kept EXCEPT !.extra = Default].version = config.version
  BY KeptParts, BlankParts DEF PlaceInv
<1>1. ASSUME Refresh PROVE InUseInv'
  BY <1>1, <1>t, FlattenParts DEF Refresh, InUseInv, InUse, Sending, Written,
     Handling
<1>2. ASSUME RefreshFails PROVE InUseInv'
  BY <1>2, <1>t, <1>p DEF RefreshFails, MayFail, InUseInv, InUse, Sending,
     Written, Handling
<1>3. ASSUME Plan PROVE InUseInv'
  BY <1>3, <1>t, <1>p DEF Plan, InUseInv, InUse, Sending, Written, Handling
<1>4. ASSUME Delete PROVE InUseInv'
  BY <1>4, <1>t, <1>p DEF Delete, InUseInv, InUse, Sending, Written, Handling
<1>5. ASSUME DeleteFails PROVE InUseInv'
  BY <1>5, <1>t, <1>p DEF DeleteFails, MayFail, InUseInv, InUse, Sending,
     Written, Handling
<1>6. ASSUME Before PROVE InUseInv'
  BY <1>6, <1>t, <1>p DEF Before, InUseInv, InUse, Sending, Written, Handling
<1>7. ASSUME PreludeFails PROVE InUseInv'
  BY <1>7, <1>t, <1>p DEF PreludeFails, MayFail, GiveUp, InUseInv, InUse,
     Sending, Written, Handling
<1>8. ASSUME NameRefused PROVE InUseInv'
  BY <1>8, <1>t, <1>p DEF NameRefused, GiveUp, InUseInv, InUse, Sending,
     Written, Handling
<1>9. ASSUME StoredFails PROVE InUseInv'
  BY <1>9, <1>t, <1>p DEF StoredFails, CallMayFail, MayFail, InUseInv, InUse,
     Sending, Written, Handling
<1>10. ASSUME Check PROVE InUseInv'
  BY <1>10, <1>t, <1>p DEF Check, InUseInv, InUse, Sending, Written, Handling
<1>11. ASSUME CheckFails PROVE InUseInv'
  BY <1>11, <1>t, <1>p DEF CheckFails, MayFail, GiveUp, InUseInv, InUse,
     Sending, Written, Handling
<1>12. ASSUME SendCreate PROVE InUseInv'
  BY <1>12, <1>t, <1>p DEF SendCreate, InUseInv, InUse, Sending, Written,
     Handling
<1>13. ASSUME SendCreateFails PROVE InUseInv'
  BY <1>13, <1>t, <1>p DEF SendCreateFails, MayFail, GiveUp, InUseInv, InUse,
     Sending, Written, Handling
<1>14. ASSUME SendUpdate PROVE InUseInv'
  BY <1>14, <1>t, <1>p DEF SendUpdate, Write, InUseInv, InUse, Sending,
     Written, Handling
<1>15. ASSUME SendUpdateFails PROVE InUseInv'
  BY <1>15, <1>t, <1>p DEF SendUpdateFails, CallMayFail, MayFail, Write,
     GiveUp, InUseInv, InUse, Sending, Written, Handling
<1>16. ASSUME Fetch PROVE InUseInv'
  BY <1>16, <1>t, <1>p DEF Fetch, InUseInv, InUse, Sending, Written, Handling
<1>17. ASSUME FetchFails PROVE InUseInv'
  BY <1>17, <1>t, <1>p DEF FetchFails, CallMayFail, MayFail, GiveUp,
     InUseInv, InUse, Sending, Written, Handling
<1>18. ASSUME Follow PROVE InUseInv'
  BY <1>18, <1>t, <1>p DEF Follow, WriteExtra, InUseInv, InUse, Sending,
     Written, Handling
<1>19. ASSUME FollowFails PROVE InUseInv'
  BY <1>19, <1>t, <1>p, <1>k DEF FollowFails, CallMayFail, MayFail,
     WriteExtra, GiveUp, GiveUpWith, InUseInv, InUse, Sending, Written,
     Handling
<1>20. ASSUME Back PROVE InUseInv'
  BY <1>20, <1>t, <1>p DEF Back, InUseInv, InUse, Sending, Written, Handling
<1>21. ASSUME BackFails PROVE InUseInv'
  BY <1>21, <1>t, <1>p, <1>k DEF BackFails, CallMayFail, MayFail, GiveUp,
     GiveUpWith, InUseInv, InUse, Sending, Written, Handling
<1>22. ASSUME Save PROVE InUseInv'
  BY <1>22, <1>t, <1>k DEF Save, InUseInv, InUse, Sending, Written, Handling
<1>23. ASSUME Test PROVE InUseInv'
  BY <1>23, <1>t, <1>p DEF Test, InUseInv, InUse, Sending, Written, Handling
<1>24. ASSUME TestFails PROVE InUseInv'
  BY <1>24, <1>t, <1>p DEF TestFails, CallMayFail, MayFail, InUseInv, InUse,
     Sending, Written, Handling
<1>25. ASSUME Edit PROVE InUseInv'
  <2>1. config'.version \in {config.version, 0, edits + 2}
    BY <1>25, EditParts DEF Edit
  <2>2. state # Absent => state.version <= edits + 1
    BY DEF VersionInv
  <2>3. /\ state' = state /\ flag' = flag /\ kind' = kind
        /\ ~Sending' /\ ~Written'
    BY <1>25 DEF Edit, Sending, Written
  <2>4. (state # Absent /\ state.version = config'.version /\ config'.version > 0)
          => config'.version = config.version
    BY <2>1, <2>2, <1>t
  <2> QED
    BY <2>3, <2>4 DEF InUseInv
<1>26. ASSUME OutsideChange PROVE InUseInv'
  BY <1>26, <1>t, <1>p DEF OutsideChange, InUseInv, InUse, Sending, Written,
     Handling
<1>27. ASSUME OutsideDelete PROVE InUseInv'
  BY <1>27, <1>t, <1>p DEF OutsideDelete, InUseInv, InUse, Sending, Written,
     Handling
<1>28. ASSUME UNCHANGED vars PROVE InUseInv'
  BY <1>28, <1>t, <1>p DEF vars, InUseInv, InUse, Sending, Written, Handling
<1> QED
  BY <1>1, <1>2, <1>3, <1>4, <1>5, <1>6, <1>7, <1>8, <1>9, <1>10,
     <1>11, <1>12, <1>13, <1>14, <1>15, <1>16, <1>17, <1>18,
     <1>19, <1>20, <1>21, <1>22, <1>23, <1>24, <1>25, <1>26,
     <1>27, <1>28
  DEF Next

LEMMA RefreshedStep ==
  ASSUME TypeOK, PlaceInv, RefreshedInv, [Next]_vars
  PROVE  RefreshedInv'
<1>p. Creating /\ (Handling \/ pc = "delete") => state = Absent
  BY DEF PlaceInv, Creating
<1>1. ASSUME Refresh PROVE RefreshedInv'
  BY <1>1, FlattenParts DEF Refresh, RefreshedInv, Sending, Handling
<1>2. ASSUME RefreshFails PROVE RefreshedInv'
  BY <1>2, <1>p DEF RefreshFails, MayFail, RefreshedInv, Sending, Handling
<1>3. ASSUME Plan PROVE RefreshedInv'
  BY <1>3, <1>p DEF Plan, RefreshedInv, Sending, Handling
<1>4. ASSUME Delete PROVE RefreshedInv'
  BY <1>4, <1>p DEF Delete, RefreshedInv, Sending, Handling
<1>5. ASSUME DeleteFails PROVE RefreshedInv'
  BY <1>5, <1>p DEF DeleteFails, MayFail, RefreshedInv, Sending, Handling
<1>6. ASSUME Before PROVE RefreshedInv'
  BY <1>6, <1>p DEF Before, RefreshedInv, Sending, Handling
<1>7. ASSUME PreludeFails PROVE RefreshedInv'
  BY <1>7, <1>p DEF PreludeFails, MayFail, GiveUp, RefreshedInv, Sending,
     Handling
<1>8. ASSUME NameRefused PROVE RefreshedInv'
  BY <1>8, <1>p DEF NameRefused, GiveUp, RefreshedInv, Sending, Handling
<1>9. ASSUME StoredFails PROVE RefreshedInv'
  BY <1>9, <1>p DEF StoredFails, CallMayFail, MayFail, RefreshedInv, Sending,
     Handling
<1>10. ASSUME Check PROVE RefreshedInv'
  BY <1>10, <1>p DEF Check, RefreshedInv, Sending, Handling
<1>11. ASSUME CheckFails PROVE RefreshedInv'
  BY <1>11, <1>p DEF CheckFails, MayFail, GiveUp, RefreshedInv, Sending,
     Handling
<1>12. ASSUME SendCreate PROVE RefreshedInv'
  BY <1>12, <1>p DEF SendCreate, RefreshedInv, Sending, Handling
<1>13. ASSUME SendCreateFails PROVE RefreshedInv'
  BY <1>13, <1>p DEF SendCreateFails, MayFail, GiveUp, RefreshedInv, Sending,
     Handling
<1>14. ASSUME SendUpdate PROVE RefreshedInv'
  BY <1>14, <1>p DEF SendUpdate, Write, RefreshedInv, Sending, Handling
<1>15. ASSUME SendUpdateFails PROVE RefreshedInv'
  BY <1>15, <1>p DEF SendUpdateFails, CallMayFail, MayFail, Write, GiveUp,
     RefreshedInv, Sending, Handling
<1>16. ASSUME Fetch PROVE RefreshedInv'
  BY <1>16, <1>p DEF Fetch, RefreshedInv, Sending, Handling
<1>17. ASSUME FetchFails PROVE RefreshedInv'
  BY <1>17, <1>p DEF FetchFails, CallMayFail, MayFail, GiveUp, RefreshedInv,
     Sending, Handling
<1>18. ASSUME Follow PROVE RefreshedInv'
  BY <1>18, <1>p DEF Follow, WriteExtra, RefreshedInv, Sending, Handling
<1>19. ASSUME FollowFails PROVE RefreshedInv'
  BY <1>19, <1>p DEF FollowFails, CallMayFail, MayFail, WriteExtra, GiveUp,
     GiveUpWith, RefreshedInv, Sending, Handling
<1>20. ASSUME Back PROVE RefreshedInv'
  BY <1>20, <1>p DEF Back, RefreshedInv, Sending, Handling
<1>21. ASSUME BackFails PROVE RefreshedInv'
  BY <1>21, <1>p DEF BackFails, CallMayFail, MayFail, GiveUp, GiveUpWith,
     RefreshedInv, Sending, Handling
<1>22. ASSUME Save PROVE RefreshedInv'
  BY <1>22, <1>p DEF Save, RefreshedInv, Sending, Handling
<1>23. ASSUME Test PROVE RefreshedInv'
  BY <1>23, <1>p DEF Test, RefreshedInv, Sending, Handling
<1>24. ASSUME TestFails PROVE RefreshedInv'
  BY <1>24, <1>p DEF TestFails, CallMayFail, MayFail, RefreshedInv, Sending,
     Handling
<1>25. ASSUME Edit PROVE RefreshedInv'
  BY <1>25, <1>p DEF Edit, RefreshedInv, Sending, Handling
<1>26. ASSUME OutsideChange PROVE RefreshedInv'
  BY <1>26, <1>p DEF OutsideChange, RefreshedInv, Sending, Handling
<1>27. ASSUME OutsideDelete PROVE RefreshedInv'
  BY <1>27, <1>p DEF OutsideDelete, RefreshedInv, Sending, Handling
<1>28. ASSUME UNCHANGED vars PROVE RefreshedInv'
  BY <1>28, <1>p DEF vars, RefreshedInv, Sending, Handling
<1> QED
  BY <1>1, <1>2, <1>3, <1>4, <1>5, <1>6, <1>7, <1>8, <1>9, <1>10,
     <1>11, <1>12, <1>13, <1>14, <1>15, <1>16, <1>17, <1>18,
     <1>19, <1>20, <1>21, <1>22, <1>23, <1>24, <1>25, <1>26,
     <1>27, <1>28
  DEF Next

LEMMA InPlaceStep ==
  ASSUME TypeOK, InPlaceInv, [Next]_vars
  PROVE  InPlaceInv'
<1>1. ASSUME Refresh PROVE InPlaceInv'
  BY <1>1 DEF Refresh, InPlaceInv, Sending, Written, Handling, Creating,
     Plain
<1>2. ASSUME RefreshFails PROVE InPlaceInv'
  BY <1>2 DEF RefreshFails, MayFail, InPlaceInv, Sending, Written, Handling,
     Creating, Plain
<1>3. ASSUME Plan PROVE InPlaceInv'
  <2>1. /\ pc = "plan" /\ pc' = "before" /\ state # Absent
           /\ kind.schema.replaces = "secret"
           => state.secret = Plain(config) /\ state.version = config.version
    BY <1>3, PlannedParts DEF Plan, MustReplace, TypeOK
  <2> QED
    BY <1>3, <2>1 DEF Plan, InPlaceInv, Handling, Sending, Written, Creating, Plain
<1>4. ASSUME Delete PROVE InPlaceInv'
  BY <1>4 DEF Delete, InPlaceInv, Sending, Written, Handling, Creating, Plain
<1>5. ASSUME DeleteFails PROVE InPlaceInv'
  BY <1>5 DEF DeleteFails, MayFail, InPlaceInv, Sending, Written, Handling,
     Creating, Plain
<1>6. ASSUME Before PROVE InPlaceInv'
  BY <1>6 DEF Before, InPlaceInv, Sending, Written, Handling, Creating, Plain
<1>7. ASSUME PreludeFails PROVE InPlaceInv'
  BY <1>7 DEF PreludeFails, MayFail, GiveUp, InPlaceInv, Sending, Written,
     Handling, Creating, Plain
<1>8. ASSUME NameRefused PROVE InPlaceInv'
  BY <1>8 DEF NameRefused, GiveUp, InPlaceInv, Sending, Written, Handling,
     Creating, Plain
<1>9. ASSUME StoredFails PROVE InPlaceInv'
  BY <1>9 DEF StoredFails, CallMayFail, MayFail, InPlaceInv, Sending,
     Written, Handling, Creating, Plain
<1>10. ASSUME Check PROVE InPlaceInv'
  BY <1>10 DEF Check, InPlaceInv, Sending, Written, Handling, Creating, Plain
<1>11. ASSUME CheckFails PROVE InPlaceInv'
  BY <1>11 DEF CheckFails, MayFail, GiveUp, InPlaceInv, Sending, Written,
     Handling, Creating, Plain
<1>12. ASSUME SendCreate PROVE InPlaceInv'
  BY <1>12 DEF SendCreate, InPlaceInv, Sending, Written, Handling, Creating,
     Plain
<1>13. ASSUME SendCreateFails PROVE InPlaceInv'
  BY <1>13 DEF SendCreateFails, MayFail, GiveUp, InPlaceInv, Sending,
     Written, Handling, Creating, Plain
<1>14. ASSUME SendUpdate PROVE InPlaceInv'
  BY <1>14 DEF SendUpdate, Write, InPlaceInv, Sending, Written, Handling,
     Creating, Plain
<1>15. ASSUME SendUpdateFails PROVE InPlaceInv'
  BY <1>15 DEF SendUpdateFails, CallMayFail, MayFail, Write, GiveUp,
     InPlaceInv, Sending, Written, Handling, Creating, Plain
<1>16. ASSUME Fetch PROVE InPlaceInv'
  BY <1>16 DEF Fetch, InPlaceInv, Sending, Written, Handling, Creating, Plain
<1>17. ASSUME FetchFails PROVE InPlaceInv'
  BY <1>17 DEF FetchFails, CallMayFail, MayFail, GiveUp, InPlaceInv, Sending,
     Written, Handling, Creating, Plain
<1>18. ASSUME Follow PROVE InPlaceInv'
  BY <1>18 DEF Follow, WriteExtra, InPlaceInv, Sending, Written, Handling,
     Creating, Plain
<1>19. ASSUME FollowFails PROVE InPlaceInv'
  BY <1>19 DEF FollowFails, CallMayFail, MayFail, WriteExtra, GiveUp,
     GiveUpWith, InPlaceInv, Sending, Written, Handling, Creating, Plain
<1>20. ASSUME Back PROVE InPlaceInv'
  BY <1>20 DEF Back, InPlaceInv, Sending, Written, Handling, Creating, Plain
<1>21. ASSUME BackFails PROVE InPlaceInv'
  BY <1>21 DEF BackFails, CallMayFail, MayFail, GiveUp, GiveUpWith,
     InPlaceInv, Sending, Written, Handling, Creating, Plain
<1>22. ASSUME Save PROVE InPlaceInv'
  BY <1>22 DEF Save, InPlaceInv, Sending, Written, Handling, Creating, Plain
<1>23. ASSUME Test PROVE InPlaceInv'
  BY <1>23 DEF Test, InPlaceInv, Sending, Written, Handling, Creating, Plain
<1>24. ASSUME TestFails PROVE InPlaceInv'
  BY <1>24 DEF TestFails, CallMayFail, MayFail, InPlaceInv, Sending, Written,
     Handling, Creating, Plain
<1>25. ASSUME Edit PROVE InPlaceInv'
  BY <1>25 DEF Edit, InPlaceInv, Sending, Written, Handling, Creating, Plain
<1>26. ASSUME OutsideChange PROVE InPlaceInv'
  BY <1>26 DEF OutsideChange, InPlaceInv, Sending, Written, Handling,
     Creating, Plain
<1>27. ASSUME OutsideDelete PROVE InPlaceInv'
  BY <1>27 DEF OutsideDelete, InPlaceInv, Sending, Written, Handling,
     Creating, Plain
<1>28. ASSUME UNCHANGED vars PROVE InPlaceInv'
  BY <1>28 DEF vars, InPlaceInv, Sending, Written, Handling, Creating, Plain
<1> QED
  BY <1>1, <1>2, <1>3, <1>4, <1>5, <1>6, <1>7, <1>8, <1>9, <1>10,
     <1>11, <1>12, <1>13, <1>14, <1>15, <1>16, <1>17, <1>18,
     <1>19, <1>20, <1>21, <1>22, <1>23, <1>24, <1>25, <1>26,
     <1>27, <1>28
  DEF Next

LEMMA MuteStep ==
  ASSUME TypeOK, PlaceInv, InUseInv, InPlaceInv, MuteInv, [Next]_vars
  PROVE  MuteInv'
<1>m. Mute(kind) => /\ HasSecret(kind) /\ kind.schema.replaces = "secret"
                    /\ kind.flow.flags # "never"
                    /\ ~ReadsStored
                    /\ kind.wire.secret = "returned"
  BY KindParts DEF Mute, Sound, HasSecret, ReadsStored
<1>p. Handling \/ pc = "delete" => (Creating <=> state = Absent) /\ state = prior
  BY DEF PlaceInv, Creating
<1>v. /\ config.version = 0 => ~InUse
      /\ state # Absent => state.version \in Nat
  BY ConfigParts, StateParts DEF TypeOK, InUse
<1>k. Written => /\ Kept.version = config.version
                 /\ [Kept EXCEPT !.extra = Default].version = config.version
                 /\ flag = InUse
  BY KeptParts, BlankParts DEF PlaceInv, InUseInv
<1>1. ASSUME Refresh PROVE MuteInv'
  BY <1>1, <1>m, FlattenParts DEF Refresh, MuteInv, Mute, Sending, Written,
     Handling, Creating
<1>2. ASSUME RefreshFails PROVE MuteInv'
  BY <1>2, <1>p DEF RefreshFails, MayFail, MuteInv, Mute, Sending, Written,
     Handling, Creating
<1>3. ASSUME Plan PROVE MuteInv'
  BY <1>3, <1>p DEF Plan, MuteInv, Mute, Sending, Written, Handling, Creating
<1>4. ASSUME Delete PROVE MuteInv'
  BY <1>4, <1>p DEF Delete, MuteInv, Mute, Sending, Written, Handling,
     Creating
<1>5. ASSUME DeleteFails PROVE MuteInv'
  BY <1>5, <1>p DEF DeleteFails, MayFail, MuteInv, Mute, Sending, Written,
     Handling, Creating
<1>6. ASSUME Before PROVE MuteInv'
  <2>1. Mute(kind) /\ ~Creating => SecretToSend = Mask
    BY <1>m DEF SecretToSend, Mute
  <2>2. Mute(kind) /\ ~Creating /\ state.version = 0 => ~InUse
    BY <1>6, <1>m, <1>p, <1>v DEF Before, InPlaceInv, Handling
  <2> QED
    BY <1>6, <2>1, <2>2, <1>p DEF Before, MuteInv, Mute, Sending, Written, Handling, Creating
<1>7. ASSUME PreludeFails PROVE MuteInv'
  BY <1>7, <1>p DEF PreludeFails, MayFail, GiveUp, MuteInv, Mute, Sending,
     Written, Handling, Creating
<1>8. ASSUME NameRefused PROVE MuteInv'
  BY <1>8, <1>p DEF NameRefused, GiveUp, MuteInv, Mute, Sending, Written,
     Handling, Creating
<1>9. ASSUME StoredFails PROVE MuteInv'
  <2>1. ~Mute(kind)
    BY <1>9, <1>m DEF StoredFails
  <2> QED
    BY <1>9, <2>1 DEF StoredFails, MuteInv, Mute
<1>10. ASSUME Check PROVE MuteInv'
  BY <1>10, <1>p DEF Check, MuteInv, Mute, Sending, Written, Handling,
     Creating
<1>11. ASSUME CheckFails PROVE MuteInv'
  BY <1>11, <1>p DEF CheckFails, MayFail, GiveUp, MuteInv, Mute, Sending,
     Written, Handling, Creating
<1>12. ASSUME SendCreate PROVE MuteInv'
  BY <1>12, <1>p DEF SendCreate, MuteInv, Mute, Sending, Written, Handling,
     Creating
<1>13. ASSUME SendCreateFails PROVE MuteInv'
  BY <1>13, <1>p DEF SendCreateFails, MayFail, GiveUp, MuteInv, Mute,
     Sending, Written, Handling, Creating
<1>14. ASSUME SendUpdate PROVE MuteInv'
  <2>1. Mute(kind) => Updated.secret = server.secret
    BY <1>14, UpdatedParts DEF SendUpdate, Write, MuteInv, Sending
  <2> QED
    BY <1>14, <2>1 DEF SendUpdate, Write, MuteInv, Mute, Sending, Written
<1>15. ASSUME SendUpdateFails PROVE MuteInv'
  BY <1>15, <1>p DEF SendUpdateFails, CallMayFail, MayFail, Write, GiveUp,
     MuteInv, Mute, Sending, Written, Handling, Creating
<1>16. ASSUME Fetch PROVE MuteInv'
  BY <1>16, <1>p DEF Fetch, MuteInv, Mute, Sending, Written, Handling,
     Creating
<1>17. ASSUME FetchFails PROVE MuteInv'
  BY <1>17, <1>p DEF FetchFails, CallMayFail, MayFail, GiveUp, MuteInv, Mute,
     Sending, Written, Handling, Creating
<1>18. ASSUME Follow PROVE MuteInv'
  BY <1>18, <1>p DEF Follow, WriteExtra, MuteInv, Mute, Sending, Written,
     Handling, Creating
<1>19. ASSUME FollowFails PROVE MuteInv'
  <2>1. UNCHANGED <<kind, sending, meddled, doubt, prior>> /\ ~Sending'
    BY <1>19 DEF FollowFails, GiveUp, GiveUpWith, Sending
  <2>2. CASE UNCHANGED <<state, flag>>
    BY <1>19, <2>1, <2>2 DEF FollowFails, MuteInv, Mute, Written, GiveUp, GiveUpWith
  <2>3. CASE state' = Absent
    BY <2>1, <2>3 DEF MuteInv
  <2>4. CASE pc' = "idle" /\ flag' = flag /\ state' \in {Kept, [Kept EXCEPT !.extra = Default]}
    <3>1. Written
      BY <1>19 DEF FollowFails, Written
    <3>2. state'.version = config.version /\ flag = InUse
      BY <2>4, <3>1, <1>k
    <3> QED
      BY <2>1, <2>4, <3>2, <1>v DEF MuteInv, Written
  <2> QED
    BY <1>19, <2>2, <2>3, <2>4 DEF FollowFails, GiveUp, GiveUpWith
<1>20. ASSUME Back PROVE MuteInv'
  BY <1>20, <1>p DEF Back, MuteInv, Mute, Sending, Written, Handling,
     Creating
<1>21. ASSUME BackFails PROVE MuteInv'
  BY <1>21, <1>p, <1>v, <1>k DEF BackFails, CallMayFail, MayFail, GiveUp,
     GiveUpWith, MuteInv, Mute, Sending, Written, Handling, Creating
<1>22. ASSUME Save PROVE MuteInv'
  BY <1>22, <1>p, <1>v, <1>k DEF Save, MuteInv, Mute, Sending, Written,
     Handling, Creating
<1>23. ASSUME Test PROVE MuteInv'
  BY <1>23, <1>p DEF Test, MuteInv, Mute, Sending, Written, Handling,
     Creating
<1>24. ASSUME TestFails PROVE MuteInv'
  BY <1>24, <1>p DEF TestFails, CallMayFail, MayFail, MuteInv, Mute, Sending,
     Written, Handling, Creating
<1>25. ASSUME Edit PROVE MuteInv'
  BY <1>25, <1>p DEF Edit, MuteInv, Mute, Sending, Written, Handling,
     Creating
<1>26. ASSUME OutsideChange PROVE MuteInv'
  BY <1>26, <1>p DEF OutsideChange, MuteInv, Mute, Sending, Written,
     Handling, Creating
<1>27. ASSUME OutsideDelete PROVE MuteInv'
  BY <1>27, <1>p DEF OutsideDelete, MuteInv, Mute, Sending, Written,
     Handling, Creating
<1>28. ASSUME UNCHANGED vars PROVE MuteInv'
  BY <1>28, <1>p DEF vars, MuteInv, Mute, Sending, Written, Handling,
     Creating
<1> QED
  BY <1>1, <1>2, <1>3, <1>4, <1>5, <1>6, <1>7, <1>8, <1>9, <1>10,
     <1>11, <1>12, <1>13, <1>14, <1>15, <1>16, <1>17, <1>18,
     <1>19, <1>20, <1>21, <1>22, <1>23, <1>24, <1>25, <1>26,
     <1>27, <1>28
  DEF Next

\* A connection that nobody disturbed, or that is not in doubt, has the secret
\* of the configuration, and what a handler keeps of it is so.
LEMMA KeptSecret ==
  ASSUME TypeOK, PlaceInv, SentInv, WrittenInv, Written, server # Absent,
         ~doubt \/ (sending = config.secret /\ ~meddled)
  PROVE  /\ server.secret = config.secret
         /\ rec.secret = server.secret
         /\ Kept.secret # Null => server.secret = Kept.secret
<1>1. server.secret = config.secret
  BY DEF SentInv
<1>2. rec.secret = server.secret
  BY DEF SentInv, WrittenInv
<1>3. Plain(config) # Null => Plain(config) = config.secret
  BY DEF Plain
<1> QED
  BY <1>1, <1>2, <1>3, KeptParts DEF PlaceInv

LEMMA SecretStep ==
  ASSUME TypeOK, PlaceInv, VersionInv, InUseInv, SecretInv, SentInv, WrittenInv,
         [Next]_vars
  PROVE  SecretInv'
<1>p. (Handling \/ pc = "delete" => (Creating <=> state = Absent))
  BY DEF PlaceInv, Creating
<1>t. /\ edits \in Nat /\ config.version \in Nat
      /\ state # Absent => state.version \in Nat
  BY ConfigParts, StateParts, BoundsAssumption DEF TypeOK, BoundsAssumption
<1>w. Written /\ Creating => sending = config.secret
  BY DEF PlaceInv
<1>k. Written /\ server # Absent /\ (~doubt \/ (sending = config.secret /\ ~meddled)) =>
        /\ server.secret = config.secret
        /\ Kept.secret # Null => server.secret = Kept.secret
  BY KeptSecret
<1>b. Written => [Kept EXCEPT !.extra = Default].secret = Kept.secret
  BY KeptParts, BlankParts DEF PlaceInv
<1>f. Follows /\ Written /\ WriteExtra =>
        server # Absent /\ server'.secret = server.secret
  BY FollowParts DEF PlaceInv
<1>1. ASSUME Refresh PROVE SecretInv'
  <2>1. kind.wire.secret = "returned" => kind.flow.flags # "never"
    BY KindParts DEF Sound
  <2> SUFFICES ASSUME state' # Absent, server # Absent, ~doubt'
               PROVE  /\ (state'.version = config.version /\ config.version > 0)
                           => server.secret = config.secret
                      /\ state'.secret # Null => server.secret = state'.secret
    BY <1>1 DEF Refresh, SecretInv
  <2>2. /\ state # Absent /\ state' = Flatten(server, state)
        /\ doubt => ~flag /\ kind.wire.secret = "returned"
    BY <1>1 DEF Refresh
  <2>3. /\ state'.version = state.version
        /\ state'.secret = IF flag THEN Null
                           ELSE IF kind.wire.secret = "returned" THEN server.secret
                           ELSE state.secret
    BY <2>2, FlattenParts
  <2>4. CASE doubt
    BY <2>1, <2>2, <2>3, <2>4 DEF InUseInv
  <2>5. CASE ~doubt
    BY <2>2, <2>3, <2>5 DEF SecretInv
  <2> QED
    BY <2>4, <2>5
<1>2. ASSUME RefreshFails PROVE SecretInv'
  BY <1>2, <1>p DEF RefreshFails, MayFail, SecretInv, Sending, Written,
     Handling
<1>3. ASSUME Plan PROVE SecretInv'
  BY <1>3, <1>p DEF Plan, SecretInv, Sending, Written, Handling
<1>4. ASSUME Delete PROVE SecretInv'
  BY <1>4, <1>p DEF Delete, SecretInv, Sending, Written, Handling
<1>5. ASSUME DeleteFails PROVE SecretInv'
  BY <1>5, <1>p DEF DeleteFails, MayFail, SecretInv, Sending, Written,
     Handling
<1>6. ASSUME Before PROVE SecretInv'
  BY <1>6, <1>p DEF Before, SecretInv, Sending, Written, Handling
<1>7. ASSUME PreludeFails PROVE SecretInv'
  BY <1>7, <1>p DEF PreludeFails, MayFail, GiveUp, SecretInv, Sending,
     Written, Handling
<1>8. ASSUME NameRefused PROVE SecretInv'
  BY <1>8, <1>p DEF NameRefused, GiveUp, SecretInv, Sending, Written,
     Handling
<1>9. ASSUME StoredFails PROVE SecretInv'
  BY <1>9, <1>p DEF StoredFails, CallMayFail, MayFail, SecretInv, Sending,
     Written, Handling
<1>10. ASSUME Check PROVE SecretInv'
  BY <1>10, <1>p DEF Check, SecretInv, Sending, Written, Handling
<1>11. ASSUME CheckFails PROVE SecretInv'
  BY <1>11, <1>p DEF CheckFails, MayFail, GiveUp, SecretInv, Sending,
     Written, Handling
<1>12. ASSUME SendCreate PROVE SecretInv'
  BY <1>12, <1>p DEF SendCreate, SecretInv, Sending, Written, Handling
<1>13. ASSUME SendCreateFails PROVE SecretInv'
  BY <1>13, <1>p DEF SendCreateFails, MayFail, GiveUp, SecretInv, Sending,
     Written, Handling
<1>14. ASSUME SendUpdate PROVE SecretInv'
  BY <1>14, <1>p DEF SendUpdate, Write, SecretInv, Sending, Written, Handling
<1>15. ASSUME SendUpdateFails PROVE SecretInv'
  <2>1. UNCHANGED <<state, config>>
    BY <1>15, <1>p DEF SendUpdateFails, GiveUp
  <2>2. CASE Write
    <3>1. ~doubt' => ~doubt /\ server # Absent /\ server'.secret = server.secret
      BY <2>2 DEF Write
    <3> QED
      BY <2>1, <3>1 DEF SecretInv
  <2>3. CASE UNCHANGED <<server, doubt>>
    BY <2>1, <2>3 DEF SecretInv
  <2> QED
    BY <1>15, <2>2, <2>3 DEF SendUpdateFails
<1>16. ASSUME Fetch PROVE SecretInv'
  BY <1>16, <1>p DEF Fetch, SecretInv, Sending, Written, Handling
<1>17. ASSUME FetchFails PROVE SecretInv'
  BY <1>17, <1>p DEF FetchFails, CallMayFail, MayFail, GiveUp, SecretInv,
     Sending, Written, Handling
<1>18. ASSUME Follow PROVE SecretInv'
  <2>1. server' # Absent => server # Absent /\ server'.secret = server.secret
    BY <1>18, <1>f DEF Follow, Written
  <2> QED
    BY <1>18, <2>1 DEF Follow, SecretInv
<1>19. ASSUME FollowFails PROVE SecretInv'
  <2>1. server' # Absent => server # Absent /\ server'.secret = server.secret
    BY <1>19, <1>f DEF FollowFails, Written
  <2>2. CASE UNCHANGED state
    BY <1>19, <2>1, <2>2 DEF FollowFails, SecretInv
  <2>3. CASE Creating /\ state' # Absent /\ state' # state
    <3>1. state' \in {Kept, [Kept EXCEPT !.extra = Default]} /\ ~doubt' = ~doubt
      BY <1>19, <2>3 DEF FollowFails, GiveUp, GiveUpWith
    <3>2. state'.secret = Kept.secret
      BY <1>19, <3>1, <1>b DEF FollowFails, Written
    <3> QED
      BY <1>19, <2>1, <3>1, <3>2, <1>k DEF FollowFails, SecretInv, Written
  <2>4. CASE state' = Absent
    BY <2>4 DEF SecretInv
  <2> QED
    BY <1>19, <2>2, <2>3, <2>4 DEF FollowFails, GiveUp, GiveUpWith
<1>20. ASSUME Back PROVE SecretInv'
  BY <1>20, <1>p DEF Back, SecretInv, Sending, Written, Handling
<1>21. ASSUME BackFails PROVE SecretInv'
  <2>1. CASE UNCHANGED state
    BY <1>21, <2>1 DEF BackFails, SecretInv
  <2>2. CASE state' = Kept
    BY <1>21, <2>2, <1>k DEF BackFails, SecretInv, Written
  <2>3. CASE state' = Absent
    BY <2>3 DEF SecretInv
  <2> QED
    BY <1>21, <2>1, <2>2, <2>3 DEF BackFails, GiveUp, GiveUpWith
<1>22. ASSUME Save PROVE SecretInv'
  <2>1. ASSUME server # Absent, ~doubt'
        PROVE  /\ server.secret = config.secret
               /\ Kept.secret # Null => server.secret = Kept.secret
    <3>1. Written
      BY <1>22 DEF Save, Written
    <3>2. CASE ~doubt
      BY <3>1, <3>2, <2>1, <1>k
    <3>3. CASE sending = config.secret /\ ~meddled
      BY <3>1, <3>3, <2>1, <1>k
    <3>4. doubt' = (doubt /\ (sending # config.secret \/ meddled))
      BY <1>22 DEF Save
    <3> QED
      BY <2>1, <3>2, <3>3, <3>4
  <2>2. state' = Kept /\ UNCHANGED <<server, config>>
    BY <1>22 DEF Save
  <2> QED
    BY <2>1, <2>2 DEF SecretInv
<1>23. ASSUME Test PROVE SecretInv'
  BY <1>23, <1>p DEF Test, SecretInv, Sending, Written, Handling
<1>24. ASSUME TestFails PROVE SecretInv'
  BY <1>24, <1>p DEF TestFails, CallMayFail, MayFail, SecretInv, Sending,
     Written, Handling
<1>25. ASSUME Edit PROVE SecretInv'
  <2>1. \/ config'.version = config.version /\ config'.secret = config.secret
        \/ config'.version \in {0, edits + 2}
    BY <1>25, EditParts
  <2>2. state # Absent => state.version <= edits + 1
    BY DEF VersionInv
  <2>3. UNCHANGED <<state, server, doubt>>
    BY <1>25 DEF Edit
  <2>4. (state # Absent /\ state.version = config'.version /\ config'.version > 0)
          => config'.version = config.version /\ config'.secret = config.secret
    BY <2>1, <2>2, <1>t
  <2> QED
    BY <2>3, <2>4 DEF SecretInv
<1>26. ASSUME OutsideChange PROVE SecretInv'
  BY <1>26, <1>p DEF OutsideChange, SecretInv, Sending, Written, Handling
<1>27. ASSUME OutsideDelete PROVE SecretInv'
  BY <1>27, <1>p DEF OutsideDelete, SecretInv, Sending, Written, Handling
<1>28. ASSUME UNCHANGED vars PROVE SecretInv'
  BY <1>28, <1>p DEF vars, SecretInv, Sending, Written, Handling
<1> QED
  BY <1>1, <1>2, <1>3, <1>4, <1>5, <1>6, <1>7, <1>8, <1>9, <1>10,
     <1>11, <1>12, <1>13, <1>14, <1>15, <1>16, <1>17, <1>18,
     <1>19, <1>20, <1>21, <1>22, <1>23, <1>24, <1>25, <1>26,
     <1>27, <1>28
  DEF Next

\* A write that does not carry the secret of the configuration finds it there.
LEMMA NothingNew ==
  ASSUME TypeOK, PlaceInv, InPlaceInv, SecretInv, KindInv, pc = "before",
         server # Absent, ~doubt, SecretToSend # config.secret
  PROVE  server.secret = config.secret
<1>1. /\ config \in Configs(kind) /\ prior \in States \cup {Absent}
      /\ Sound(kind) /\ state = prior
      /\ kind.flow.sends \in {"new", "every"}
  BY KindParts DEF TypeOK, PlaceInv, Handling
<1>2. /\ config.secret # Null <=> HasSecret(kind)
      /\ config.version > 0 <=> config.form = "companion"
      /\ config.version \in Nat
      /\ config.form \in {"plain", "companion"}
  BY <1>1, ConfigParts
<1>3. /\ HasSecret(kind) /\ ~Creating /\ kind.flow.sends = "new"
      /\ ~(kind.flow.stored # "never" /\ SendsNew)
  BY <1>1, <1>2 DEF SecretToSend
<1>4. /\ (prior.version = config.version /\ config.version > 0)
           => server.secret = config.secret
      /\ prior.secret # Null => server.secret = prior.secret
  BY <1>1, <1>3 DEF SecretInv, Creating
<1>5. CASE kind.flow.stored = "never"
  <2>1. prior.secret = Plain(config) /\ prior.version = config.version
    BY <1>1, <1>3, <1>5 DEF InPlaceInv, Sound, HasSecret, Handling
  <2> QED
    BY <1>2, <1>3, <1>4, <2>1 DEF Plain
<1>6. CASE kind.flow.stored # "never"
  <2>1. Plain(config) = Null
    BY <1>3, <1>6 DEF SendsNew
  <2>2. config.form = "companion"
    BY <1>2, <1>3, <2>1 DEF Plain
  <2> QED
    BY <1>2, <1>3, <1>4, <1>6, <2>2 DEF SendsNew
<1> QED
  BY <1>5, <1>6

LEMMA SentStep ==
  ASSUME TypeOK, PlaceInv, InPlaceInv, SecretInv, KindInv, SentInv, [Next]_vars
  PROVE  SentInv'
<1>c. config.secret # Mask
  BY ConfigParts, SecretsAssumption DEF TypeOK, SecretsAssumption
<1>n. pc = "before" /\ server # Absent /\ ~doubt /\ SecretToSend # config.secret
        => server.secret = config.secret
  BY NothingNew
<1>f. Follows /\ Written /\ WriteExtra =>
        server # Absent /\ server'.secret = server.secret
  BY FollowParts DEF PlaceInv
<1>r. Stored(rec.main, Planned.extra, rec.secret).secret = rec.secret
  BY DEF Stored
<1>u. (pc = "send" /\ ~Creating /\ server # Absent) =>
        Updated.secret = IF sending = Mask THEN server.secret ELSE sending
  BY UpdatedParts
<1>m. Made.secret = sending /\ (Sending /\ Creating => sending = config.secret)
  BY MadeParts DEF PlaceInv
<1>1. ASSUME Refresh PROVE SentInv'
  BY <1>1 DEF Refresh, SentInv, Sending, Written
<1>2. ASSUME RefreshFails PROVE SentInv'
  BY <1>2 DEF RefreshFails, MayFail, SentInv, Sending, Written
<1>3. ASSUME Plan PROVE SentInv'
  BY <1>3 DEF Plan, SentInv, Sending, Written
<1>4. ASSUME Delete PROVE SentInv'
  BY <1>4 DEF Delete, SentInv, Sending, Written
<1>5. ASSUME DeleteFails PROVE SentInv'
  BY <1>5 DEF DeleteFails, MayFail, SentInv, Sending, Written
<1>6. ASSUME Before PROVE SentInv'
  BY <1>6, <1>n DEF Before, SentInv, Sending, Written
<1>7. ASSUME PreludeFails PROVE SentInv'
  BY <1>7 DEF PreludeFails, MayFail, GiveUp, SentInv, Sending, Written
<1>8. ASSUME NameRefused PROVE SentInv'
  BY <1>8 DEF NameRefused, GiveUp, SentInv, Sending, Written
<1>9. ASSUME StoredFails PROVE SentInv'
  BY <1>9 DEF StoredFails, CallMayFail, MayFail, SentInv, Sending, Written
<1>10. ASSUME Check PROVE SentInv'
  BY <1>10 DEF Check, SentInv, Sending, Written
<1>11. ASSUME CheckFails PROVE SentInv'
  BY <1>11 DEF CheckFails, MayFail, GiveUp, SentInv, Sending, Written
<1>12. ASSUME SendCreate PROVE SentInv'
  BY <1>12, <1>m, <1>c DEF SendCreate, SentInv, Sending, Written
<1>13. ASSUME SendCreateFails PROVE SentInv'
  BY <1>13 DEF SendCreateFails, MayFail, GiveUp, SentInv, Sending, Written
<1>14. ASSUME SendUpdate PROVE SentInv'
  BY <1>14, <1>u, <1>c DEF SendUpdate, Write, SentInv, Sending, Written
<1>15. ASSUME SendUpdateFails PROVE SentInv'
  BY <1>15 DEF SendUpdateFails, CallMayFail, MayFail, Write, GiveUp, SentInv,
     Sending, Written
<1>16. ASSUME Fetch PROVE SentInv'
  BY <1>16 DEF Fetch, SentInv, Sending, Written
<1>17. ASSUME FetchFails PROVE SentInv'
  BY <1>17 DEF FetchFails, CallMayFail, MayFail, GiveUp, SentInv, Sending,
     Written
<1>18. ASSUME Follow PROVE SentInv'
  <2>1. server' # Absent => server # Absent /\ server'.secret = server.secret
    BY <1>18, <1>f DEF Follow, Written
  <2>2. UNCHANGED <<config, sending, doubt, meddled>> /\ ~Sending'
    BY <1>18 DEF Follow, Sending
  <2>3. Written /\ rec'.secret = rec.secret
    BY <1>18, <1>r DEF Follow, Written
  <2> QED
    BY <2>1, <2>2, <2>3 DEF SentInv
<1>19. ASSUME FollowFails PROVE SentInv'
  <2>1. server' # Absent => server # Absent /\ server'.secret = server.secret
    BY <1>19, <1>f DEF FollowFails, Written
  <2>2. UNCHANGED <<config, sending, rec, doubt, meddled>> /\ ~Sending'
    BY <1>19 DEF FollowFails, GiveUp, GiveUpWith, Sending
  <2>3. Written
    BY <1>19 DEF FollowFails, Written
  <2> QED
    BY <2>1, <2>2, <2>3 DEF SentInv
<1>20. ASSUME Back PROVE SentInv'
  BY <1>20 DEF Back, SentInv, Sending, Written
<1>21. ASSUME BackFails PROVE SentInv'
  BY <1>21 DEF BackFails, CallMayFail, MayFail, GiveUp, GiveUpWith, SentInv,
     Sending, Written
<1>22. ASSUME Save PROVE SentInv'
  BY <1>22 DEF Save, SentInv, Sending, Written
<1>23. ASSUME Test PROVE SentInv'
  BY <1>23 DEF Test, SentInv, Sending, Written
<1>24. ASSUME TestFails PROVE SentInv'
  BY <1>24 DEF TestFails, CallMayFail, MayFail, SentInv, Sending, Written
<1>25. ASSUME Edit PROVE SentInv'
  BY <1>25 DEF Edit, SentInv, Sending, Written
<1>26. ASSUME OutsideChange PROVE SentInv'
  BY <1>26 DEF OutsideChange, SentInv, Sending, Written
<1>27. ASSUME OutsideDelete PROVE SentInv'
  BY <1>27 DEF OutsideDelete, SentInv, Sending, Written
<1>28. ASSUME UNCHANGED vars PROVE SentInv'
  BY <1>28 DEF vars, SentInv, Sending, Written
<1> QED
  BY <1>1, <1>2, <1>3, <1>4, <1>5, <1>6, <1>7, <1>8, <1>9, <1>10,
     <1>11, <1>12, <1>13, <1>14, <1>15, <1>16, <1>17, <1>18,
     <1>19, <1>20, <1>21, <1>22, <1>23, <1>24, <1>25, <1>26,
     <1>27, <1>28
  DEF Next

LEMMA WrittenStep ==
  ASSUME TypeOK, PlaceInv, ResultInv, WrittenInv, [Next]_vars
  PROVE  WrittenInv'
<1>u. (pc = "send" /\ ~Creating /\ server # Absent) => Updated.main = config.main
  BY UpdatedParts
<1>m. Made.main = config.main
  BY MadeParts
<1>a. Absent \notin Records
  BY AbsentAssumption DEF AbsentAssumption
<1>f. Follows /\ Written /\ WriteExtra /\ ~meddled =>
        /\ server # Absent /\ server' # Absent
        /\ server'.main = config.main /\ server'.secret = server.secret
  BY FollowParts, <1>a DEF PlaceInv, WrittenInv
<1>1. ASSUME Refresh PROVE WrittenInv'
  BY <1>1 DEF Refresh, WrittenInv, Written
<1>2. ASSUME RefreshFails PROVE WrittenInv'
  BY <1>2 DEF RefreshFails, MayFail, WrittenInv, Written
<1>3. ASSUME Plan PROVE WrittenInv'
  BY <1>3 DEF Plan, WrittenInv, Written
<1>4. ASSUME Delete PROVE WrittenInv'
  BY <1>4 DEF Delete, WrittenInv, Written
<1>5. ASSUME DeleteFails PROVE WrittenInv'
  BY <1>5 DEF DeleteFails, MayFail, WrittenInv, Written
<1>6. ASSUME Before PROVE WrittenInv'
  BY <1>6 DEF Before, WrittenInv, Written
<1>7. ASSUME PreludeFails PROVE WrittenInv'
  BY <1>7 DEF PreludeFails, MayFail, GiveUp, WrittenInv, Written
<1>8. ASSUME NameRefused PROVE WrittenInv'
  BY <1>8 DEF NameRefused, GiveUp, WrittenInv, Written
<1>9. ASSUME StoredFails PROVE WrittenInv'
  BY <1>9 DEF StoredFails, CallMayFail, MayFail, WrittenInv, Written
<1>10. ASSUME Check PROVE WrittenInv'
  BY <1>10 DEF Check, WrittenInv, Written
<1>11. ASSUME CheckFails PROVE WrittenInv'
  BY <1>11 DEF CheckFails, MayFail, GiveUp, WrittenInv, Written
<1>12. ASSUME SendCreate PROVE WrittenInv'
  <2>1. Made # Absent
    BY <1>12, MadeParts, <1>a, ConfigParts, SecretsAssumption
    DEF SendCreate, PlaceInv, Sending, TypeOK, SecretsAssumption
  <2> QED
    BY <1>12, <2>1, <1>m DEF SendCreate, WrittenInv
<1>13. ASSUME SendCreateFails PROVE WrittenInv'
  BY <1>13 DEF SendCreateFails, MayFail, GiveUp, WrittenInv, Written
<1>14. ASSUME SendUpdate PROVE WrittenInv'
  <2>1. Updated # Absent
    BY <1>14, UpdatedParts, <1>a DEF SendUpdate, Write
  <2> QED
    BY <1>14, <2>1, <1>u DEF SendUpdate, Write, WrittenInv
<1>15. ASSUME SendUpdateFails PROVE WrittenInv'
  BY <1>15 DEF SendUpdateFails, CallMayFail, MayFail, Write, GiveUp,
     WrittenInv, Written
<1>16. ASSUME Fetch PROVE WrittenInv'
  BY <1>16 DEF Fetch, WrittenInv, Written
<1>17. ASSUME FetchFails PROVE WrittenInv'
  BY <1>17 DEF FetchFails, CallMayFail, MayFail, GiveUp, WrittenInv, Written
<1>18. ASSUME Follow PROVE WrittenInv'
  <2>1. CASE Follows /\ ~meddled
    <3>1. /\ server # Absent /\ server' # Absent
          /\ server'.main = config.main /\ server'.secret = server.secret
      BY <1>18, <2>1, <1>f DEF Follow, Written
    <3>2. rec.main = config.main /\ rec.secret = server.secret
      BY <1>18, <2>1 DEF Follow, WrittenInv, Written
    <3>3. server' = Stored(IF kind.flow.extra = "update" THEN config.main
                           ELSE server.main, Planned.extra, server.secret)
      BY <1>18, <2>1 DEF Follow, WriteExtra
    <3>4. rec' = Stored(rec.main, Planned.extra, rec.secret)
      BY <1>18, <2>1 DEF Follow
    <3>5. server.main = config.main
      BY <1>18, <2>1 DEF Follow, WrittenInv, Written
    <3>6. rec' = server'
      BY <3>2, <3>3, <3>4, <3>5
    <3> QED
      BY <1>18, <3>1, <3>6 DEF Follow, WrittenInv
  <2>2. CASE ~Follows
    BY <1>18, <2>2 DEF Follow, WrittenInv, Written
  <2>3. CASE meddled
    BY <1>18, <2>3 DEF Follow, WrittenInv
  <2> QED
    BY <2>1, <2>2, <2>3
<1>19. ASSUME FollowFails PROVE WrittenInv'
  <2>1. CASE Written' /\ ~meddled'
    <3>1. result' = "error" /\ UNCHANGED <<rec, config, meddled>> /\ Written
      BY <1>19, <2>1 DEF FollowFails, GiveUp, GiveUpWith, Written
    <3>2. /\ server' # Absent /\ server'.main = config.main
          /\ server'.secret = server.secret
      BY <1>19, <2>1, <3>1, <1>f DEF FollowFails, WrittenInv
    <3> QED
      BY <2>1, <3>1, <3>2 DEF WrittenInv
  <2> QED
    BY <2>1 DEF WrittenInv
<1>20. ASSUME Back PROVE WrittenInv'
  BY <1>20 DEF Back, WrittenInv, Written
<1>21. ASSUME BackFails PROVE WrittenInv'
  BY <1>21 DEF BackFails, CallMayFail, MayFail, GiveUp, GiveUpWith,
     WrittenInv, Written
<1>22. ASSUME Save PROVE WrittenInv'
  BY <1>22 DEF Save, WrittenInv, Written
<1>23. ASSUME Test PROVE WrittenInv'
  BY <1>23 DEF Test, WrittenInv, Written
<1>24. ASSUME TestFails PROVE WrittenInv'
  BY <1>24 DEF TestFails, CallMayFail, MayFail, WrittenInv, Written
<1>25. ASSUME Edit PROVE WrittenInv'
  BY <1>25 DEF Edit, WrittenInv, Written
<1>26. ASSUME OutsideChange PROVE WrittenInv'
  BY <1>26 DEF OutsideChange, WrittenInv, Written
<1>27. ASSUME OutsideDelete PROVE WrittenInv'
  BY <1>27 DEF OutsideDelete, WrittenInv, Written
<1>28. ASSUME UNCHANGED vars PROVE WrittenInv'
  BY <1>28 DEF vars, WrittenInv, Written
<1> QED
  BY <1>1, <1>2, <1>3, <1>4, <1>5, <1>6, <1>7, <1>8, <1>9, <1>10,
     <1>11, <1>12, <1>13, <1>14, <1>15, <1>16, <1>17, <1>18,
     <1>19, <1>20, <1>21, <1>22, <1>23, <1>24, <1>25, <1>26,
     <1>27, <1>28
  DEF Next

\* What is planned for the extra attribute, where there is none.
LEMMA NoExtra ==
  ASSUME TypeOK, kind.flow.extra = "none"
  PROVE  Planned.extra = Default
<1>1. config.extra = Default
  BY ConfigParts DEF TypeOK, ExtraOf
<1> QED
  BY <1>1, ExtraAssumption, PlannedParts DEF Planned, TypeOK, ExtraAssumption

LEMMA ExtraStep ==
  ASSUME TypeOK, PlaceInv, KindInv, RefreshedInv, ResultInv, WrittenInv, ExtraInv,
         [Next]_vars
  PROVE  ExtraInv'
<1>p. (Handling \/ pc = "delete" => (Creating <=> state = Absent))
  BY DEF PlaceInv, Creating
<1>s. UNCHANGED <<config, prior>> => Planned' = Planned
  BY DEF Planned, PlannedFrom, Plain, Model
<1>1. ASSUME Refresh PROVE ExtraInv'
  BY <1>1, <1>s DEF Refresh, ExtraInv, Written
<1>2. ASSUME RefreshFails PROVE ExtraInv'
  BY <1>2, <1>s DEF RefreshFails, MayFail, ExtraInv, Written
<1>3. ASSUME Plan PROVE ExtraInv'
  BY <1>3, <1>s DEF Plan, ExtraInv, Written
<1>4. ASSUME Delete PROVE ExtraInv'
  BY <1>4, <1>s DEF Delete, ExtraInv, Written
<1>5. ASSUME DeleteFails PROVE ExtraInv'
  BY <1>5, <1>s DEF DeleteFails, MayFail, ExtraInv, Written
<1>6. ASSUME Before PROVE ExtraInv'
  BY <1>6, <1>s DEF Before, ExtraInv, Written
<1>7. ASSUME PreludeFails PROVE ExtraInv'
  BY <1>7, <1>s DEF PreludeFails, MayFail, GiveUp, ExtraInv, Written
<1>8. ASSUME NameRefused PROVE ExtraInv'
  BY <1>8, <1>s DEF NameRefused, GiveUp, ExtraInv, Written
<1>9. ASSUME StoredFails PROVE ExtraInv'
  BY <1>9, <1>s DEF StoredFails, CallMayFail, MayFail, ExtraInv, Written
<1>10. ASSUME Check PROVE ExtraInv'
  BY <1>10, <1>s DEF Check, ExtraInv, Written
<1>11. ASSUME CheckFails PROVE ExtraInv'
  BY <1>11, <1>s DEF CheckFails, MayFail, GiveUp, ExtraInv, Written
<1>12. ASSUME SendCreate PROVE ExtraInv'
  <2>1. Made.extra = Default
    BY MadeParts
  <2> QED
    BY <1>12, <2>1 DEF SendCreate, ExtraInv, Creating
<1>13. ASSUME SendCreateFails PROVE ExtraInv'
  BY <1>13, <1>s DEF SendCreateFails, MayFail, GiveUp, ExtraInv, Written
<1>14. ASSUME SendUpdate PROVE ExtraInv'
  <2>1. /\ server # Absent
        /\ Updated.extra = IF kind.flow.extra = "update" THEN Planned.extra
                                                         ELSE server.extra
    BY <1>14, UpdatedParts DEF SendUpdate, Write
  <2>2. ~meddled => server.extra = prior.extra
    BY <1>14, <1>p DEF SendUpdate, RefreshedInv, Sending, PlaceInv, Handling
  <2>3. Planned' = Planned
    BY <1>14, <1>s DEF SendUpdate
  <2> QED
    BY <1>14, <2>1, <2>2, <2>3 DEF SendUpdate, Write, ExtraInv, Creating
<1>15. ASSUME SendUpdateFails PROVE ExtraInv'
  BY <1>15, <1>s DEF SendUpdateFails, CallMayFail, MayFail, Write, GiveUp,
     ExtraInv, Written
<1>16. ASSUME Fetch PROVE ExtraInv'
  <2>1. Planned' = Planned /\ pc = "fetch" /\ pc' = "follow"
    BY <1>16, <1>s DEF Fetch
  <2>2. UNCHANGED <<kind, server, prior, meddled, result>>
    BY <1>16 DEF Fetch
  <2> QED
    BY <2>1, <2>2 DEF ExtraInv, Written, Creating
<1>17. ASSUME FetchFails PROVE ExtraInv'
  BY <1>17, <1>s DEF FetchFails, CallMayFail, MayFail, GiveUp, ExtraInv,
     Written
<1>18. ASSUME Follow PROVE ExtraInv'
  <2>1. Planned' = Planned /\ pc = "follow" /\ pc' = "back"
    BY <1>18, <1>s DEF Follow
  <2>2. UNCHANGED <<kind, prior, meddled, result>>
    BY <1>18 DEF Follow
  <2>3. CASE Follows
    <3>1. rec \in Records /\ WriteExtra
      BY <1>18, <2>3 DEF Follow, PlaceInv, Written
    <3>2. server'.extra = Planned.extra
      BY <2>3, <3>1, FollowParts
    <3> QED
      BY <2>1, <3>2 DEF ExtraInv
  <2>4. ASSUME ~Follows, ~meddled, result = "none", Planned.extra # Unset
        PROVE  server.extra = Planned.extra
    <3>1. server # Absent /\ rec = server
      BY <2>1, <2>4 DEF WrittenInv, Written
    <3>2. CASE kind.flow.extra = "none"
      BY <3>1, <3>2, NoExtra DEF KindInv, ExtraOf
    <3>3. CASE kind.flow.extra = "share"
      BY <2>4, <3>1, <3>3 DEF Follows, PriorExtra
    <3>4. CASE kind.flow.extra \in {"own", "update"} /\ Creating
      <4>1. Planned.extra = PriorExtra
        BY <2>4, <3>4 DEF Follows
      <4>2. Planned.extra = Default
        BY <2>4, <3>4, <4>1 DEF PriorExtra
      <4> QED
        BY <2>1, <2>4, <3>4, <4>2 DEF ExtraInv, Written
    <3>5. CASE kind.flow.extra = "own" /\ ~Creating
      BY <2>1, <2>4, <3>5 DEF Follows, PriorExtra, ExtraInv, Written
    <3>6. CASE kind.flow.extra = "update" /\ ~Creating
      BY <2>1, <2>4, <3>6 DEF ExtraInv, Written
    <3> QED
      BY <3>2, <3>3, <3>4, <3>5, <3>6, KindParts
  <2>5. CASE ~Follows
    <3>1. server' = server
      BY <1>18, <2>5 DEF Follow
    <3> QED
      BY <2>1, <2>2, <2>4, <2>5, <3>1 DEF ExtraInv
  <2> QED
    BY <2>3, <2>5
<1>19. ASSUME FollowFails PROVE ExtraInv'
  BY <1>19, <1>s DEF FollowFails, CallMayFail, MayFail, WriteExtra, GiveUp,
     GiveUpWith, ExtraInv, Written
<1>20. ASSUME Back PROVE ExtraInv'
  <2>1. Planned' = Planned /\ pc = "back" /\ pc' = "save"
    BY <1>20, <1>s DEF Back
  <2>2. UNCHANGED <<kind, server, prior, meddled, result>>
    BY <1>20 DEF Back
  <2> QED
    BY <2>1, <2>2 DEF ExtraInv, Written, Creating
<1>21. ASSUME BackFails PROVE ExtraInv'
  BY <1>21, <1>s DEF BackFails, CallMayFail, MayFail, GiveUp, GiveUpWith,
     ExtraInv, Written
<1>22. ASSUME Save PROVE ExtraInv'
  BY <1>22, <1>s DEF Save, ExtraInv, Written
<1>23. ASSUME Test PROVE ExtraInv'
  BY <1>23, <1>s DEF Test, ExtraInv, Written
<1>24. ASSUME TestFails PROVE ExtraInv'
  BY <1>24, <1>s DEF TestFails, CallMayFail, MayFail, ExtraInv, Written
<1>25. ASSUME Edit PROVE ExtraInv'
  BY <1>25, <1>s DEF Edit, ExtraInv, Written
<1>26. ASSUME OutsideChange PROVE ExtraInv'
  BY <1>26, <1>s DEF OutsideChange, ExtraInv, Written
<1>27. ASSUME OutsideDelete PROVE ExtraInv'
  BY <1>27, <1>s DEF OutsideDelete, ExtraInv, Written
<1>28. ASSUME UNCHANGED vars PROVE ExtraInv'
  BY <1>28, <1>s DEF vars, ExtraInv, Written, Creating
<1> QED
  BY <1>1, <1>2, <1>3, <1>4, <1>5, <1>6, <1>7, <1>8, <1>9, <1>10,
     <1>11, <1>12, <1>13, <1>14, <1>15, <1>16, <1>17, <1>18,
     <1>19, <1>20, <1>21, <1>22, <1>23, <1>24, <1>25, <1>26,
     <1>27, <1>28
  DEF Next

LEMMA DoneStep ==
  ASSUME TypeOK, PlaceInv, SentInv, WrittenInv, ExtraInv, DoneInv, [Next]_vars
  PROVE  DoneInv'
<1>1. ASSUME Refresh PROVE DoneInv'
  BY <1>1 DEF Refresh, DoneInv
<1>2. ASSUME RefreshFails PROVE DoneInv'
  BY <1>2 DEF RefreshFails, MayFail, DoneInv
<1>3. ASSUME Plan PROVE DoneInv'
  BY <1>3 DEF Plan, DoneInv
<1>4. ASSUME Delete PROVE DoneInv'
  BY <1>4 DEF Delete, DoneInv
<1>5. ASSUME DeleteFails PROVE DoneInv'
  BY <1>5 DEF DeleteFails, MayFail, DoneInv
<1>6. ASSUME Before PROVE DoneInv'
  BY <1>6 DEF Before, DoneInv
<1>7. ASSUME PreludeFails PROVE DoneInv'
  BY <1>7 DEF PreludeFails, MayFail, GiveUp, DoneInv
<1>8. ASSUME NameRefused PROVE DoneInv'
  BY <1>8 DEF NameRefused, GiveUp, DoneInv
<1>9. ASSUME StoredFails PROVE DoneInv'
  BY <1>9 DEF StoredFails, CallMayFail, MayFail, DoneInv
<1>10. ASSUME Check PROVE DoneInv'
  BY <1>10 DEF Check, DoneInv
<1>11. ASSUME CheckFails PROVE DoneInv'
  BY <1>11 DEF CheckFails, MayFail, GiveUp, DoneInv
<1>12. ASSUME SendCreate PROVE DoneInv'
  BY <1>12 DEF SendCreate, DoneInv
<1>13. ASSUME SendCreateFails PROVE DoneInv'
  BY <1>13 DEF SendCreateFails, MayFail, GiveUp, DoneInv
<1>14. ASSUME SendUpdate PROVE DoneInv'
  BY <1>14 DEF SendUpdate, Write, DoneInv
<1>15. ASSUME SendUpdateFails PROVE DoneInv'
  BY <1>15 DEF SendUpdateFails, CallMayFail, MayFail, Write, GiveUp, DoneInv
<1>16. ASSUME Fetch PROVE DoneInv'
  BY <1>16 DEF Fetch, DoneInv
<1>17. ASSUME FetchFails PROVE DoneInv'
  BY <1>17 DEF FetchFails, CallMayFail, MayFail, GiveUp, DoneInv
<1>18. ASSUME Follow PROVE DoneInv'
  BY <1>18 DEF Follow, WriteExtra, DoneInv
<1>19. ASSUME FollowFails PROVE DoneInv'
  BY <1>19 DEF FollowFails, CallMayFail, MayFail, WriteExtra, GiveUp,
     GiveUpWith, DoneInv
<1>20. ASSUME Back PROVE DoneInv'
  BY <1>20 DEF Back, DoneInv
<1>21. ASSUME BackFails PROVE DoneInv'
  BY <1>21 DEF BackFails, CallMayFail, MayFail, GiveUp, GiveUpWith, DoneInv
<1>22. ASSUME Save PROVE DoneInv'
  <2> SUFFICES ASSUME result' = "none", ~meddled
               PROVE  /\ server # Absent
                      /\ server.main = config.main
                      /\ config.extra # Unset => server.extra = config.extra
                      /\ doubt' \/ server.secret = config.secret
    BY <1>22 DEF Save, DoneInv
  <2>1. pc = "save" /\ result = "none"
    BY <1>22 DEF Save
  <2>2. server # Absent /\ server.main = config.main
    BY <2>1 DEF WrittenInv, Written
  <2>3. config.extra # Unset => Planned.extra = config.extra
    BY PlannedParts DEF Planned, TypeOK
  <2>4. config.extra # Unset => server.extra = config.extra
    BY <2>1, <2>3 DEF ExtraInv, Written
  <2>5. doubt' = (doubt /\ (sending # config.secret \/ meddled))
    BY <1>22 DEF Save
  <2>6. ~doubt' => server.secret = config.secret
    BY <2>1, <2>2, <2>5, KeptSecret DEF Written
  <2>7. doubt' \in BOOLEAN
    BY <2>5
  <2> QED
    BY <2>2, <2>4, <2>6, <2>7
<1>23. ASSUME Test PROVE DoneInv'
  BY <1>23 DEF Test, DoneInv
<1>24. ASSUME TestFails PROVE DoneInv'
  BY <1>24 DEF TestFails, CallMayFail, MayFail, DoneInv
<1>25. ASSUME Edit PROVE DoneInv'
  BY <1>25 DEF Edit, DoneInv
<1>26. ASSUME OutsideChange PROVE DoneInv'
  BY <1>26 DEF OutsideChange, DoneInv
<1>27. ASSUME OutsideDelete PROVE DoneInv'
  BY <1>27 DEF OutsideDelete, DoneInv
<1>28. ASSUME UNCHANGED vars PROVE DoneInv'
  BY <1>28 DEF vars, DoneInv
<1> QED
  BY <1>1, <1>2, <1>3, <1>4, <1>5, <1>6, <1>7, <1>8, <1>9, <1>10,
     <1>11, <1>12, <1>13, <1>14, <1>15, <1>16, <1>17, <1>18,
     <1>19, <1>20, <1>21, <1>22, <1>23, <1>24, <1>25, <1>26,
     <1>27, <1>28
  DEF Next

LEMMA AppliedStep ==
  ASSUME TypeOK, PlaceInv, KindInv, ResultInv, RefreshedInv, SecretInv, DoneInv,
         ApplyConverges, [Next]_vars
  PROVE  ApplyConverges'
<1>1. ASSUME Refresh PROVE ApplyConverges'
  BY <1>1 DEF Refresh, ApplyConverges, Applied
<1>2. ASSUME RefreshFails PROVE ApplyConverges'
  BY <1>2 DEF RefreshFails, MayFail, ApplyConverges, Applied
<1>3. ASSUME Plan PROVE ApplyConverges'
  <2> SUFFICES ASSUME Applied'
               PROVE  /\ server # Absent
                      /\ server.main = config.main
                      /\ config.extra # Unset => server.extra = config.extra
                      /\ doubt \/ server.secret = config.secret
    BY <1>3 DEF Plan, ApplyConverges
  <2>1. /\ pc = "plan" /\ state # Absent /\ ~meddled
        /\ PlannedFrom(state) = state
    BY <1>3 DEF Plan, Applied
  <2>2. /\ server # Absent
        /\ state.main = server.main /\ state.extra = server.extra
    BY <2>1 DEF RefreshedInv
  <2>3. /\ state.main = config.main /\ state.secret = Plain(config)
        /\ state.version = config.version
        /\ config.extra # Unset => state.extra = config.extra
    BY <2>1, PlannedParts DEF TypeOK
  <2>4. /\ config.secret # Null <=> HasSecret(kind)
        /\ config.version > 0 <=> config.form = "companion"
    BY ConfigParts DEF TypeOK
  <2>5. CASE ~HasSecret(kind)
    BY <2>2, <2>3, <2>4, <2>5 DEF KindInv
  <2>6. CASE HasSecret(kind) /\ config.form = "companion"
    BY <2>1, <2>2, <2>3, <2>4, <2>6 DEF SecretInv
  <2>7. CASE HasSecret(kind) /\ config.form # "companion"
    <3>1. config.form = "plain"
      BY <2>7, ConfigParts DEF TypeOK
    <3> QED
      BY <2>1, <2>2, <2>3, <2>4, <2>7, <3>1 DEF SecretInv, Plain
  <2> QED
    BY <2>2, <2>3, <2>5, <2>6, <2>7
<1>4. ASSUME Delete PROVE ApplyConverges'
  BY <1>4 DEF Delete, ApplyConverges, Applied
<1>5. ASSUME DeleteFails PROVE ApplyConverges'
  BY <1>5 DEF DeleteFails, MayFail, ApplyConverges, Applied
<1>6. ASSUME Before PROVE ApplyConverges'
  BY <1>6 DEF Before, ApplyConverges, Applied
<1>7. ASSUME PreludeFails PROVE ApplyConverges'
  BY <1>7 DEF PreludeFails, MayFail, GiveUp, ApplyConverges, Applied
<1>8. ASSUME NameRefused PROVE ApplyConverges'
  BY <1>8 DEF NameRefused, GiveUp, ApplyConverges, Applied
<1>9. ASSUME StoredFails PROVE ApplyConverges'
  BY <1>9 DEF StoredFails, CallMayFail, MayFail, ApplyConverges, Applied
<1>10. ASSUME Check PROVE ApplyConverges'
  BY <1>10 DEF Check, ApplyConverges, Applied
<1>11. ASSUME CheckFails PROVE ApplyConverges'
  BY <1>11 DEF CheckFails, MayFail, GiveUp, ApplyConverges, Applied
<1>12. ASSUME SendCreate PROVE ApplyConverges'
  BY <1>12 DEF SendCreate, ApplyConverges, Applied
<1>13. ASSUME SendCreateFails PROVE ApplyConverges'
  BY <1>13 DEF SendCreateFails, MayFail, GiveUp, ApplyConverges, Applied
<1>14. ASSUME SendUpdate PROVE ApplyConverges'
  BY <1>14 DEF SendUpdate, Write, ApplyConverges, Applied
<1>15. ASSUME SendUpdateFails PROVE ApplyConverges'
  BY <1>15 DEF SendUpdateFails, CallMayFail, MayFail, Write, GiveUp,
     ApplyConverges, Applied
<1>16. ASSUME Fetch PROVE ApplyConverges'
  BY <1>16 DEF Fetch, ApplyConverges, Applied
<1>17. ASSUME FetchFails PROVE ApplyConverges'
  BY <1>17 DEF FetchFails, CallMayFail, MayFail, GiveUp, ApplyConverges,
     Applied
<1>18. ASSUME Follow PROVE ApplyConverges'
  BY <1>18 DEF Follow, WriteExtra, ApplyConverges, Applied
<1>19. ASSUME FollowFails PROVE ApplyConverges'
  BY <1>19 DEF FollowFails, CallMayFail, MayFail, WriteExtra, GiveUp,
     GiveUpWith, ApplyConverges, Applied
<1>20. ASSUME Back PROVE ApplyConverges'
  BY <1>20 DEF Back, ApplyConverges, Applied
<1>21. ASSUME BackFails PROVE ApplyConverges'
  BY <1>21 DEF BackFails, CallMayFail, MayFail, GiveUp, GiveUpWith,
     ApplyConverges, Applied
<1>22. ASSUME Save PROVE ApplyConverges'
  BY <1>22 DEF Save, ApplyConverges, Applied
<1>23. ASSUME Test PROVE ApplyConverges'
  <2>1. result' = "ok" => result = "none"
    BY <1>23 DEF Test, ResultInv
  <2> QED
    BY <1>23, <2>1 DEF Test, ApplyConverges, Applied, DoneInv
<1>24. ASSUME TestFails PROVE ApplyConverges'
  BY <1>24 DEF TestFails, CallMayFail, MayFail, ApplyConverges, Applied
<1>25. ASSUME Edit PROVE ApplyConverges'
  BY <1>25 DEF Edit, ApplyConverges, Applied
<1>26. ASSUME OutsideChange PROVE ApplyConverges'
  BY <1>26 DEF OutsideChange, ApplyConverges, Applied
<1>27. ASSUME OutsideDelete PROVE ApplyConverges'
  BY <1>27 DEF OutsideDelete, ApplyConverges, Applied
<1>28. ASSUME UNCHANGED vars PROVE ApplyConverges'
  BY <1>28 DEF vars, ApplyConverges, Applied
<1> QED
  BY <1>1, <1>2, <1>3, <1>4, <1>5, <1>6, <1>7, <1>8, <1>9, <1>10,
     <1>11, <1>12, <1>13, <1>14, <1>15, <1>16, <1>17, <1>18,
     <1>19, <1>20, <1>21, <1>22, <1>23, <1>24, <1>25, <1>26,
     <1>27, <1>28
  DEF Next

LEMMA CarriedStep ==
  ASSUME TypeOK, PlaceInv, CarriedInv, [Next]_vars
  PROVE  CarriedInv'
<1>n. Plain(config) # Null => HasSecret(kind) /\ SendsNew
  BY ConfigParts DEF TypeOK, Plain, SendsNew
<1>s. kind.flow.sends \in {"new", "every"}
  BY KindParts
<1>1. ASSUME Refresh PROVE CarriedInv'
  BY <1>1 DEF Refresh, Creating, Mute, CarriedInv, Sending, Written, Plain
<1>2. ASSUME RefreshFails PROVE CarriedInv'
  BY <1>2 DEF RefreshFails, MayFail, Creating, Mute, CarriedInv, Sending,
     Written, Plain
<1>3. ASSUME Plan PROVE CarriedInv'
  BY <1>3 DEF Plan, Creating, Mute, CarriedInv, Sending, Written, Plain
<1>4. ASSUME Delete PROVE CarriedInv'
  BY <1>4 DEF Delete, Creating, Mute, CarriedInv, Sending, Written, Plain
<1>5. ASSUME DeleteFails PROVE CarriedInv'
  BY <1>5 DEF DeleteFails, MayFail, Creating, Mute, CarriedInv, Sending,
     Written, Plain
<1>6. ASSUME Before PROVE CarriedInv'
  <2>1. Plain(config) # Null =>
          \/ SecretToSend = config.secret
          \/ kind.wire.secret # "returned"
          \/ Mute(kind) /\ ~Creating
    BY <1>n, <1>s DEF SecretToSend, Mute
  <2> QED
    BY <1>6, <2>1 DEF Before, CarriedInv, Plain, Mute, Creating
<1>7. ASSUME PreludeFails PROVE CarriedInv'
  BY <1>7 DEF PreludeFails, MayFail, GiveUp, Creating, Mute, CarriedInv,
     Sending, Written, Plain
<1>8. ASSUME NameRefused PROVE CarriedInv'
  BY <1>8 DEF NameRefused, GiveUp, Creating, Mute, CarriedInv, Sending,
     Written, Plain
<1>9. ASSUME StoredFails PROVE CarriedInv'
  BY <1>9 DEF StoredFails, CallMayFail, MayFail, Creating, Mute, CarriedInv,
     Sending, Written, Plain
<1>10. ASSUME Check PROVE CarriedInv'
  BY <1>10 DEF Check, Creating, Mute, CarriedInv, Sending, Written, Plain
<1>11. ASSUME CheckFails PROVE CarriedInv'
  BY <1>11 DEF CheckFails, MayFail, GiveUp, Creating, Mute, CarriedInv,
     Sending, Written, Plain
<1>12. ASSUME SendCreate PROVE CarriedInv'
  BY <1>12 DEF SendCreate, Creating, Mute, CarriedInv, Sending, Written,
     Plain
<1>13. ASSUME SendCreateFails PROVE CarriedInv'
  BY <1>13 DEF SendCreateFails, MayFail, GiveUp, Creating, Mute, CarriedInv,
     Sending, Written, Plain
<1>14. ASSUME SendUpdate PROVE CarriedInv'
  BY <1>14 DEF SendUpdate, Write, Creating, Mute, CarriedInv, Sending,
     Written, Plain
<1>15. ASSUME SendUpdateFails PROVE CarriedInv'
  BY <1>15 DEF SendUpdateFails, CallMayFail, MayFail, Write, GiveUp,
     Creating, Mute, CarriedInv, Sending, Written, Plain
<1>16. ASSUME Fetch PROVE CarriedInv'
  BY <1>16 DEF Fetch, Creating, Mute, CarriedInv, Sending, Written, Plain
<1>17. ASSUME FetchFails PROVE CarriedInv'
  BY <1>17 DEF FetchFails, CallMayFail, MayFail, GiveUp, Creating, Mute,
     CarriedInv, Sending, Written, Plain
<1>18. ASSUME Follow PROVE CarriedInv'
  BY <1>18 DEF Follow, WriteExtra, Creating, Mute, CarriedInv, Sending,
     Written, Plain
<1>19. ASSUME FollowFails PROVE CarriedInv'
  BY <1>19 DEF FollowFails, CallMayFail, MayFail, WriteExtra, GiveUp,
     GiveUpWith, Creating, Mute, CarriedInv, Sending, Written, Plain
<1>20. ASSUME Back PROVE CarriedInv'
  BY <1>20 DEF Back, Creating, Mute, CarriedInv, Sending, Written, Plain
<1>21. ASSUME BackFails PROVE CarriedInv'
  BY <1>21 DEF BackFails, CallMayFail, MayFail, GiveUp, GiveUpWith, Creating,
     Mute, CarriedInv, Sending, Written, Plain
<1>22. ASSUME Save PROVE CarriedInv'
  BY <1>22 DEF Save, Creating, Mute, CarriedInv, Sending, Written, Plain
<1>23. ASSUME Test PROVE CarriedInv'
  BY <1>23 DEF Test, Creating, Mute, CarriedInv, Sending, Written, Plain
<1>24. ASSUME TestFails PROVE CarriedInv'
  BY <1>24 DEF TestFails, CallMayFail, MayFail, Creating, Mute, CarriedInv,
     Sending, Written, Plain
<1>25. ASSUME Edit PROVE CarriedInv'
  BY <1>25 DEF Edit, Creating, Mute, CarriedInv, Sending, Written, Plain
<1>26. ASSUME OutsideChange PROVE CarriedInv'
  BY <1>26 DEF OutsideChange, Creating, Mute, CarriedInv, Sending, Written,
     Plain
<1>27. ASSUME OutsideDelete PROVE CarriedInv'
  BY <1>27 DEF OutsideDelete, Creating, Mute, CarriedInv, Sending, Written,
     Plain
<1>28. ASSUME UNCHANGED vars PROVE CarriedInv'
  BY <1>28 DEF vars, Creating, Mute, CarriedInv, Sending, Written, Plain
<1> QED
  BY <1>1, <1>2, <1>3, <1>4, <1>5, <1>6, <1>7, <1>8, <1>9, <1>10,
     <1>11, <1>12, <1>13, <1>14, <1>15, <1>16, <1>17, <1>18,
     <1>19, <1>20, <1>21, <1>22, <1>23, <1>24, <1>25, <1>26,
     <1>27, <1>28
  DEF Next

\* Where a read returns the secret and the flag is down, the secret of an
\* undisturbed handler is the configuration's.
LEMMA OpenSecret ==
  ASSUME TypeOK, PlaceInv, InUseInv, InPlaceInv, MuteInv, CarriedInv,
         SentInv, WrittenInv, Written, ~meddled, kind.wire.secret = "returned", ~flag
  PROVE  rec.secret = Plain(config)
<1>1. /\ kind.flow.flags # "never" /\ HasSecret(kind)
      /\ kind.flow.sends \in {"new", "every"}
      /\ Mute(kind) => kind.schema.replaces = "secret"
  BY KindParts DEF Sound, HasSecret, Mute
<1>0. ~InUse
  BY DEF InUseInv
<1>2. /\ config.version = 0 /\ Plain(config) = config.secret
      /\ config.secret # Null
  <2>1. config \in Configs(kind) /\ config.form # "companion"
    BY <1>0, <1>1 DEF TypeOK, InUse
  <2> QED
    BY <1>1, <2>1, ConfigParts DEF Plain
<1>3. server # Absent /\ rec.secret = server.secret
  BY DEF WrittenInv
<1>4. sending = config.secret \/ ~doubt
  BY <1>1, <1>2 DEF CarriedInv, InPlaceInv, MuteInv, PlaceInv, Creating,
     Handling, Written
<1> QED
  BY <1>2, <1>3, <1>4 DEF SentInv

LEMMA ConsistentStep ==
  ASSUME TypeOK, PlaceInv, InUseInv, InPlaceInv, MuteInv, CarriedInv, SentInv,
         WrittenInv, ExtraInv, ConsistentResult, [Next]_vars
  PROVE  ConsistentResult'
<1>1. ASSUME Refresh PROVE ConsistentResult'
  BY <1>1 DEF Refresh, ConsistentResult
<1>2. ASSUME RefreshFails PROVE ConsistentResult'
  BY <1>2 DEF RefreshFails, MayFail, ConsistentResult
<1>3. ASSUME Plan PROVE ConsistentResult'
  BY <1>3 DEF Plan, ConsistentResult
<1>4. ASSUME Delete PROVE ConsistentResult'
  BY <1>4 DEF Delete, ConsistentResult
<1>5. ASSUME DeleteFails PROVE ConsistentResult'
  BY <1>5 DEF DeleteFails, MayFail, ConsistentResult
<1>6. ASSUME Before PROVE ConsistentResult'
  BY <1>6 DEF Before, ConsistentResult
<1>7. ASSUME PreludeFails PROVE ConsistentResult'
  BY <1>7 DEF PreludeFails, MayFail, GiveUp, ConsistentResult
<1>8. ASSUME NameRefused PROVE ConsistentResult'
  BY <1>8 DEF NameRefused, GiveUp, ConsistentResult
<1>9. ASSUME StoredFails PROVE ConsistentResult'
  BY <1>9 DEF StoredFails, CallMayFail, MayFail, ConsistentResult
<1>10. ASSUME Check PROVE ConsistentResult'
  BY <1>10 DEF Check, ConsistentResult
<1>11. ASSUME CheckFails PROVE ConsistentResult'
  BY <1>11 DEF CheckFails, MayFail, GiveUp, ConsistentResult
<1>12. ASSUME SendCreate PROVE ConsistentResult'
  BY <1>12 DEF SendCreate, ConsistentResult
<1>13. ASSUME SendCreateFails PROVE ConsistentResult'
  BY <1>13 DEF SendCreateFails, MayFail, GiveUp, ConsistentResult
<1>14. ASSUME SendUpdate PROVE ConsistentResult'
  BY <1>14 DEF SendUpdate, Write, ConsistentResult
<1>15. ASSUME SendUpdateFails PROVE ConsistentResult'
  BY <1>15 DEF SendUpdateFails, CallMayFail, MayFail, Write, GiveUp,
     ConsistentResult
<1>16. ASSUME Fetch PROVE ConsistentResult'
  BY <1>16 DEF Fetch, ConsistentResult
<1>17. ASSUME FetchFails PROVE ConsistentResult'
  BY <1>17 DEF FetchFails, CallMayFail, MayFail, GiveUp, ConsistentResult
<1>18. ASSUME Follow PROVE ConsistentResult'
  BY <1>18 DEF Follow, WriteExtra, ConsistentResult
<1>19. ASSUME FollowFails PROVE ConsistentResult'
  BY <1>19 DEF FollowFails, CallMayFail, MayFail, WriteExtra, GiveUp,
     GiveUpWith, ConsistentResult
<1>20. ASSUME Back PROVE ConsistentResult'
  BY <1>20 DEF Back, ConsistentResult
<1>21. ASSUME BackFails PROVE ConsistentResult'
  BY <1>21 DEF BackFails, CallMayFail, MayFail, GiveUp, GiveUpWith,
     ConsistentResult
<1>22. ASSUME Save PROVE ConsistentResult'
  <2> SUFFICES ASSUME ~meddled, result = "none" PROVE Matches(Kept)
    BY <1>22 DEF Save, ConsistentResult
  <2>1. Written /\ rec \in Records /\ pc = "save"
    BY <1>22 DEF Save, Written, PlaceInv
  <2>2. rec = server /\ rec.main = config.main
    BY <2>1 DEF WrittenInv
  <2>3. /\ Planned.main = config.main /\ Planned.secret = Plain(config)
    BY PlannedParts DEF Planned, TypeOK
  <2>4. Planned.extra # Unset => rec.extra = Planned.extra
    BY <2>1, <2>2 DEF ExtraInv
  <2>5. Kept.secret = Plain(config)
    <3>1. flag => Plain(config) = Null
      BY <2>1 DEF InUseInv, InUse, Plain
    <3>2. kind.wire.secret = "returned" /\ ~flag => rec.secret = Plain(config)
      BY <2>1, OpenSecret
    <3> QED
      BY <2>1, <3>1, <3>2, KeptParts
  <2> QED
    BY <2>1, <2>2, <2>3, <2>4, <2>5, KeptParts DEF Matches
<1>23. ASSUME Test PROVE ConsistentResult'
  BY <1>23 DEF Test, ConsistentResult
<1>24. ASSUME TestFails PROVE ConsistentResult'
  BY <1>24 DEF TestFails, CallMayFail, MayFail, ConsistentResult
<1>25. ASSUME Edit PROVE ConsistentResult'
  BY <1>25 DEF Edit, ConsistentResult
<1>26. ASSUME OutsideChange PROVE ConsistentResult'
  BY <1>26 DEF OutsideChange, ConsistentResult
<1>27. ASSUME OutsideDelete PROVE ConsistentResult'
  BY <1>27 DEF OutsideDelete, ConsistentResult
<1>28. ASSUME UNCHANGED vars PROVE ConsistentResult'
  BY <1>28 DEF vars, ConsistentResult
<1> QED
  BY <1>1, <1>2, <1>3, <1>4, <1>5, <1>6, <1>7, <1>8, <1>9, <1>10,
     <1>11, <1>12, <1>13, <1>14, <1>15, <1>16, <1>17, <1>18,
     <1>19, <1>20, <1>21, <1>22, <1>23, <1>24, <1>25, <1>26,
     <1>27, <1>28
  DEF Next

\* Together, from the types and the places.
LEMMA ConvergeStep ==
  TypeOK /\ PlaceInv /\ ConvergeInv /\ [Next]_vars => ConvergeInv'
<1> SUFFICES ASSUME TypeOK, PlaceInv, ConvergeInv, [Next]_vars
             PROVE  ConvergeInv'
  OBVIOUS
<1>1. /\ ResultInv /\ VersionInv /\ KindInv /\ InUseInv /\ RefreshedInv
      /\ InPlaceInv /\ SecretInv /\ SentInv /\ WrittenInv /\ ExtraInv /\ DoneInv
      /\ MuteInv /\ CarriedInv
  BY DEF ConvergeInv
<1>2. ResultInv' /\ VersionInv' /\ KindInv' /\ InUseInv' /\ RefreshedInv'
  BY <1>1, ResultStep, VersionStep, KindStep, InUseStep, RefreshedStep
<1>3. InPlaceInv' /\ SecretInv' /\ SentInv' /\ WrittenInv'
  BY <1>1, InPlaceStep, SecretStep, SentStep, WrittenStep
<1>4. ExtraInv' /\ DoneInv' /\ MuteInv' /\ CarriedInv'
  BY <1>1, ExtraStep, DoneStep, MuteStep, CarriedStep
<1> QED
  BY <1>2, <1>3, <1>4 DEF ConvergeInv

LEMMA ConvergeInit == Init => ConvergeInv
<1> SUFFICES ASSUME Init PROVE ConvergeInv
  OBVIOUS
<1>1. config \in Configs(kind) /\ config.version \in 0 .. 1
  BY ConfigParts DEF Init
<1>2. /\ ResultInv /\ VersionInv /\ KindInv /\ InUseInv /\ RefreshedInv
      /\ InPlaceInv /\ SecretInv
  BY <1>1 DEF Init, ResultInv, VersionInv, KindInv, InUseInv, RefreshedInv,
              InPlaceInv, SecretInv, Handling, Sending, Written
<1>3. SentInv /\ WrittenInv /\ ExtraInv /\ DoneInv /\ MuteInv /\ CarriedInv
  BY DEF Init, SentInv, WrittenInv, ExtraInv, DoneInv, MuteInv, CarriedInv,
         Sending, Written
<1> QED
  BY <1>2, <1>3 DEF ConvergeInv

\* The convergence invariant holds in every reachable state.
LEMMA ConvergeAlways == Spec => []ConvergeInv
BY BaseAlways, ConvergeInit, ConvergeStep, PTL DEF Spec

\* Whatever failed, was left half done or drifted before it, an apply that
\* ends without an error has brought the record to the configuration.
THEOREM Converges == Spec => []ApplyConverges
<1>1. Init => ApplyConverges
  BY DEF Init, ApplyConverges, Applied
<1>2. TypeOK /\ PlaceInv /\ ConvergeInv /\ ApplyConverges /\ [Next]_vars
        => ApplyConverges'
  BY AppliedStep DEF ConvergeInv
<1> QED
  BY BaseAlways, ConvergeAlways, <1>1, <1>2, PTL DEF Spec

\* Terraform is never given anything but what it planned, unless somebody
\* changed the record under the handler.
THEOREM Consistent == Spec => []ConsistentResult
<1>1. Init => ConsistentResult
  BY DEF Init, ConsistentResult
<1>2. TypeOK /\ PlaceInv /\ ConvergeInv /\ ConsistentResult /\ [Next]_vars
        => ConsistentResult'
  BY ConsistentStep DEF ConvergeInv
<1> QED
  BY BaseAlways, ConvergeAlways, <1>1, <1>2, PTL DEF Spec
-----------------------------------------------------------------------------
(* The contract with the operator. *)

\* What each place of an apply is reached by.
LEMMA ReachedBy ==
  ASSUME [Next]_vars
  PROVE  /\ kind' = kind
         /\ pc' = "plan" => \/ Refresh
                            \/ pc = "plan" /\ (OutsideChange \/ OutsideDelete)
                            \/ UNCHANGED vars
         /\ pc' = "check" => \/ Before
                             \/ pc = "check" /\ (OutsideChange \/ OutsideDelete)
                             \/ UNCHANGED vars
         /\ pc' = "send" => \/ Check
                            \/ pc = "send" /\ (OutsideChange \/ OutsideDelete)
                            \/ UNCHANGED vars
         /\ pc' = "fetch" => \/ SendCreate \/ SendUpdate
                             \/ pc = "fetch" /\ (OutsideChange \/ OutsideDelete)
                             \/ UNCHANGED vars
         /\ pc' = "follow" => \/ Fetch
                              \/ pc = "follow" /\ (OutsideChange \/ OutsideDelete)
                              \/ UNCHANGED vars
         /\ pc' = "test" => \/ Save
                            \/ pc = "test" /\ (OutsideChange \/ OutsideDelete)
                            \/ UNCHANGED vars
BY DEF Next, vars, Refresh, RefreshFails, Plan, Delete, DeleteFails, Before, PreludeFails,
       NameRefused, StoredFails, Check, CheckFails, SendCreate, SendCreateFails, SendUpdate,
       SendUpdateFails, Fetch, FetchFails, Follow, FollowFails, Back, BackFails, Save, Test,
       TestFails, Edit, OutsideChange, OutsideDelete, GiveUp, GiveUpWith

\* Somebody else's change is noted.
LEMMA OutsideParts ==
  ASSUME OutsideChange \/ OutsideDelete
  PROVE  /\ meddled' = TRUE
         /\ pc' = pc /\ kind' = kind /\ config' = config /\ prior' = prior
         /\ sending' = sending /\ result' = result /\ state' = state
         /\ outside' = outside + 1
BY DEF OutsideChange, OutsideDelete

LEMMA ShownStep ==
  ASSUME TypeOK, PlaceInv, ConvergeInv, ShownInv, [Next]_vars
  PROVE  ShownInv'
<1>1. (/\ pc = "plan" /\ kind.wire.secret = "returned" /\ state # Absent /\ ~meddled
         => state.secret \in {Null, server.secret})'
  <2>1. CASE Refresh
    <3>1. server' = server /\ kind' = kind
          /\ (state' # Absent => state' = Flatten(server, state))
      BY <2>1 DEF Refresh
    <3>2. kind.wire.secret = "returned" =>
            Flatten(server, state).secret \in {Null, server.secret}
      BY FlattenParts
    <3> QED
      BY <3>1, <3>2
  <2>2. CASE OutsideChange \/ OutsideDelete
    BY <2>2, OutsideParts
  <2>3. CASE UNCHANGED vars
    BY <2>3 DEF vars, ShownInv
  <2> QED
    BY <2>1, <2>2, <2>3, ReachedBy
<1>2. (/\ pc = "test" /\ result = "none" /\ Shown /\ ~meddled
         => server.secret = config.secret)'
  <2>1. CASE Save
    <3> SUFFICES ASSUME result' = "none", Shown', ~meddled'
                 PROVE  (server.secret = config.secret)'
      OBVIOUS
    <3>1. /\ kind' = kind /\ config' = config /\ server' = server /\ meddled' = meddled
          /\ pc = "save"
      BY <2>1 DEF Save
    <3>2. Written /\ ~meddled /\ kind.wire.secret = "returned" /\ config.form = "plain"
      BY <3>1 DEF Shown, Written
    <3>3. ~flag
      BY <3>2 DEF ConvergeInv, InUseInv, InUse
    <3>4. rec.secret = Plain(config)
      BY <3>2, <3>3, OpenSecret DEF ConvergeInv
    <3>5. rec.secret = server.secret
      BY <3>2 DEF ConvergeInv, WrittenInv
    <3> QED
      BY <3>1, <3>2, <3>4, <3>5 DEF Plain
  <2>2. CASE OutsideChange \/ OutsideDelete
    BY <2>2, OutsideParts
  <2>3. CASE UNCHANGED vars
    BY <2>3 DEF vars, ShownInv, Shown
  <2> QED
    BY <2>1, <2>2, <2>3, ReachedBy
<1> QED
  BY <1>1, <1>2 DEF ShownInv

LEMMA EndedStep ==
  ASSUME TypeOK, PlaceInv, EndedInv, [Next]_vars
  PROVE  EndedInv'
<1>1. CASE Save
  <2>1. pc = "save" /\ state' = Kept
    BY <1>1 DEF Save
  <2> QED
    BY <2>1, KeptParts, AbsentAssumption DEF PlaceInv, Written, EndedInv, AbsentAssumption
<1>2. CASE OutsideChange \/ OutsideDelete
  BY <1>2, OutsideParts DEF EndedInv
<1>3. CASE UNCHANGED vars
  BY <1>3 DEF vars, EndedInv
<1> QED
  BY <1>1, <1>2, <1>3, ReachedBy DEF EndedInv

\* The secret to send is the configured one, none, or the one just read.
LEMMA ResentStep ==
  ASSUME TypeOK, ResentInv, [Next]_vars
  PROVE  ResentInv'
<1>1. CASE Before
  <2>1. /\ kind' = kind /\ config' = config /\ server' = server /\ meddled' = meddled
        /\ sending' = SecretToSend /\ (ReadsStored => server # Absent)
    BY <1>1 DEF Before
  <2>2. \/ SecretToSend \in {Mask, config.secret}
        \/ ReadsStored /\ SecretToSend = server.secret
    <3>1. kind.flow.sends \in {"new", "every"}
      BY KindParts
    <3>2. ~HasSecret(kind) => config.secret = Null
      BY ConfigParts DEF TypeOK
    <3> QED
      BY <3>1, <3>2 DEF SecretToSend
  <2>3. ReadsStored => kind.flow.stored # "never"
    BY DEF ReadsStored
  <2> QED
    BY <2>1, <2>2, <2>3 DEF ResentInv
<1>2. CASE Check
  BY <1>2 DEF Check, ResentInv, Sending
<1>3. CASE OutsideChange \/ OutsideDelete
  BY <1>3, OutsideParts DEF ResentInv, Sending
<1>4. CASE UNCHANGED vars
  BY <1>4 DEF vars, ResentInv, Sending
<1>5. CASE ~Sending'
  BY <1>5 DEF ResentInv
<1> QED
  BY <1>1, <1>2, <1>3, <1>4, <1>5, ReachedBy DEF Sending

LEMMA LeftStep ==
  ASSUME TypeOK, PlaceInv, ConvergeInv, LeftInv, [Next]_vars
  PROVE  LeftInv'
<1>1. CASE SendCreate
  BY <1>1 DEF SendCreate, LeftInv, Creating
<1>2. CASE SendUpdate
  <2> SUFFICES ASSUME ~meddled, kind.flow.extra # "update"
               PROVE  (server # Absent /\ server.extra = prior.extra)'
    BY <1>2 DEF SendUpdate, LeftInv
  <2>1. /\ pc = "send" /\ ~Creating /\ server # Absent /\ server' = Updated
        /\ prior' = prior
    BY <1>2 DEF SendUpdate, Write
  <2>2. Updated.extra = server.extra /\ Updated \in Records
    BY <2>1, UpdatedParts
  <2>3. prior = state /\ state # Absent /\ state.extra = server.extra
    BY <2>1 DEF PlaceInv, Handling, Sending, Creating, ConvergeInv, RefreshedInv
  <2> QED
    BY <2>1, <2>2, <2>3, AbsentAssumption DEF AbsentAssumption
<1>3. CASE Fetch
  BY <1>3 DEF Fetch, LeftInv, Creating
<1>4. CASE OutsideChange \/ OutsideDelete
  BY <1>4, OutsideParts DEF LeftInv
<1>5. CASE UNCHANGED vars
  BY <1>5 DEF vars, LeftInv, Creating
<1>6. CASE pc' \notin {"fetch", "follow"}
  BY <1>6 DEF LeftInv
<1> QED
  BY <1>1, <1>2, <1>3, <1>4, <1>5, <1>6, ReachedBy

\* What is wanted is what is configured.
LEMMA WantedParts ==
  /\ DOMAIN Wanted.value = {"main", "secret"}
                            \cup (IF config.extra = Unset THEN {} ELSE {"extra"})
  /\ \A k \in DOMAIN Wanted.value : Wanted.value[k] = config[k]
  /\ Wanted.hidden = IF Shown THEN {} ELSE {"secret"}
  /\ Wanted.resent = (IF config.extra = Unset THEN {"extra"} ELSE {})
                      \cup (IF kind.flow.stored = "never" THEN {} ELSE {"secret"})
<1> DEFINE D == {"main", "secret"} \cup (IF config.extra = Unset THEN {} ELSE {"extra"})
<1>1. Wanted.value = [k \in D |-> config[k]]
  BY DEF Wanted
<1>2. /\ Wanted.hidden = IF Shown THEN {} ELSE {"secret"}
      /\ Wanted.resent = (IF config.extra = Unset THEN {"extra"} ELSE {})
                      \cup (IF kind.flow.stored = "never" THEN {} ELSE {"secret"})
  BY DEF Wanted
<1> QED
  BY <1>1, <1>2

LEMMA MeetsParts ==
  ASSUME TypeOK, Ours, server # Absent, server.main = config.main,
         config.extra # Unset => server.extra = config.extra,
         Shown => server.secret = config.secret
  PROVE  Contract!Meets
<1>1. server.secret \in SomeSecret
  BY RecordParts DEF TypeOK
<1>2. ASSUME NEW k \in DOMAIN Wanted.value
      PROVE  \/ server[k] = Wanted.value[k]
             \/ k \in Wanted.hidden /\ server[k] \in SomeSecret
  <2>1. Wanted.value[k] = config[k]
    BY <1>2, WantedParts
  <2>2. CASE k = "main"
    BY <2>1, <2>2
  <2>3. CASE k = "secret"
    BY <1>1, <2>1, <2>3, WantedParts
  <2>4. CASE k = "extra" /\ config.extra # Unset
    BY <2>1, <2>4
  <2> QED
    BY <1>2, <2>2, <2>3, <2>4, WantedParts
<1> QED
  BY <1>2 DEF Contract!Meets, OurRecord

\* What a call may do to the fields of a record.
MayWrite(r) ==
  /\ r # Absent /\ DOMAIN r = DOMAIN server
  /\ \A k \in DOMAIN server :
       \/ r[k] = server[k]
       \/ k \in DOMAIN Wanted.value /\ r[k] = Wanted.value[k]
       \/ k \in Wanted.resent /\ meddled

LEMMA WriteParts ==
  ASSUME TypeOK, server # Absent, NEW r \in Records,
         r.main \in {server.main, config.main},
         \/ r.extra = server.extra
         \/ config.extra # Unset /\ r.extra = config.extra
         \/ config.extra = Unset /\ meddled,
         \/ r.secret \in {server.secret, config.secret}
         \/ kind.flow.stored # "never" /\ meddled
  PROVE  MayWrite(r)
<1>1. server \in Records
  BY DEF TypeOK
<1>2. /\ DOMAIN r = {"main", "extra", "secret"}
      /\ DOMAIN server = {"main", "extra", "secret"}
  BY <1>1 DEF Records
<1>3. r # Absent
  BY AbsentAssumption DEF AbsentAssumption
<1>4. \/ r["main"] = server["main"]
      \/ "main" \in DOMAIN Wanted.value /\ r["main"] = Wanted.value["main"]
  BY WantedParts
<1>5. \/ r["extra"] = server["extra"]
      \/ "extra" \in DOMAIN Wanted.value /\ r["extra"] = Wanted.value["extra"]
      \/ "extra" \in Wanted.resent /\ meddled
  BY WantedParts
<1>6. \/ r["secret"] = server["secret"]
      \/ "secret" \in DOMAIN Wanted.value /\ r["secret"] = Wanted.value["secret"]
      \/ "secret" \in Wanted.resent /\ meddled
  BY WantedParts
<1> QED
  BY <1>2, <1>3, <1>4, <1>5, <1>6 DEF MayWrite

\* An update changes what it changes to what is wanted of it, but for what it
\* resends, which somebody else may have changed since.
LEMMA UpdateWrites ==
  ASSUME TypeOK, PlaceInv, ConvergeInv, ResentInv, pc = "send", ~Creating, server # Absent
  PROVE  MayWrite(Updated)
<1>1. /\ Updated \in Records /\ Updated.main = config.main
      /\ Updated.extra = IF kind.flow.extra = "update" THEN Planned.extra ELSE server.extra
      /\ Updated.secret = IF sending = Mask THEN server.secret ELSE sending
  BY UpdatedParts
<1>2. Planned.extra = IF config.extra = Unset THEN prior.extra ELSE config.extra
  BY PlannedParts DEF Planned, TypeOK, Creating
<1>3. meddled \/ prior.extra = server.extra
  BY DEF PlaceInv, Handling, Sending, Creating, ConvergeInv, RefreshedInv
<1>4. \/ Updated.secret \in {server.secret, config.secret}
      \/ kind.flow.stored # "never" /\ meddled
  BY <1>1 DEF ResentInv, Sending
<1> QED
  BY <1>1, <1>2, <1>3, <1>4, WriteParts

\* So does the call for the extra attribute.
LEMMA FollowWrites ==
  ASSUME TypeOK, PlaceInv, LeftInv, pc = "follow", Follows, WriteExtra
  PROVE  MayWrite(server')
<1>1. /\ Planned.extra \in {Default, Other}
      /\ server # Absent /\ server' \in Records
      /\ server'.extra = Planned.extra /\ server'.secret = server.secret
      /\ server'.main = IF kind.flow.extra = "update" THEN config.main ELSE server.main
  BY FollowParts DEF PlaceInv, Written
<1>2. Planned.extra = IF config.extra = Unset /\ ~Creating THEN prior.extra
                                                           ELSE config.extra
  BY PlannedParts DEF Planned, TypeOK, Creating
<1>3. CASE config.extra # Unset
  BY <1>1, <1>2, <1>3, WriteParts
<1>4. CASE config.extra = Unset
  <2>1. ~Creating
    BY <1>1, <1>2, <1>4, ExtraAssumption DEF ExtraAssumption
  <2>2. kind.flow.extra # "update"
    BY <2>1 DEF Follows
  <2>3. meddled \/ server.extra = prior.extra
    BY <2>1, <2>2 DEF LeftInv
  <2> QED
    BY <1>1, <1>2, <1>4, <2>1, <2>3, WriteParts
<1> QED
  BY <1>3, <1>4

\* The end of an apply that reports success.
LEMMA EndMeets ==
  ASSUME TypeOK, ConvergeInv, ShownInv, EndedInv, ApplyConverges', Plan \/ Test,
         pc' = "idle", result' = "ok", ~meddled
  PROVE  Contract!Meets
<1>1. /\ config' = config /\ server' = server /\ doubt' = doubt /\ kind' = kind
      /\ meddled' = meddled
  BY DEF Plan, Test
<1>2. /\ server # Absent /\ server.main = config.main
      /\ config.extra # Unset => server.extra = config.extra
  BY <1>1 DEF ApplyConverges, Applied
<1>3. ASSUME Shown PROVE server.secret = config.secret
  <2>1. kind.wire.secret = "returned" /\ Plain(config) = config.secret
    BY <1>3 DEF Shown, Plain
  <2>2. config.secret # Null
    BY <2>1, ConfigParts DEF TypeOK, HasSecret
  <2>3. CASE Plan
    <3>1. pc = "plan" /\ state # Absent /\ PlannedFrom(state) = state
      BY <2>3 DEF Plan, TypeOK, ConvergeInv, ResultInv
    <3>2. state.secret = config.secret
      BY <2>1, <3>1, PlannedParts DEF TypeOK
    <3> QED
      BY <2>1, <2>2, <3>1, <3>2 DEF ShownInv
  <2>4. CASE Test
    BY <1>3, <2>4 DEF Test, ShownInv, ConvergeInv, ResultInv
  <2> QED
    BY <2>3, <2>4
<1>4. Ours
  BY DEF Plan, Test, Ours, EndedInv, TypeOK, ConvergeInv, ResultInv
<1> QED
  BY <1>2, <1>3, <1>4, MeetsParts

\* Every step of a handler is one of the contract.
LEMMA ContractStep ==
  ASSUME TypeOK, PlaceInv, ConvergeInv, WritesInv, ApplyConverges', [Next]_vars
  PROVE  [Contract!Next]_(Contract!vars)
<1> DEFINE Verdict == IF pc # "idle" THEN "running"
                      ELSE IF result = "inconsistent" THEN "error" ELSE result
<1> USE DEF Contract!Next, Contract!vars
<1>0. /\ config' = config /\ kind' = kind => Wanted' = Wanted
      /\ result # "running" /\ kind' = kind
  BY ReachedBy DEF Wanted, Shown, TypeOK
<1>1. CASE Refresh
  <2>1. state' # Absent <=> state # Absent /\ server # Absent
    BY <1>1, FlattenType, StateParts, AbsentAssumption
    DEF Refresh, TypeOK, AbsentAssumption
  <2>2. OurRecord' = OurRecord
    BY <1>1, <2>1 DEF Refresh, OurRecord, Ours
  <2> QED
    BY <1>0, <1>1, <2>2 DEF Refresh, Contract!Begin
<1>2. CASE Plan \/ Test
  <2>1. /\ pc # "idle" /\ config' = config /\ OurRecord' = OurRecord /\ meddled' = meddled
        /\ outside' = outside
        /\ pc' = "idle" => result' \in {"ok", "error", "inconsistent"}
    <3>1. result \in {"none", "ok", "error", "inconsistent"}
      BY DEF TypeOK
    <3> QED
      BY <1>2, <3>1 DEF Plan, Test, OurRecord, Ours
  <2>2. CASE pc' # "idle"
    BY <1>0, <2>1, <2>2
  <2>3. CASE pc' = "idle" /\ result' = "ok"
    <3>1. meddled \/ Contract!Meets
      BY <1>2, <2>3, EndMeets DEF WritesInv
    <3> QED
      BY <1>0, <2>1, <2>3, <3>1 DEF Contract!Succeed
  <2>4. CASE pc' = "idle" /\ result' # "ok"
    BY <1>0, <2>1, <2>4 DEF Contract!Fail
  <2> QED
    BY <2>2, <2>3, <2>4
<1>3. CASE Delete
  <2>1. OurRecord' = Absent
    BY <1>3 DEF Delete, OurRecord
  <2> QED
    BY <1>0, <1>3, <2>1 DEF Delete, Contract!Remove
<1>4. CASE DeleteFails
  <2>1. OurRecord' \in {OurRecord, Absent}
    BY <1>4 DEF DeleteFails, OurRecord, Ours
  <2> QED
    BY <1>0, <1>4, <2>1 DEF DeleteFails, Contract!Remove, Contract!Fail
<1>5. CASE Before \/ Check \/ Fetch \/ Back \/ Save
  <2>1. /\ pc # "idle" /\ pc' # "idle" /\ config' = config /\ server' = server
        /\ meddled' = meddled /\ outside' = outside
    BY <1>5 DEF Before, Check, Fetch, Back, Save
  <2>2. Save => Kept # Absent
    BY KeptParts, AbsentAssumption DEF Save, PlaceInv, Written, AbsentAssumption
  <2>3. Ours' <=> Ours
    BY <1>5, <2>2 DEF Before, Check, Fetch, Back, Save, Ours
  <2> QED
    BY <1>0, <2>1, <2>3 DEF OurRecord
<1>6. CASE \/ RefreshFails \/ PreludeFails \/ NameRefused \/ StoredFails \/ CheckFails
           \/ FetchFails \/ BackFails \/ TestFails \/ SendCreateFails
  <2>1. /\ pc' = "idle" /\ result' = "error" /\ config' = config
        /\ meddled' = meddled /\ outside' = outside
    BY <1>6 DEF RefreshFails, PreludeFails, NameRefused, StoredFails, CheckFails, FetchFails,
                BackFails, TestFails, SendCreateFails, GiveUp, GiveUpWith
  <2>2. OurRecord' = OurRecord \/ (pc # "idle" /\ OurRecord' = Absent)
    <3>1. CASE RefreshFails \/ StoredFails \/ TestFails
      BY <3>1 DEF RefreshFails, StoredFails, TestFails, OurRecord, Ours
    <3>2. CASE PreludeFails \/ NameRefused \/ CheckFails \/ FetchFails
      <4>1. pc # "idle" /\ server' = server /\ state' \in {state, Absent}
        BY <3>2 DEF PreludeFails, NameRefused, CheckFails, FetchFails, GiveUp
      <4> QED
        BY <2>1, <4>1 DEF OurRecord, Ours
    <3>3. CASE BackFails
      <4>1. pc = "back" /\ server' = server
        BY <3>3 DEF BackFails
      <4> QED
        BY <2>1, <4>1 DEF OurRecord, Ours
    <3>4. CASE SendCreateFails
      <4>1. pc # "idle" /\ state' = Absent
        BY <3>4 DEF SendCreateFails, GiveUp
      <4> QED
        BY <2>1, <4>1 DEF OurRecord, Ours
    <3> QED
      BY <1>6, <3>1, <3>2, <3>3, <3>4
  <2>3. CASE OurRecord' = OurRecord
    BY <1>0, <2>1, <2>3 DEF Contract!Fail
  <2>4. CASE pc # "idle" /\ OurRecord' = Absent
    BY <1>0, <2>1, <2>4 DEF Contract!Remove
  <2> QED
    BY <2>2, <2>3, <2>4
<1>7. CASE SendCreate
  <2>1. /\ pc = "send" /\ pc' = "fetch" /\ Creating /\ config' = config
        /\ meddled' = meddled /\ outside' = outside /\ server' = Made
    BY <1>7 DEF SendCreate
  <2>2. Made # Absent
    <3>1. sending # Mask
      BY <2>1, ConfigParts, SecretsAssumption DEF TypeOK, PlaceInv, Sending, SecretsAssumption
    <3> QED
      BY <3>1, MadeParts, AbsentAssumption DEF AbsentAssumption
  <2>3. OurRecord = Absent /\ OurRecord' = Made
    BY <2>1 DEF OurRecord, Ours, PlaceInv, Handling, Sending, Creating
  <2> QED
    BY <1>0, <2>1, <2>2, <2>3 DEF Contract!Create
<1>8. CASE SendUpdate \/ SendUpdateFails \/ Follow \/ FollowFails
  <2>1. /\ pc # "idle" /\ config' = config /\ meddled' = meddled /\ outside' = outside
        /\ pc' # "idle" \/ (pc' = "idle" /\ result' = "error")
    BY <1>8 DEF SendUpdate, SendUpdateFails, Follow, FollowFails, GiveUp, GiveUpWith
  <2>2. \/ server' = server
        \/ server # Absent /\ MayWrite(server')
    <3>1. CASE SendUpdate \/ SendUpdateFails
      <4>1. /\ pc = "send" /\ ~Creating
            /\ server' = server \/ (server # Absent /\ server' = Updated)
        BY <3>1 DEF SendUpdate, SendUpdateFails, Write
      <4> QED
        BY <4>1, UpdateWrites DEF WritesInv
    <3>2. CASE Follow \/ FollowFails
      <4>1. /\ pc = "follow"
            /\ server' = server \/ (Follows /\ WriteExtra)
        BY <3>2 DEF Follow, FollowFails
      <4>2. WriteExtra => server # Absent
        BY DEF WriteExtra
      <4> QED
        BY <4>1, <4>2, FollowWrites DEF WritesInv
    <3> QED
      BY <1>8, <3>1, <3>2
  <2>3. Ours
    <3>1. (pc = "send" /\ ~Creating) \/ pc = "follow"
      BY <1>8 DEF SendUpdate, SendUpdateFails, Follow, FollowFails
    <3> QED
      BY <3>1 DEF Ours, PlaceInv, Handling, Sending, Creating
  <2>4. pc' # "idle" => Ours'
    BY <1>8 DEF SendUpdate, SendUpdateFails, Follow, FollowFails, GiveUp, GiveUpWith, Ours
  <2>5. OurRecord = server /\ OurRecord' \in {server', Absent}
    BY <2>3 DEF OurRecord
  <2>6. CASE ~Ours'
    <3>1. OurRecord' = Absent
      BY <2>6 DEF OurRecord
    <3> QED
      BY <1>0, <2>1, <2>4, <2>6, <3>1 DEF Contract!Remove
  <2>7. CASE Ours' /\ server' = server
    BY <1>0, <2>1, <2>5, <2>7 DEF OurRecord, Contract!Fail
  <2>8. CASE Ours' /\ server # Absent /\ MayWrite(server')
    <3>1. OurRecord' = server'
      BY <2>8 DEF OurRecord
    <3> QED
      BY <1>0, <2>1, <2>5, <2>8, <3>1 DEF MayWrite, Contract!Write
  <2> QED
    BY <2>2, <2>6, <2>7, <2>8
<1>9. CASE Edit
  BY <1>0, <1>9 DEF Edit, Contract!Ask, OurRecord, Ours
<1>10. CASE OutsideChange \/ OutsideDelete
  <2>1. /\ meddled' = TRUE /\ Wanted' = Wanted
        /\ pc' = pc /\ result' = result /\ outside' = outside + 1
    BY <1>0, <1>10, OutsideParts
  <2>2. Contract!Disturb
    BY <2>1 DEF Contract!Disturb
  <2> QED
    BY <2>2
<1>11. CASE UNCHANGED vars
  BY <1>0, <1>11 DEF vars, OurRecord, Ours
<1> QED
  BY <1>1, <1>2, <1>3, <1>4, <1>5, <1>6, <1>7, <1>8, <1>9, <1>10, <1>11 DEF Next

\* Every resource that is Sound implements Reconcile, whatever fails, is lost or
\* drifts.
THEOREM Implements == Spec => ImplementsReconcile
<1>1. Init => Contract!Init /\ WritesInv
  BY DEF Init, Contract!Init, OurRecord, WritesInv, ShownInv, EndedInv, ResentInv, LeftInv, Sending
<1>2. TypeOK /\ PlaceInv /\ ConvergeInv /\ WritesInv /\ [Next]_vars => WritesInv'
  BY ShownStep, EndedStep, ResentStep, LeftStep DEF WritesInv
<1>3. TypeOK /\ PlaceInv /\ ConvergeInv /\ WritesInv /\ ApplyConverges' /\ [Next]_vars
        => [Contract!Next]_(Contract!vars)
  BY ContractStep
<1> QED
  BY <1>1, <1>2, <1>3, BaseAlways, ConvergeAlways, Converges, PTL
     DEF Spec, ImplementsReconcile, Contract!Spec
=============================================================================
