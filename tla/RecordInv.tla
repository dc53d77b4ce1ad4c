----------------------------- MODULE RecordInv ------------------------------
(* Inductive invariants of Record, for every kind that is Sound.           *)
EXTENDS Record

Booleans ==
  /\ flag \in BOOLEAN /\ tainted \in BOOLEAN /\ known \in BOOLEAN
  /\ meddled \in BOOLEAN /\ doubt \in BOOLEAN

Sending  == pc \in {"check", "send"}
Written  == pc \in {"fetch", "follow", "back", "save"}
Handling == pc = "before" \/ Sending \/ Written

\* What each place knows beyond the types: an answer to work with after the
\* write, the state the apply was planned against, a secret to create with.
PlaceInv ==
  /\ Written => rec \in Records
  /\ (Handling \/ pc = "delete") => state = prior
  /\ ((Sending \/ Written) /\ Creating) => sending = config.secret

\* A plain secret was given openly.
OpenInv == Plain(config) # Null => Plain(config) \in openly

\* Where a read returns the secret, a configuration without an open one has
\* raised the flag before there is a state for a read to put it in.
FlagInv ==
  /\ (openly = {} /\ kind.wire.secret = "returned"
        /\ (state # Absent \/ Sending \/ Written)) => flag
  /\ CompanionKeptOut

\* A record whose id the provider knows is in the state or on its way there.
KnownInv ==
  /\ (Recording(kind) /\ known /\ server # Absent /\ state = Absent) => Written
  /\ (pc = "fetch" /\ Creating /\ kind.wire.create = "nothing") => ~known

\* The test that passed was of what is about to be written.
TestInv ==
  (pc = "send" /\ Tests("before") /\ ~meddled /\ (sending = Mask => server # Absent))
    => passed = [main |-> config.main, secret |-> Meant(sending)]

-----------------------------------------------------------------------------
(* Convergence. *)

\* Until it is over an apply has no result, but for a call that a handler
\* passes over.
ResultInv ==
  /\ (pc \in {"plan", "delete"} \/ Handling) =>
       result = "none" \/ (pc \in {"back", "save"} /\ result = "error")
  /\ pc = "test" => result # "ok"

\* Versions are never reused: the next one is edits + 2.
VersionInv ==
  /\ config.version <= edits + 1
  /\ state # Absent => state.version <= edits + 1

\* A resource without a secret has none anywhere, and one without an extra
\* attribute leaves it alone.
KindInv ==
  /\ ~HasSecret(kind) => /\ Sending => sending = Null
                         /\ server # Absent => server.secret = Null
                         /\ state # Absent => state.secret = Null
  /\ server # Absent => server.extra \in ExtraOf(kind)

\* The flag is that of the configuration while a handler runs, and stays with
\* the state that the handler left.
InUseInv ==
  /\ (Sending \/ Written) => flag = InUse
  /\ (state # Absent /\ state.version = config.version /\ config.version > 0
        /\ kind.flow.flags # "never") => flag

\* Until the write, the state is what the refresh found.
RefreshedInv ==
  ((pc \in {"plan", "delete", "before"} \/ Sending) /\ state # Absent /\ ~meddled)
    => /\ server # Absent
       /\ state.main = server.main /\ state.extra = server.extra

\* An update in place of a record whose secret no update carries has no new
\* secret to carry.
InPlaceInv ==
  (Handling /\ ~Creating /\ kind.schema.replaces = "secret")
    => prior.secret = Plain(config) /\ prior.version = config.version

\* What the state says of the secret is so, unless it is in doubt: by its
\* version, or by itself.
SecretInv ==
  (state # Absent /\ server # Absent /\ ~doubt) =>
    /\ (state.version = config.version /\ config.version > 0)
         => server.secret = config.secret
    /\ state.secret # Null => server.secret = state.secret

\* What was sent is there, and what was not sent need not be.
SentInv ==
  /\ (Written /\ server # Absent) =>
       /\ sending = config.secret => server.secret = config.secret \/ (doubt /\ meddled)
       /\ doubt \/ rec.secret = server.secret
  /\ ((Sending \/ Written) /\ server # Absent /\ sending # config.secret /\ ~doubt)
       => server.secret = config.secret

\* After the write the record is as planned, and as answered.
WrittenInv ==
  (Written /\ ~meddled) =>
    /\ server # Absent
    /\ server.main = config.main /\ rec.main = config.main
    /\ rec.secret = server.secret
    /\ result = "none" => rec = server

\* The extra attribute is as planned before the call for it where there is
\* no such call, and after it everywhere.
ExtraInv ==
  (Written /\ ~meddled /\ result = "none" /\ Planned.extra # Unset) =>
    /\ pc \in {"back", "save"} => server.extra = Planned.extra
    /\ (pc \in {"fetch", "follow"} /\ ~Creating /\ kind.flow.extra = "own")
         => server.extra = prior.extra
    /\ (pc \in {"fetch", "follow"} /\ ~Creating /\ kind.flow.extra = "update")
         => server.extra = Planned.extra
    /\ (pc \in {"fetch", "follow"} /\ Creating) => server.extra = Default

\* Between the state and the test.
DoneInv ==
  (pc = "test" /\ result = "none" /\ ~meddled) =>
    /\ server # Absent
    /\ server.main = config.main
    /\ config.extra # Unset => server.extra = config.extra
    /\ doubt \/ server.secret = config.secret

\* A secret that reads return and no update carries: once the plain attribute
\* has set it, an update in place finds it without a doubt and leaves it so.
Mute(k) ==
  k.wire.secret = "returned" /\ k.flow.stored = "never" /\ k.flow.sends = "new"

MuteInv ==
  Mute(kind) =>
    /\ (state # Absent /\ state.version = 0) => ~flag
    /\ ((pc \in {"plan", "before"} \/ Sending \/ Written) /\ state # Absent
          /\ state.version = 0 /\ ~meddled) => ~doubt
    /\ (Sending /\ ~Creating) => sending = Mask

\* A plain secret travels, unless no update carries it.
CarriedInv ==
  ((Sending \/ Written) /\ Plain(config) # Null) =>
    sending = config.secret \/ (Mute(kind) /\ ~Creating)
    \/ kind.wire.secret # "returned"

\* Together.
ConvergeInv ==
  /\ ResultInv /\ VersionInv /\ KindInv /\ InUseInv /\ RefreshedInv
  /\ InPlaceInv /\ SecretInv /\ SentInv /\ WrittenInv /\ ExtraInv /\ DoneInv
  /\ MuteInv /\ CarriedInv
-----------------------------------------------------------------------------
(* The contract with the operator. *)

\* A secret that reads show is in the state as the refresh found it, and is the
\* configured one when a handler has come to its end.
ShownInv ==
  /\ (pc = "plan" /\ kind.wire.secret = "returned" /\ state # Absent /\ ~meddled)
       => state.secret \in {Null, server.secret}
  /\ (pc = "test" /\ result = "none" /\ Shown /\ ~meddled)
       => server.secret = config.secret

\* A handler that has come to its end has stored a state.
EndedInv == pc = "test" => state # Absent

\* A write carries the configured secret, none, or the one that was read.
ResentInv ==
  Sending =>
    \/ sending \in {Mask, config.secret}
    \/ /\ kind.flow.stored # "never"
       /\ ~meddled => server # Absent /\ sending = server.secret

\* Until the call for the extra attribute, an update has left it alone.
LeftInv ==
  (pc \in {"fetch", "follow"} /\ ~Creating /\ kind.flow.extra # "update" /\ ~meddled)
    => server # Absent /\ server.extra = prior.extra

WritesInv == ShownInv /\ EndedInv /\ ResentInv /\ LeftInv
=============================================================================
