----------------------------- MODULE EnvVarsInv -----------------------------
(* Inductive invariants of EnvVars. *)
EXTENDS EnvVars

Writing == pc \in {"write", "put", "readback", "check"}

\* What each place of the run knows beyond the types: there is a map to
\* write, the GET before a POST has returned fields, and the GET after it a
\* map.
PlaceInv ==
  /\ Writing => config \in Maps
  /\ pc \in {"put", "clear"} => resent \in Fields
  /\ pc = "check" => got \in Readable

\* Until somebody else writes, what is about to be resent is what is stored.
FreshInv ==
  (pc \in {"put", "clear"} /\ ~raced /\ server # Absent)
    => server.fields = resent

\* Between its write and the end of Create the text is in no state yet.
LeftInv ==
  (state = Absent /\ server # Absent /\ left /\ ~warned /\ ~restored)
    => pc \in {"readback", "check"}

IInv == TypeOK /\ PlaceInv /\ FreshInv /\ LeftInv
-----------------------------------------------------------------------------
(* What a write rests on. *)

\* A write is of a map that was accepted; what it wrote stays until somebody
\* else writes, and is what the GET after it returned.
ReadBackInv ==
  /\ config # Absent => Valid(config)
  /\ Writing => config # Absent
  /\ (pc = "readback" /\ ~raced /\ server # Absent)
       => server.text = renderEnv(config)
  /\ LegibleMapIsReadBack

\* The variables wait for the owner, and a race within writeEnv is one within
\* the run.
OrderInv ==
  /\ pc \in {"put", "readback", "check"} => ~saving
  /\ (pc \in {"put", "readback", "check", "clear"} /\ raced) => meddled

Undisturbed == ~meddled /\ result # "error"

Applying == Writing \/ pc \in {"delete", "clear", "cleared", "done"}

\* The run refreshed both resources from one record: what it has not changed
\* yet is as refreshed, what it has changed is as configured.
RefreshedInv ==
  Undisturbed =>
    /\ pc \in {"refresh", "plan"} => owner = server
    /\ (pc = "plan" /\ state # Absent)
         => server # Absent /\ state = parseEnv(server.text)

OwnerInv ==
  (Undisturbed /\ Applying /\ ~saving /\ server # Absent)
    => server.fields = fields

MapInv ==
  (Undisturbed /\ config # Absent) =>
    /\ pc = "check" => server # Absent /\ parseEnv(server.text) = got
    /\ pc = "done" => /\ server # Absent /\ parseEnv(server.text) = config
                      /\ state = config /\ ~tainted
                      /\ saving => owner = server

ConvergeInv == OrderInv /\ RefreshedInv /\ OwnerInv /\ MapInv /\ BothConverge

=============================================================================
