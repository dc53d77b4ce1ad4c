--------------------------- MODULE ApplicationInv ---------------------------
(* Inductive invariants of Application.                                    *)
EXTENDS Application

Handling == pc \in Calls \cup {"readback", "deploy"}
Applying == Handling \/ pc = "create"

\* An apply carries out the configuration, on a record that is not tainted;
\* what an Update works on is complete, and so is what a Create deploys.
PlanInv ==
  /\ Applying =>
       /\ plan \in Models /\ state = prior /\ ~tainted
       /\ \A g \in Groups : config[g] # Unset => plan[g] = config[g]
       /\ (~Creating \/ pc = "deploy") => \A g \in Groups : plan[g] # Unset
  /\ pc = "create" => Creating
  /\ pc = "move" => ~Creating
  /\ tainted => state # Absent

\* The plan is made from what the refresh found.
RefreshedInv ==
  (pc = "plan" /\ state # Absent) =>
    /\ \A g \in Groups : state[g] # Unset
    /\ ~meddled => server = state

\* The groups of the calls that are still to come.
Ahead ==
  CASE pc = "move"   -> Groups
    [] pc = "update" -> Groups \ {"place"}
    [] pc = "source" -> Groups \ {"place", "meta", "net"}
    [] pc = "build"  -> Groups \cap {"build", "env"}
    [] pc = "env"    -> Groups \cap {"env"}
    [] OTHER         -> {}

\* The groups that a save of m leaves as m has them.
Kept(m) ==
  IF "source" \in Groups /\ m["source"] \in Docker THEN Groups \ {"watch"} ELSE Groups

\* Behind the place of a handler the record is as planned, and ahead of it as
\* the create call or the refresh left it, whichever of the calls were made.
SavedInv ==
  (Handling /\ ~meddled) =>
    /\ server # Absent
    /\ \A g \in Ahead : server[g] = IF Creating THEN Default[g] ELSE prior[g]
    /\ \A g \in Kept(plan) \ Ahead : plan[g] # Unset => server[g] = plan[g]

AppliedInv == ApplyConverges /\ StateIsHonest /\ AppliedChangeIsDeployed

IInv == TypeOK /\ PlanInv /\ RefreshedInv /\ SavedInv /\ AppliedInv

-----------------------------------------------------------------------------
(* What a single step may do. *)

\* Only a Create under way works on a record that is in no state.
OrphanInv == (state = Absent /\ ~Handling) => server = Absent

\* Until it is read back, a block that the configuration leaves out is planned
\* as the state has it, and unset where there is no state.
LeftOutInv ==
  (Applying /\ pc # "deploy") =>
    \A g \in Groups : config[g] = Unset => plan[g] = IF Creating THEN Unset ELSE prior[g]

\* No call of a handler sets a group of the record to anything but what the
\* configuration says of it now, not even when somebody else changes the record
\* meanwhile or an earlier apply was left half done; and a block that the
\* configuration leaves out is never written.
OnlyConfigured ==
  [][(outside' = outside /\ pc # "create" /\ server # Absent /\ server' # Absent)
       => \A g \in Groups : server'[g] \in {server[g], config[g]}]_vars

\* A deployment that the provider begins is one of the whole configuration,
\* also when it then fails: never of a record that is half saved.
WholeIsDeployed ==
  [][(outside' = outside /\ ~meddled /\ deployed' \notin {deployed, Absent})
       => \A g \in Managed : config[g] # Unset => deployed'[g] = config[g]]_vars
=============================================================================
