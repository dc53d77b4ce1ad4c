------------------------------ MODULE EnvVars -------------------------------
(***************************************************************************)
(* dokploy_environment_variables and the record it writes to.  The map of  *)
(* variables is stored as the env text of an application, a compose or an  *)
(* environment, by an endpoint that carries other fields of that record    *)
(* too, so every write reads the record and resends them.  The record has  *)
(* a Terraform resource of its own, its owner, which the documentation     *)
(* asks to ignore changes of env, and which sends the env text it last     *)
(* read whenever it saves one of the other fields.                         *)
(*                                                                         *)
(* A line is a sequence of characters, because what a line may hold        *)
(* decides what can be read back; a text is a sequence of lines.           *)
(***************************************************************************)
EXTENDS Integers, Sequences, FiniteSets, FiniteSetsExt

CONSTANTS
  Maps,          \* the maps of variables an operator may ask for
  Characters,    \* what names and values are made of
  Sorted,        \* a set of names, as sort.Strings orders it
  OutsideTexts,  \* texts that somebody else stores
  Fields,        \* values of the other fields of the endpoint
  Wiped,         \* what an absent field is stored as
  Absent,        \* no map, no state, no record
  Unreadable,    \* parseEnv returned an error
  MaxEdits,      \* bound: edits of the configuration
  MaxFailures,   \* bound: API calls that fail
  MaxOutside     \* bound: changes made by anybody else

ASSUME MapsAssumption ==
  \A m \in Maps : /\ DOMAIN m \subseteq Seq(Characters)
                  /\ m \in [DOMAIN m -> Seq(Characters)]

ASSUME SortedAssumption ==
  \A m \in Maps :
    /\ Sorted[DOMAIN m] \in Seq(DOMAIN m)
    /\ \A n \in DOMAIN m :
         \E i \in DOMAIN Sorted[DOMAIN m] : Sorted[DOMAIN m][i] = n
    /\ \A i, j \in DOMAIN Sorted[DOMAIN m] :
         Sorted[DOMAIN m][i] = Sorted[DOMAIN m][j] => i = j

ASSUME FieldsAssumption == Wiped \notin Fields

ASSUME BoundsAssumption ==
  MaxEdits \in Nat /\ MaxFailures \in Nat /\ MaxOutside \in Nat

VARIABLES
  config,     \* the map in the configuration, or Absent
  fields,     \* the other fields in the owner's configuration
  state,      \* the map in the Terraform state, or Absent
  tainted,    \* Create ended in an error after storing a state
  owner,      \* the record as the owner's state has it, or Absent
  server,     \* the record [text, fields] at the server, or Absent
  saving,     \* the owner has a change to apply in this run
  pc,         \* where the run is with the variables
  resent,     \* the other fields, as the last GET of writeEnv returned them
  got,        \* the map that the GET after the write returned
  result,     \* how the last run ended; "none" until then
  raced,      \* the record was written by others since the GET of writeEnv
  meddled,    \* ... since the refresh of the run
  left,       \* the text at the server is one that this resource wrote
  kept,       \* ... and so is the one in the owner's state
  restored,   \* the owner put such a text back in place of another
  warned,     \* an error was reported since this resource wrote
  edits, failures, outside   \* counters for the bounds

run == <<pc, resent, got, result>>
ghosts == <<raced, meddled, left, kept, restored, warned>>
bounds == <<edits, failures, outside>>
vars == <<config, fields, state, tainted, owner, server, saving, run, ghosts,
          bounds>>

-----------------------------------------------------------------------------
(* The text. *)

\* TAB stands for all other white space that strings.TrimSpace cuts.
Blank == {"SPACE", "TAB", "CR"}

Ink(s) == {i \in DOMAIN s : s[i] \notin Blank}

TrimRight(s, cut) ==
  SubSeq(s, 1, Max({0} \cup {i \in DOMAIN s : s[i] \notin cut}))

TrimSpace(s) ==
  IF Ink(s) = {} THEN <<>> ELSE SubSeq(s, Min(Ink(s)), Max(Ink(s)))

Skipped(line) == Ink(line) = {} \/ line[Min(Ink(line))] = "#"

\* Mutant: the line is cut at its last "=".
CutAtLast(line) == Max({0} \cup {i \in DOMAIN line : line[i] = "="})

\* The index of the first "=", and the line's length plus one without any.
Cut(line) == Min({Len(line) + 1} \cup {i \in DOMAIN line : line[i] = "="})

NameIn(line)  == TrimSpace(SubSeq(line, 1, Cut(line) - 1))
ValueIn(line) == SubSeq(line, Cut(line) + 1, Len(line))

\* The map of a text: blank lines and comments skipped, the last line of a
\* name wins, and one line that is no pair makes the whole text unreadable.
parseEnv(text) ==
  LET lines == [i \in DOMAIN text |-> TrimRight(text[i], {"CR"})]
      pairs == {i \in DOMAIN lines : ~Skipped(lines[i])}
  IN  IF \E i \in pairs :
           Cut(lines[i]) > Len(lines[i]) \/ NameIn(lines[i]) = <<>>
        THEN Unreadable
        ELSE [n \in {NameIn(lines[i]) : i \in pairs} |->
                ValueIn(lines[Max({i \in pairs : NameIn(lines[i]) = n})])]

\* One line for each variable, in the order of the names.
renderEnv(m) ==
  LET names == Sorted[DOMAIN m]
  IN  [i \in DOMAIN names |-> names[i] \o <<"=">> \o m[names[i]]]

Has(s, characters) == \E i \in DOMAIN s : s[i] \in characters

\* ValidateConfig: it forbids a space in a name, and no other white space.
Valid(m) ==
  \A n \in DOMAIN m : /\ n # <<>> /\ ~Has(n, {"=", "SPACE", "CR", "LF"})
                      /\ ~Has(m[n], {"CR", "LF"})

Texts == OutsideTexts \cup {renderEnv(m) : m \in Maps} \cup {<<>>}
Readable == {parseEnv(t) : t \in Texts} \ {Unreadable}

ASSUME AbsentAssumption == Absent \notin Readable

-----------------------------------------------------------------------------
Init ==
  /\ config = Absent
  /\ fields \in Fields
  /\ state = Absent
  /\ tainted = FALSE
  /\ owner = Absent
  /\ server = Absent
  /\ saving = FALSE
  /\ pc = "idle"
  /\ resent = Wiped
  /\ got = Absent
  /\ result = "none"
  /\ raced = FALSE /\ meddled = FALSE /\ left = FALSE
  /\ kept = FALSE /\ restored = FALSE /\ warned = FALSE
  /\ edits = 0 /\ failures = 0 /\ outside = 0

\* A call may fail while the budget lasts; one about a record that is gone
\* always does.
MayFail == failures < MaxFailures /\ failures' = failures + 1
CallMayFail == MayFail \/ (server = Absent /\ UNCHANGED failures)

(* Refresh: the owner first, then the variables, each with a GET. *)
RefreshOwner ==
  /\ pc = "idle"
  /\ pc' = "refresh"
  /\ owner' = server
  /\ kept' = left
  /\ result' = "none"
  /\ meddled' = FALSE
  /\ UNCHANGED <<config, fields, state, tainted, server, saving, resent, got,
                 raced, left, restored, warned, bounds>>

\* Mutant: an unreadable line is taken for an empty text.
ReadForgiving ==
  /\ pc = "refresh"
  /\ IF state = Absent \/ server = Absent
       THEN state' = Absent /\ tainted' = FALSE
       ELSE /\ state' = IF parseEnv(server.text) = Unreadable
                          THEN << >> ELSE parseEnv(server.text)
            /\ UNCHANGED tainted
  /\ pc' = "plan"
  /\ UNCHANGED <<config, fields, owner, server, saving, resent, got, result,
                 ghosts, bounds>>

Read ==
  /\ pc = "refresh"
  /\ IF state = Absent \/ server = Absent
       THEN state' = Absent /\ tainted' = FALSE
       ELSE /\ parseEnv(server.text) # Unreadable
            /\ state' = parseEnv(server.text)
            /\ UNCHANGED tainted
  /\ pc' = "plan"
  /\ UNCHANGED <<config, fields, owner, server, saving, resent, got, result,
                 ghosts, bounds>>

ReadFails ==
  /\ pc = "refresh"
  /\ state # Absent /\ server # Absent
  /\ \/ parseEnv(server.text) = Unreadable /\ UNCHANGED failures
     \/ MayFail
  /\ pc' = "idle"
  /\ result' = "error"
  /\ warned' = TRUE
  /\ UNCHANGED <<config, fields, state, tainted, owner, server, saving, resent,
                 got, raced, meddled, left, kept, restored, edits, outside>>

Plan ==
  /\ pc = "plan"
  /\ saving' = (owner = Absent \/ owner.fields # fields)
  /\ \/ config = Absent /\ state = Absent /\ pc' = "done"
     \/ state # Absent /\ (config = Absent \/ tainted) /\ pc' = "delete"
     \/ config # Absent /\ ~tainted /\ state # config /\ pc' = "write"
     \/ config # Absent /\ ~tainted /\ state = config /\ pc' = "done"
  /\ UNCHANGED <<config, fields, state, tainted, owner, server, resent, got,
                 result, ghosts, bounds>>

-----------------------------------------------------------------------------
(* The owner's step of the run.  Create and Update of the variables refer   *)
(* to the owner and wait for it; nothing orders the owner after a Delete.   *)

Owning == pc \in {"write", "delete", "clear", "cleared", "done"}

OthersText == left' = FALSE /\ restored' = FALSE

OthersWrote == meddled' = TRUE /\ raced' = TRUE /\ OthersText

OwnersText ==
  /\ server' = [text |-> owner.text, fields |-> fields]
  /\ IF owner.text = server.text
       THEN UNCHANGED <<left, restored>>
       ELSE left' = kept /\ restored' = kept

SaveOwner ==
  /\ Owning /\ saving
  /\ IF owner = Absent
       THEN server' = [text |-> <<>>, fields |-> fields] /\ OthersText
       ELSE server # Absent /\ OwnersText
  /\ owner' = server'
  /\ kept' = left'
  /\ saving' = FALSE
  /\ IF pc = "clear" THEN meddled' = TRUE /\ raced' = TRUE
                     ELSE UNCHANGED <<meddled, raced>>
  /\ UNCHANGED <<config, fields, state, tainted, run, warned, bounds>>

\* A failed owner keeps what waits for it from running; it may have saved.
SaveOwnerFails ==
  /\ Owning /\ saving
  /\ CallMayFail
  /\ \/ UNCHANGED <<server, left, restored, meddled, raced>>
     \/ /\ server # Absent /\ owner # Absent
        /\ OwnersText
        /\ meddled' = TRUE /\ raced' = TRUE
  /\ saving' = FALSE
  /\ pc' = IF pc = "write" THEN "done" ELSE pc
  /\ result' = "error"
  /\ UNCHANGED <<config, fields, state, tainted, owner, resent, got, kept,
                 warned, edits, outside>>

-----------------------------------------------------------------------------
(* writeEnv: a GET, then the endpoint with the text and the other fields.   *)

Get(at, next) ==
  /\ pc = at
  /\ server # Absent
  /\ resent' = server.fields
  /\ raced' = FALSE
  /\ pc' = next
  /\ UNCHANGED <<config, fields, state, tainted, owner, server, saving, got,
                 result, meddled, left, kept, restored, warned, bounds>>

\* Mutant: the other fields are the ones of the last refresh.
PutStale(text) == server' = [text |-> text, fields |-> owner.fields]

\* Mutant: the other fields are left out of the request.
PutAlone(text) == server' = [text |-> text, fields |-> Wiped]

Put(text) == server' = [text |-> text, fields |-> resent]

PutOwn ==
  /\ Put(renderEnv(config))
  /\ left' = (renderEnv(config) # <<>>)
  /\ restored' = FALSE

PutEmpty == Put(<<>>) /\ OthersText

GetBeforeWrite == ~saving /\ Get("write", "put")

PutVariables ==
  /\ pc = "put"
  /\ server # Absent
  /\ PutOwn
  /\ warned' = FALSE
  /\ pc' = "readback"
  /\ UNCHANGED <<config, fields, state, tainted, owner, saving, resent, got,
                 result, raced, meddled, kept, bounds>>

\* Any of the three calls fails: Create stores nothing, Update keeps the state.
WriteFails ==
  /\ pc \in {"write", "put", "readback"}
  /\ pc = "write" => ~saving
  /\ \/ CallMayFail /\ UNCHANGED <<server, left, restored>>
     \/ pc = "put" /\ server # Absent /\ MayFail /\ PutOwn
     \/ /\ pc = "readback" /\ server # Absent
        /\ parseEnv(server.text) = Unreadable
        /\ UNCHANGED <<server, left, restored, failures>>
  /\ pc' = "done"
  /\ result' = "error"
  /\ warned' = TRUE
  /\ UNCHANGED <<config, fields, state, tainted, owner, saving, resent, got,
                 raced, meddled, kept, edits, outside>>

ReadBack ==
  /\ pc = "readback"
  /\ server # Absent
  /\ parseEnv(server.text) # Unreadable
  /\ got' = parseEnv(server.text)
  /\ pc' = "check"
  /\ UNCHANGED <<config, fields, state, tainted, owner, server, saving, resent,
                 result, ghosts, bounds>>

\* State.Set with what was read.  Terraform reports a map that is not the
\* planned one, and taints what it just created.
Stored ==
  /\ pc = "check"
  /\ state' = got
  /\ tainted' = (state = Absent /\ got # config)
  /\ result' = IF got = config THEN result ELSE "error"
  /\ warned' = (warned \/ got # config)
  /\ got' = Absent
  /\ pc' = "done"
  /\ UNCHANGED <<config, fields, owner, server, saving, resent, raced, meddled,
                 left, kept, restored, bounds>>

-----------------------------------------------------------------------------
(* Delete: the same with an empty text. *)

GetBeforeDelete == Get("delete", "clear")

Forget ==
  /\ state' = Absent
  /\ tainted' = FALSE
  /\ pc' = "cleared"

PutNothing ==
  /\ pc = "clear"
  /\ server # Absent
  /\ PutEmpty
  /\ Forget
  /\ UNCHANGED <<config, fields, owner, saving, resent, got, result, raced,
                 meddled, kept, warned, bounds>>

\* A GET that finds no record is fine; no POST of writeEnv says not found.
DeleteOfGone ==
  /\ pc = "delete"
  /\ server = Absent
  /\ Forget
  /\ UNCHANGED <<config, fields, owner, server, saving, resent, got, result,
                 ghosts, bounds>>

\* Mutant: Delete forgives every error, not only the one of a record gone.
DeleteForgives ==
  /\ pc \in {"delete", "clear"}
  /\ pc = "delete" => server # Absent
  /\ CallMayFail
  /\ Forget
  /\ UNCHANGED <<config, fields, owner, server, saving, resent, got, result,
                 ghosts, edits, outside>>

DeleteFails ==
  /\ pc \in {"delete", "clear"}
  /\ pc = "delete" => server # Absent
  /\ CallMayFail
  /\ \/ UNCHANGED <<server, left, restored>>
     \/ pc = "clear" /\ server # Absent /\ PutEmpty
  /\ pc' = "done"
  /\ result' = "error"
  /\ warned' = TRUE
  /\ UNCHANGED <<config, fields, state, tainted, owner, saving, resent, got,
                 raced, meddled, kept, edits, outside>>

\* A tainted resource is created again; a removed one is done.
AfterDelete ==
  /\ pc = "cleared"
  /\ pc' = IF config = Absent THEN "done" ELSE "write"
  /\ UNCHANGED <<config, fields, state, tainted, owner, server, saving, resent,
                 got, result, ghosts, bounds>>

EndRun ==
  /\ pc = "done" /\ ~saving
  /\ pc' = "idle"
  /\ result' = IF result = "error" THEN "error" ELSE "ok"
  /\ UNCHANGED <<config, fields, state, tainted, owner, server, saving, resent,
                 got, ghosts, bounds>>

-----------------------------------------------------------------------------
(* The operator, and whoever else uses the server. *)

\* `terraform import`: the state is what Read makes of the record.
Import ==
  /\ pc = "idle"
  /\ state = Absent /\ config # Absent /\ server # Absent
  /\ parseEnv(server.text) # Unreadable
  /\ state' = parseEnv(server.text)
  /\ UNCHANGED <<config, fields, tainted, owner, server, saving, run, ghosts,
                 bounds>>

Edit(m) ==
  /\ pc = "idle"
  /\ edits < MaxEdits
  /\ m \in {Absent} \cup {v \in Maps : Valid(v)}
  /\ m # config
  /\ config' = m
  /\ edits' = edits + 1
  /\ result' = "none"
  /\ UNCHANGED <<fields, state, tainted, owner, server, saving, pc, resent, got,
                 ghosts, failures, outside>>

EditOwner(f) ==
  /\ pc = "idle"
  /\ edits < MaxEdits
  /\ f # fields
  /\ fields' = f
  /\ edits' = edits + 1
  /\ result' = "none"
  /\ UNCHANGED <<config, state, tainted, owner, server, saving, pc, resent, got,
                 ghosts, failures, outside>>

Outsider ==
  /\ server # Absent
  /\ outside < MaxOutside
  /\ outside' = outside + 1
  /\ UNCHANGED <<config, fields, state, tainted, owner, saving, run, kept,
                 warned, edits, failures>>

OutsideText(t) ==
  Outsider /\ OthersWrote /\ server' = [text |-> t, fields |-> server.fields]

OutsideFields(f) ==
  /\ Outsider
  /\ f # server.fields
  /\ meddled' = TRUE /\ raced' = TRUE /\ UNCHANGED <<left, restored>>
  /\ server' = [text |-> server.text, fields |-> f]

OutsideDelete == Outsider /\ OthersWrote /\ server' = Absent

-----------------------------------------------------------------------------
Next ==
  \/ RefreshOwner \/ Read \/ ReadFails \/ Plan
  \/ SaveOwner \/ SaveOwnerFails
  \/ GetBeforeWrite \/ PutVariables \/ WriteFails \/ ReadBack \/ Stored
  \/ GetBeforeDelete \/ PutNothing \/ DeleteOfGone \/ DeleteFails \/ AfterDelete
  \/ EndRun \/ Import
  \/ \E m \in Maps \cup {Absent} : Edit(m)
  \/ \E f \in Fields : EditOwner(f) \/ OutsideFields(f)
  \/ \E t \in OutsideTexts : OutsideText(t)
  \/ OutsideDelete

Spec == Init /\ [][Next]_vars

-----------------------------------------------------------------------------
(* Properties. *)

Records == [text : Texts, fields : Fields]

ASSUME RecordsAssumption == Absent \notin Records

FlagsOK ==
  /\ tainted \in BOOLEAN /\ saving \in BOOLEAN
  /\ raced \in BOOLEAN /\ meddled \in BOOLEAN
  /\ left \in BOOLEAN /\ kept \in BOOLEAN
  /\ restored \in BOOLEAN /\ warned \in BOOLEAN

\* Every variable has its type; no field of the record is ever wiped.
TypeOK ==
  /\ FlagsOK
  /\ config \in Maps \cup {Absent}
  /\ fields \in Fields
  /\ state \in Readable \cup {Absent}
  /\ owner \in Records \cup {Absent}
  /\ server \in Records \cup {Absent}
  /\ pc \in {"idle", "refresh", "plan", "write", "put", "readback", "check",
             "delete", "clear", "cleared", "done"}
  /\ resent \in Fields \cup {Wiped}
  /\ got \in Readable \cup {Absent}
  /\ result \in {"none", "ok", "error"}
  /\ edits \in 0 .. MaxEdits
  /\ failures \in 0 .. MaxFailures
  /\ outside \in 0 .. MaxOutside

\* A run ended well, and nobody else wrote to the record since it looked.
Applied == pc = "idle" /\ result = "ok" /\ ~meddled /\ server # Absent

\* Two resources write one record through one endpoint, from what each read
\* of it.  After a run that ends well both have what they ask for: the text
\* reads as the map, the other fields are the owner's, and the state is what
\* the server holds ("removes every other line").
BothConverge ==
  (Applied /\ config # Absent)
    => /\ parseEnv(server.text) = config
       /\ state = config /\ ~tainted
       /\ server.fields = fields

KeepsOthersFields ==
  (/\ pc \in {"put", "clear"} /\ pc' # pc /\ ~raced
   /\ server # Absent /\ server' # Absent)
    => server'.fields = server.fields

\* "each write reads the target first and resends the other fields as
\* stored": a write of this resource changes another field only if somebody
\* wrote to the record between its GET and its POST.
OthersFieldsAreKept == [][KeepsOthersFields]_vars

\* Variables this resource wrote are at the server without a state that knows
\* of them in two cases only: one of its own calls failed and an error was
\* reported, or the owner has put back the text that it had read.  The second
\* is in no order with a Delete and reports nothing, although "Delete clears
\* the target's env text".
LeftoversAreReported ==
  (pc = "idle" /\ state = Absent /\ server # Absent /\ left)
    => warned \/ restored

\* A map that parseEnv can tell from comments and from the blanks around it.
Legible(m) ==
  \A n \in DOMAIN m : n[1] \notin Blank \cup {"#"} /\ n[Len(n)] \notin Blank

\* The map that the GET after a write returns is the map that was asked for,
\* unless somebody else has written in between.  This is not so of every map
\* that ValidateConfig accepts: it lets a name pass that begins with "#" or has
\* a tab beside it.
LegibleMapIsReadBack ==
  (pc = "check" /\ ~raced /\ Legible(config)) => got = config
=============================================================================
