----------------------------- MODULE PresetStore -----------------------------
(***************************************************************************)
(* The presets table and the calls of PresetService on it.  A call reads   *)
(* first and writes in a statement of its own, with nothing locked between;*)
(* the admin server runs calls in parallel.  A statement may fail, and the *)
(* administrator learns of a write only when the answer has been sent.     *)
(***************************************************************************)
EXTENDS AdminCalls

CONSTANTS
    Names,     \* preset names
    Bodies,    \* what a preset may say
    NoPreset,  \* there is no row
    Unknown,   \* see `told'
    Segment    \* [Names -> Names or NoPreset]: the name that the server reads
               \* in the path the dashboard sends for a name

ASSUME PresetAssumption ==
    /\ NoPreset \notin Bodies
    /\ Unknown \notin Bodies \union {NoPreset}
    /\ NoPreset \notin Names
    /\ Segment \in [Names -> Names \union {NoPreset}]

VARIABLES
    presets,  \* table presets, [Names -> Row]
    pc,       \* [Admins -> Stage]: the next piece of code of the call
    call,     \* [Admins -> Call]: its locals
    rivals,   \* history: [Admins -> names of the calls that overlapped]
    told      \* history: [Names -> what administrators were last told]

presetVars == <<presets, pc, call, rivals, told>>

Row == Bodies \union {NoPreset}

Stage == {"idle", "save", "delete", "answer"}

(***************************************************************************)
(* `row' is what the call is about to write under `name'.                  *)
(***************************************************************************)
Call == [name : Names \union {NoPreset}, row : Row]

NoCall == [name |-> NoPreset, row |-> NoPreset]

PresetsTypeOK ==
    /\ presets \in [Names -> Row]
    /\ pc \in [Admins -> Stage]
    /\ call \in [Admins -> Call]
    /\ \A a \in Admins : pc[a] # "idle" => call[a].name \in Names
    /\ rivals \in [Admins -> SUBSET Names]
    /\ told \in [Names -> Row \union {Unknown}]

Running == {a \in Admins : pc[a] # "idle"}

CalledFor == {call[a].name : a \in Running}

-----------------------------------------------------------------------------
Goto(a, stage) == pc' = [pc EXCEPT ![a] = stage]

Begin(a, n, row, stage) ==
    /\ pc[a] = "idle"
    /\ CountCall
    /\ Goto(a, stage)
    /\ call' = [call EXCEPT ![a] = [name |-> n, row |-> row]]
    /\ rivals' = [b \in Admins |->
                    IF b = a THEN CalledFor
                    ELSE IF b \in Running THEN rivals[b] \union {n} ELSE rivals[b]]
    /\ UNCHANGED <<presets, told>>

(***************************************************************************)
(* The checks that calls begin with; the call goes on only if they pass.   *)
(* create takes the name from the body, update replaces the body's name    *)
(* by the one in the path.  A call that finds no name under the path, or a *)
(* name taken, answers an error and nothing has happened.                  *)
(***************************************************************************)
Create(a, preset) ==
    /\ presets[preset.name] = NoPreset
    /\ Begin(a, preset.name, preset.row, "save")

Named(preset, n) == [preset EXCEPT !.name = n]

FindsAnything(n) ==   \* mutant: update does not want a row
    Segment[n] \in Names => presets[Segment[n]] # NoPreset

Found(n) == Segment[n] \in Names /\ presets[Segment[n]] # NoPreset

Update(a, n, preset) ==
    /\ Found(n)
    /\ LET p == Named(preset, Segment[n]) IN Begin(a, p.name, p.row, "save")

Delete(a, n) ==
    /\ Segment[n] \in Names
    /\ Begin(a, Segment[n], NoPreset, "delete")

(***************************************************************************)
(* INSERT OR REPLACE, and DELETE, which wants a row.                       *)
(***************************************************************************)
Write(a) == presets' = [presets EXCEPT ![call[a].name] = call[a].row]

SavePreset(a) ==
    /\ pc[a] = "save"
    /\ Write(a)
    /\ Goto(a, "answer")
    /\ UNCHANGED <<call, calls, rivals, told>>

DeletePreset(a) ==
    /\ pc[a] = "delete"
    /\ presets[call[a].name] # NoPreset
    /\ Write(a)
    /\ Goto(a, "answer")
    /\ UNCHANGED <<call, calls, rivals, told>>

Return(a) ==
    /\ Goto(a, "idle")
    /\ call' = [call EXCEPT ![a] = NoCall]
    /\ rivals' = [rivals EXCEPT ![a] = {}]

(***************************************************************************)
(* The call returns Ok.  What it was told may already be out of date if    *)
(* another call on the same name overlapped with it.                       *)
(***************************************************************************)
AnswerOk(a) ==
    /\ pc[a] = "answer"
    /\ told' = [told EXCEPT ![call[a].name] =
                    IF call[a].name \in rivals[a] THEN Unknown ELSE call[a].row]
    /\ Return(a)
    /\ UNCHANGED <<presets, calls>>

(***************************************************************************)
(* The statement fails, or there was no row to delete.                     *)
(***************************************************************************)
AnswerError(a) ==
    /\ pc[a] \in {"save", "delete"}
    /\ Return(a)
    /\ UNCHANGED <<presets, calls, told>>

PresetCall(a) ==
    \/ \E n \in Names, row \in Bodies :
           \/ Create(a, [name |-> n, row |-> row])
           \/ \E m \in Names : Update(a, m, [name |-> n, row |-> row])
    \/ \E n \in Names : Delete(a, n)
    \/ SavePreset(a)
    \/ DeletePreset(a)
    \/ AnswerOk(a)
    \/ AnswerError(a)

(***************************************************************************)
(* The process ends: nobody is told what became of the calls.              *)
(***************************************************************************)
DropCalls ==
    /\ pc' = [a \in Admins |-> "idle"]
    /\ call' = [a \in Admins |-> NoCall]
    /\ rivals' = [a \in Admins |-> {}]
    /\ told' = [n \in Names |-> IF n \in CalledFor THEN Unknown ELSE told[n]]
    /\ UNCHANGED <<presets, calls>>
=============================================================================
