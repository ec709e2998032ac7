---------------------------- MODULE StartupProofs ----------------------------
(***************************************************************************)
(* Proofs about Startup: its types, that one seed reads all tokens, that   *)
(* no replaced token comes back, and that what administrators were told of *)
(* a preset stays so.                                                      *)
(***************************************************************************)
EXTENDS Startup, TLAPS

-----------------------------------------------------------------------------
(***************************************************************************)
(* Two calls in progress on one name know of each other; a call that waits *)
(* to answer and overlapped with none has its row in the table; a name that*)
(* no call is about to answer for has what was told.                       *)
(***************************************************************************)
RivalsKnown ==
    \A a, b \in Running : a # b /\ call[a].name = call[b].name
                              => call[a].name \in rivals[a]

Answering(n) == \E a \in Admins : pc[a] = "answer" /\ call[a].name = n

WrittenStays ==
    \A a \in Admins :
        pc[a] = "answer" /\ call[a].name \notin rivals[a]
            => presets[call[a].name] = call[a].row

ToldStays ==
    \A n \in Names :
        told[n] # Unknown /\ ~Answering(n) => presets[n] = told[n]

PresetInv == RivalsKnown /\ WrittenStays /\ ToldStays

(***************************************************************************)
(* No start that is going on has told anybody of the built-in presets.     *)
(***************************************************************************)
BuiltinsOpen ==
    stage \in {"loading", "seeding"} => \A n \in BuiltinNames : told[n] = Unknown

(***************************************************************************)
(* All rows are encrypted under one seed, once it serves under this one's. *)
(***************************************************************************)
UnderOneSeed ==
    /\ \E s \in Seeds : \A p \in Providers : Decrypts(s, tokens[p])
    /\ stage \in {"seeding", "serving"} =>
          \A p \in Providers : Decrypts(seed, tokens[p]) /\ held[p] \in given[p]

(***************************************************************************)
(* A row has a token the provider may have; so has every call in progress. *)
(***************************************************************************)
GivenInRow == \A p \in Providers : Plain(tokens[p]) \in given[p]

JobsGiven ==
    \A a \in Admins : job[a] # NoJob => job[a].token \in given[job[a].provider]

(***************************************************************************)
(* A save has a token and a delete has none; calls on one provider know of *)
(* each other; and from its statement on, and from its access to the cache *)
(* on, the row and the cache have the token of the call or of a rival.     *)
(***************************************************************************)
JobsFit ==
    \A a \in Admins :
        /\ job[a].step = "insert" => job[a].token \in Secrets
        /\ job[a].step = "delete" => job[a].token = NoToken

JobsMeet ==
    \A p \in Providers : \A a, b \in CallsOn(p) :
        a # b => job[b].token \in job[a].rivals

Candidates(a) == {job[a].token} \union job[a].rivals

RowWritten ==
    \A a \in Admins : job[a].step \in {"cache", "answer"}
                          => Plain(tokens[job[a].provider]) \in Candidates(a)

TokenCached ==
    \A a \in Admins : job[a].step = "answer" => held[job[a].provider] \in Candidates(a)

TokenInv ==
    /\ UnderOneSeed
    /\ GivenInRow
    /\ JobsGiven
    /\ JobsFit
    /\ JobsMeet
    /\ RowWritten
    /\ TokenCached

CallsOnlyServed ==
    stage # "serving" => Running = {} /\ \A a \in Admins : job[a] = NoJob

IInv ==
    /\ TypeOK
    /\ CallsOnlyServed
    /\ PresetInv
    /\ BuiltinsOpen
    /\ TokenInv

-----------------------------------------------------------------------------
LEMMA BuiltinIsName == \A i \in 1..Len(Builtins) : Builtins[i] \in Names
  BY StartupAssumption

(***************************************************************************)
(* Nothing is running and nothing is on disk at first.                     *)
(***************************************************************************)
LEMMA InitIInv == Init => IInv
<1> SUFFICES ASSUME Init PROVE IInv
  OBVIOUS
<1> USE DEF Init
<1>1. NoCall \in Call
  BY DEF NoCall, Call, Row
<1>2. TypeOK
  <2>1. PresetsTypeOK
    BY <1>1, PresetAssumption DEF PresetsTypeOK, Row, Stage
  <2>2. TokensTypeOK
    BY DEF TokensInit, TokensTypeOK, Token, Job, NoJob, Step
  <2>3. QED
    BY <2>1, <2>2, CallsAssumption, StartupAssumption DEF TypeOK
<1>3. CallsOnlyServed /\ BuiltinsOpen
  BY DEF CallsOnlyServed, BuiltinsOpen, Running, TokensInit
<1>4. PresetInv
  BY DEF PresetInv, RivalsKnown, WrittenStays, ToldStays, Running
<1>5. TokenInv
  BY PresetAssumption, TokenAssumption
     DEF TokenInv, UnderOneSeed, GivenInRow, JobsGiven, JobsFit, JobsMeet, RowWritten,
         TokenCached, CallsOn, TokensInit, NoJob, Decrypts, Plain
<1>6. QED
  BY <1>2, <1>3, <1>4, <1>5 DEF IInv

(***************************************************************************)
(* Steps of calls on presets leave main and the tokens alone.              *)
(***************************************************************************)
LEMMA TokensUntouched ==
    ASSUME IInv, UNCHANGED <<tokenVars, mainVars>>
    PROVE  TokenInv' /\ TokensTypeOK'
  BY DEF IInv, TypeOK, TokensTypeOK, TokenInv, UnderOneSeed, GivenInRow, JobsGiven, JobsFit,
         JobsMeet, RowWritten, TokenCached, Candidates, CallsOn, tokenVars, mainVars

(***************************************************************************)
(* No start is going on while calls are served.                            *)
(***************************************************************************)
LEMMA ServedOpen ==
    ASSUME stage = "serving", UNCHANGED mainVars PROVE BuiltinsOpen'
  BY DEF BuiltinsOpen, mainVars

(***************************************************************************)
(* A call that begins becomes a rival of those in progress, and they of it.*)
(***************************************************************************)
LEMMA BeginKeeps ==
    ASSUME NEW a \in Admins, NEW n \in Names, NEW row \in Row,
           NEW st \in {"save", "delete"},
           IInv, stage = "serving", Begin(a, n, row, st), UNCHANGED <<tokenVars, mainVars>>
    PROVE  IInv'
<1> USE DEF Begin, CountCall, Goto, mainVars
<1>types. TypeOK
  BY DEF IInv
<1>1. [name |-> n, row |-> row] \in Call
  BY DEF Call
<1>2. TypeOK'
  <2>1. PresetsTypeOK'
    BY <1>types, <1>1, PresetAssumption DEF TypeOK, PresetsTypeOK, Stage, CalledFor, Running
  <2>2. calls' \in 0..MaxCalls
    BY <1>types, CallsAssumption DEF TypeOK
  <2>3. QED
    BY <1>types, <2>1, <2>2, TokensUntouched DEF TypeOK
<1>3. CallsOnlyServed'
  BY DEF CallsOnlyServed
<1>4. RivalsKnown'
  <2> SUFFICES ASSUME NEW b \in Running', NEW c \in Running', b # c,
                      call'[b].name = call'[c].name
               PROVE  call'[b].name \in rivals'[b]
    BY DEF RivalsKnown
  <2>1. CASE b = a
    <3>1. c \in Running /\ call'[c] = call[c] /\ rivals'[b] = CalledFor
      BY <2>1, <1>types DEF Running, TypeOK, PresetsTypeOK
    <3>2. QED
      BY <3>1 DEF CalledFor
  <2>2. CASE c = a
    <3>1. b \in Running /\ call'[c].name = n /\ rivals'[b] = rivals[b] \union {n}
      BY <2>2, <1>types DEF Running, TypeOK, PresetsTypeOK
    <3>2. QED
      BY <3>1
  <2>3. CASE b # a /\ c # a
    <3>1. b \in Running /\ c \in Running /\ call'[b] = call[b] /\ call'[c] = call[c]
      BY <2>3, <1>types DEF Running, TypeOK, PresetsTypeOK
    <3>2. rivals'[b] = rivals[b] \union {n}
      BY <2>3, <3>1 DEF Running
    <3>3. call[b].name \in rivals[b]
      BY <3>1 DEF IInv, PresetInv, RivalsKnown
    <3>4. QED
      BY <3>1, <3>2, <3>3
  <2>4. QED
    BY <2>1, <2>2, <2>3
<1>5. WrittenStays'
  <2> SUFFICES ASSUME NEW b \in Admins, pc'[b] = "answer",
                      call'[b].name \notin rivals'[b]
               PROVE  presets'[call'[b].name] = call'[b].row
    BY DEF WrittenStays
  <2>1. b # a /\ pc[b] = "answer" /\ call'[b] = call[b]
    BY <1>types DEF TypeOK, PresetsTypeOK
  <2>2. rivals'[b] = rivals[b] \union {n}
    BY <2>1 DEF Running
  <2>3. QED
    BY <2>1, <2>2 DEF IInv, PresetInv, WrittenStays
<1>6. ToldStays'
  <2>1. \A m \in Names : Answering(m) => Answering(m)'
    BY <1>types DEF Answering, TypeOK, PresetsTypeOK
  <2>2. QED
    BY <2>1 DEF IInv, PresetInv, ToldStays
<1>7. QED
  BY <1>2, <1>3, <1>4, <1>5, <1>6, TokensUntouched, ServedOpen DEF IInv, PresetInv

(***************************************************************************)
(* A statement changes the row of its own call only; any other call on the *)
(* name is its rival, and nobody has been told of it yet.                  *)
(***************************************************************************)
LEMMA WriteKeeps ==
    ASSUME NEW a \in Admins, IInv, stage = "serving",
           SavePreset(a) \/ DeletePreset(a), UNCHANGED <<tokenVars, mainVars>>
    PROVE  IInv'
<1> USE DEF SavePreset, DeletePreset, Write, Goto, mainVars
<1>types. TypeOK
  BY DEF IInv
<1>1. a \in Running /\ call[a].name \in Names /\ call[a].row \in Row
  BY <1>types DEF Running, TypeOK, PresetsTypeOK, Call
<1>2. TypeOK'
  <2>1. PresetsTypeOK'
    BY <1>types, <1>1 DEF TypeOK, PresetsTypeOK, Stage
  <2>2. QED
    BY <1>types, <2>1, TokensUntouched DEF TypeOK
<1>3. CallsOnlyServed'
  BY DEF CallsOnlyServed
<1>4. Running' = Running
  BY <1>types DEF Running, TypeOK, PresetsTypeOK
<1>5. RivalsKnown'
  BY <1>4 DEF IInv, PresetInv, RivalsKnown
<1>6. WrittenStays'
  <2> SUFFICES ASSUME NEW b \in Admins, pc'[b] = "answer",
                      call[b].name \notin rivals[b]
               PROVE  presets'[call[b].name] = call[b].row
    BY DEF WrittenStays
  <2>1. CASE b = a
    BY <2>1, <1>1, <1>types DEF TypeOK, PresetsTypeOK
  <2>2. CASE b # a
    <3>1. pc[b] = "answer" /\ b \in Running
      BY <2>2, <1>types DEF TypeOK, PresetsTypeOK, Running
    <3>2. call[b].name # call[a].name
      BY <2>2, <3>1, <1>1 DEF IInv, PresetInv, RivalsKnown
    <3>3. QED
      BY <3>1, <3>2, <1>types DEF IInv, PresetInv, WrittenStays, TypeOK, PresetsTypeOK
  <2>3. QED
    BY <2>1, <2>2
<1>7. ToldStays'
  <2>1. \A m \in Names : Answering(m) \/ m = call[a].name => Answering(m)'
    BY <1>types DEF Answering, TypeOK, PresetsTypeOK
  <2>2. \A m \in Names : m # call[a].name => presets'[m] = presets[m]
    BY <1>types DEF TypeOK, PresetsTypeOK
  <2>3. QED
    BY <2>1, <2>2 DEF IInv, PresetInv, ToldStays
<1>8. QED
  BY <1>2, <1>3, <1>5, <1>6, <1>7, TokensUntouched, ServedOpen DEF IInv, PresetInv

(***************************************************************************)
(* An answer tells what the call wrote, or nothing if it had rivals.       *)
(***************************************************************************)
LEMMA AnswerKeeps ==
    ASSUME NEW a \in Admins, IInv, stage = "serving",
           AnswerOk(a) \/ AnswerError(a), UNCHANGED <<tokenVars, mainVars>>
    PROVE  IInv'
<1> USE DEF AnswerOk, AnswerError, Return, Goto, mainVars
<1>types. TypeOK
  BY DEF IInv
<1>1. a \in Running /\ call[a].name \in Names /\ call[a].row \in Row
  BY <1>types DEF Running, TypeOK, PresetsTypeOK, Call
<1>2. NoCall \in Call
  BY DEF NoCall, Call, Row
<1>3. TypeOK'
  <2>1. PresetsTypeOK'
    BY <1>types, <1>1, <1>2 DEF TypeOK, PresetsTypeOK, Stage
  <2>2. QED
    BY <1>types, <2>1, TokensUntouched DEF TypeOK
<1>4. CallsOnlyServed'
  BY DEF CallsOnlyServed
<1>5. \A b \in Running' :
         b \in Running /\ b # a /\ call'[b] = call[b] /\ rivals'[b] = rivals[b]
  BY <1>types DEF Running, TypeOK, PresetsTypeOK
<1>6. RivalsKnown'
  BY <1>5 DEF IInv, PresetInv, RivalsKnown
<1>7. WrittenStays'
  BY <1>types DEF IInv, PresetInv, WrittenStays, TypeOK, PresetsTypeOK
<1>8. ToldStays'
  <2> SUFFICES ASSUME NEW m \in Names, told'[m] # Unknown, ~Answering(m)'
               PROVE  presets[m] = told'[m]
    BY DEF ToldStays
  <2>1. CASE Answering(m)
    <3>1. PICK b \in Admins : pc[b] = "answer" /\ call[b].name = m
      BY <2>1 DEF Answering
    <3>2. b = a
      BY <3>1, <1>types DEF Answering, TypeOK, PresetsTypeOK
    <3>3. m \notin rivals[a] /\ told'[m] = call[a].row
      BY <3>1, <3>2, <1>types DEF TypeOK, PresetsTypeOK
    <3>4. QED
      BY <3>1, <3>2, <3>3 DEF IInv, PresetInv, WrittenStays
  <2>2. CASE ~Answering(m)
    <3>1. told'[m] = told[m]
      BY <2>2, <1>types DEF Answering, TypeOK, PresetsTypeOK
    <3>2. QED
      BY <2>2, <3>1 DEF IInv, PresetInv, ToldStays
  <2>3. QED
    BY <2>1, <2>2
<1>9. QED
  BY <1>3, <1>4, <1>6, <1>7, <1>8, TokensUntouched, ServedOpen DEF IInv, PresetInv

LEMMA HandlePresetKeeps ==
    ASSUME NEW a \in Admins, IInv, HandlePreset(a) PROVE IInv'
<1> USE DEF HandlePreset
<1>1. ASSUME NEW n \in Names, NEW row \in Bodies, Create(a, [name |-> n, row |-> row])
      PROVE  IInv'
  <2>1. row \in Row /\ Begin(a, n, row, "save")
    BY <1>1 DEF Create, Row
  <2>2. QED
    BY <2>1, BeginKeeps
<1>2. ASSUME NEW m \in Names, NEW n \in Names, NEW row \in Bodies,
             Update(a, m, [name |-> n, row |-> row])
      PROVE  IInv'
  <2>1. row \in Row /\ Segment[m] \in Names /\ Begin(a, Segment[m], row, "save")
    BY <1>2 DEF Update, Found, Named, Row
  <2>2. QED
    BY <2>1, BeginKeeps
<1>3. ASSUME NEW n \in Names, Delete(a, n) PROVE IInv'
  <2>1. NoPreset \in Row /\ Segment[n] \in Names /\ Begin(a, Segment[n], NoPreset, "delete")
    BY <1>3 DEF Delete, Row
  <2>2. QED
    BY <2>1, BeginKeeps
<1>4. CASE SavePreset(a) \/ DeletePreset(a)
  BY <1>4, WriteKeeps
<1>5. CASE AnswerOk(a) \/ AnswerError(a)
  BY <1>5, AnswerKeeps
<1>6. QED
  BY <1>1, <1>2, <1>3, <1>4, <1>5 DEF PresetCall

-----------------------------------------------------------------------------
(***************************************************************************)
(* Steps of main before it serves: no call is in progress.                 *)
(***************************************************************************)
LEMMA IdleCalls ==
    ASSUME IInv, stage # "serving",
           UNCHANGED <<pc, call, rivals, job>>
    PROVE  /\ Running = {} /\ Running' = {}
           /\ \A a \in Admins : job[a] = NoJob /\ job'[a] = NoJob
           /\ \A n \in Names : ~Answering(n) /\ ~Answering(n)'
           /\ RivalsKnown' /\ WrittenStays'
  BY DEF IInv, CallsOnlyServed, RivalsKnown, WrittenStays, Answering, Running

(***************************************************************************)
(* Where no call is in progress, the parts about calls say nothing.        *)
(***************************************************************************)
LEMMA NoJobsLeft ==
    ASSUME \A a \in Admins : job'[a] = NoJob
    PROVE  JobsGiven' /\ JobsFit' /\ JobsMeet' /\ RowWritten' /\ TokenCached'
  BY TokenAssumption
     DEF JobsGiven, JobsFit, JobsMeet, RowWritten, TokenCached, CallsOn, NoJob

LEMMA StartKeeps ==
    ASSUME NEW s \in Seeds, IInv, Start(s) PROVE IInv'
<1> USE DEF Start
<1>1. TypeOK'
  <2>1. PresetsTypeOK' /\ TokensTypeOK'
    BY DEF IInv, TypeOK, PresetsTypeOK, TokensTypeOK, Token, Running
  <2>2. QED
    BY <2>1, StartupAssumption DEF IInv, TypeOK
<1>2. CallsOnlyServed' /\ RivalsKnown' /\ WrittenStays'
  BY IdleCalls DEF CallsOnlyServed
<1>3. ToldStays' /\ BuiltinsOpen'
  <2>1. BuiltinNames \subseteq Names
    BY BuiltinIsName DEF BuiltinNames
  <2>2. \A n \in Names : told'[n] = IF n \in BuiltinNames THEN Unknown ELSE told[n]
    OBVIOUS
  <2>3. \A n \in Names : ~Answering(n)
    BY IdleCalls
  <2>4. QED
    BY <2>1, <2>2, <2>3 DEF IInv, PresetInv, ToldStays, BuiltinsOpen
<1>4. UnderOneSeed' /\ GivenInRow'
  BY DEF IInv, TokenInv, UnderOneSeed, GivenInRow
<1>5. QED
  BY <1>1, <1>2, <1>3, <1>4, IdleCalls, NoJobsLeft DEF IInv, PresetInv, TokenInv

LEMMA LoadKeeps ==
    ASSUME IInv, LoadProviders PROVE IInv'
<1> USE DEF LoadProviders, presetVars
<1>1. \A p \in Providers : Plain(tokens[p]) \in Token
  BY DEF IInv, TypeOK, TokensTypeOK, Plain, Encrypted, Token
<1>2. TypeOK'
  <2>1. PresetsTypeOK' /\ TokensTypeOK'
    BY <1>1 DEF IInv, TypeOK, PresetsTypeOK, TokensTypeOK, Running
  <2>2. QED
    BY <2>1 DEF IInv, TypeOK
<1>3. CallsOnlyServed' /\ RivalsKnown' /\ WrittenStays'
  BY IdleCalls DEF CallsOnlyServed
<1>4. ToldStays' /\ BuiltinsOpen'
  BY IdleCalls DEF IInv, PresetInv, ToldStays, BuiltinsOpen
<1>5. UnderOneSeed' /\ GivenInRow'
  BY DEF IInv, TokenInv, UnderOneSeed, GivenInRow
<1>6. QED
  BY <1>2, <1>3, <1>4, <1>5, IdleCalls, NoJobsLeft DEF IInv, PresetInv, TokenInv

(***************************************************************************)
(* Nobody has been told of the preset that is written over.                *)
(***************************************************************************)
LEMMA SeedKeeps ==
    ASSUME IInv, SeedPreset PROVE IInv'
<1> USE DEF SeedPreset, tokenVars
<1>1. Builtins[seeded + 1] \in BuiltinNames /\ seeded + 1 \in 1..Len(Builtins)
  BY StartupAssumption DEF IInv, TypeOK, BuiltinNames
<1>2. Builtins[seeded + 1] \in Names
  BY <1>1, BuiltinIsName
<1>3. TypeOK'
  <2>1. PresetsTypeOK' /\ TokensTypeOK'
    BY <1>2, StartupAssumption DEF IInv, TypeOK, PresetsTypeOK, TokensTypeOK, Row, Running
  <2>2. QED
    BY <1>1, <2>1 DEF IInv, TypeOK
<1>4. CallsOnlyServed' /\ RivalsKnown' /\ WrittenStays'
  BY IdleCalls DEF CallsOnlyServed
<1>5. ToldStays' /\ BuiltinsOpen'
  BY <1>1, <1>2, IdleCalls
     DEF IInv, PresetInv, ToldStays, BuiltinsOpen, TypeOK, PresetsTypeOK
<1>6. UnderOneSeed' /\ GivenInRow'
  BY DEF IInv, TokenInv, UnderOneSeed, GivenInRow
<1>7. QED
  BY <1>3, <1>4, <1>5, <1>6, IdleCalls, NoJobsLeft DEF IInv, PresetInv, TokenInv

LEMMA ServeKeeps ==
    ASSUME IInv, Serve PROVE IInv'
<1> USE DEF Serve, presetVars, tokenVars
<1>1. TypeOK'
  <2>1. PresetsTypeOK' /\ TokensTypeOK'
    BY DEF IInv, TypeOK, PresetsTypeOK, TokensTypeOK, Running
  <2>2. QED
    BY <2>1 DEF IInv, TypeOK
<1>2. CallsOnlyServed' /\ RivalsKnown' /\ WrittenStays'
  BY IdleCalls DEF CallsOnlyServed
<1>3. ToldStays' /\ BuiltinsOpen'
  BY IdleCalls DEF IInv, PresetInv, ToldStays, BuiltinsOpen
<1>4. UnderOneSeed' /\ GivenInRow'
  BY DEF IInv, TokenInv, UnderOneSeed, GivenInRow
<1>5. QED
  BY <1>1, <1>2, <1>3, <1>4, IdleCalls, NoJobsLeft DEF IInv, PresetInv, TokenInv

(***************************************************************************)
(* A call that was about to answer is forgotten, and so is its name.       *)
(***************************************************************************)
LEMMA StopKeeps ==
    ASSUME IInv, Stop PROVE IInv'
<1> USE DEF Stop, DropCalls
<1>1. NoCall \in Call /\ NoJob \in Job
  BY DEF Call, NoCall, Row, Job, NoJob, Step, Token
<1>2. TypeOK'
  <2>1. PresetsTypeOK'
    BY <1>1 DEF IInv, TypeOK, PresetsTypeOK, Stage, Row, Running
  <2>2. TokensTypeOK'
    BY <1>1 DEF IInv, TypeOK, TokensTypeOK
  <2>3. QED
    BY <2>1, <2>2 DEF IInv, TypeOK
<1>3. CallsOnlyServed' /\ RivalsKnown' /\ WrittenStays'
  BY DEF IInv, CallsOnlyServed, RivalsKnown, WrittenStays, Running
<1>4. ToldStays' /\ BuiltinsOpen'
  <2>1. \A n \in Names : Answering(n) => told'[n] = Unknown
    BY DEF IInv, TypeOK, PresetsTypeOK, Answering, CalledFor, Running
  <2>2. \A n \in Names : told'[n] # Unknown => told'[n] = told[n]
    BY DEF IInv, TypeOK, PresetsTypeOK
  <2>3. QED
    BY <2>1, <2>2 DEF IInv, PresetInv, ToldStays, BuiltinsOpen
<1>5. UnderOneSeed' /\ GivenInRow'
  BY DEF IInv, TokenInv, UnderOneSeed, GivenInRow
<1>6. QED
  BY <1>2, <1>3, <1>4, <1>5, NoJobsLeft DEF IInv, PresetInv, TokenInv

-----------------------------------------------------------------------------
(***************************************************************************)
(* Calls on providers leave main and the presets alone.                    *)
(***************************************************************************)
LEMMA PresetsUntouched ==
    ASSUME IInv, stage = "serving", UNCHANGED <<presetVars, mainVars>>
    PROVE  CallsOnlyServed' /\ PresetInv' /\ BuiltinsOpen' /\ PresetsTypeOK'
  BY DEF IInv, CallsOnlyServed, PresetInv, RivalsKnown, WrittenStays, ToldStays,
         BuiltinsOpen, Running, Answering, TypeOK, PresetsTypeOK, presetVars, mainVars

LEMMA TokenStepKeeps ==
    ASSUME IInv, stage = "serving", UNCHANGED <<presetVars, mainVars>>,
           calls' \in 0..MaxCalls, TokensTypeOK', TokenInv'
    PROVE  IInv'
  BY PresetsUntouched DEF IInv, TypeOK, mainVars

(***************************************************************************)
(* What the types say of a call in progress.                               *)
(***************************************************************************)
LEMMA JobTypes ==
    ASSUME IInv, NEW a \in Admins
    PROVE  /\ job[a] \in Job
           /\ job[a].step \in Step /\ job[a].token \in Token
           /\ job[a].rivals \in SUBSET Token
           /\ job[a] # NoJob => job[a].provider \in Providers
           /\ job[a].step # "idle" => job[a].provider \in Providers
           /\ \A p \in Providers : a \in CallsOn(p) => job[a] # NoJob
           /\ Candidates(a) \in SUBSET Token
  BY TokenAssumption
     DEF IInv, TypeOK, TokensTypeOK, Job, NoJob, CallsOn, Candidates

(***************************************************************************)
(* A call that begins meets those in progress, and they it.                *)
(***************************************************************************)
LEMMA BeginTokenKeeps ==
    ASSUME NEW a \in Admins, NEW p \in Providers, NEW token \in Token,
           NEW step \in {"insert", "delete"},
           step = "insert" => token \in Secrets, step = "delete" => token = NoToken,
           IInv, stage = "serving", BeginToken(a, p, token, step),
           UNCHANGED <<presetVars, mainVars>>
    PROVE  IInv'
<1> USE DEF BeginToken, CountCall
<1>types. TokensTypeOK
  BY DEF IInv, TypeOK
<1>inv. TokenInv
  BY DEF IInv
<1>1. a \notin CallsOn(p)
  BY TokenAssumption DEF CallsOn, NoJob
<1>2. job'[a] = [step |-> step, provider |-> p, token |-> token,
                 rivals |-> {job[c].token : c \in CallsOn(p)}]
  OBVIOUS
<1>3. \A b \in Admins \ {a} :
         /\ b \in CallsOn(p) => job'[b] = [job[b] EXCEPT !.rivals = @ \union {token}]
         /\ b \notin CallsOn(p) => job'[b] = job[b]
  OBVIOUS
<1>4. \A b \in Admins \ {a} :
         /\ job'[b].step = job[b].step /\ job'[b].provider = job[b].provider
         /\ job'[b].token = job[b].token
         /\ job'[b].rivals = IF b \in CallsOn(p) THEN job[b].rivals \union {token}
                             ELSE job[b].rivals
         /\ job'[b] \in Job
         /\ job'[b] = NoJob <=> job[b] = NoJob
  <2> SUFFICES ASSUME NEW b \in Admins \ {a}
               PROVE  /\ job'[b].step = job[b].step /\ job'[b].provider = job[b].provider
                      /\ job'[b].token = job[b].token
                      /\ job'[b].rivals = IF b \in CallsOn(p) THEN job[b].rivals \union {token}
                                          ELSE job[b].rivals
                      /\ job'[b] \in Job
                      /\ job'[b] = NoJob <=> job[b] = NoJob
    OBVIOUS
  <2>1. CASE b \notin CallsOn(p)
    BY <1>3, <2>1, JobTypes
  <2>2. CASE b \in CallsOn(p)
    <3>1. job[b] # NoJob /\ job[b] \in Job /\ job[b].provider \in Providers
      BY <2>2, JobTypes
    <3>2. job'[b] = [job[b] EXCEPT !.rivals = @ \union {token}]
      BY <1>3, <2>2
    <3>3. job'[b].provider = job[b].provider
      BY <3>1, <3>2 DEF Job
    <3>4. job'[b] # NoJob
      BY <3>1, <3>3, TokenAssumption DEF NoJob
    <3>5. QED
      BY <2>2, <3>1, <3>2, <3>4 DEF Job
  <2>3. QED
    BY <2>1, <2>2
<1>5. \A q \in Providers : given[q] \subseteq given'[q] /\ (q = p => token \in given'[q])
  BY <1>types DEF TokensTypeOK
<1>6. TokensTypeOK'
  <2>1. {job[c].token : c \in CallsOn(p)} \subseteq Token
    BY JobTypes DEF CallsOn
  <2>2. job'[a] \in Job
    BY <1>2, <2>1 DEF Job, Step
  <2>3. job' \in [Admins -> Job]
    BY <1>4, <2>2
  <2>4. \A b \in Admins : job'[b] = NoJob \/ job'[b].provider \in Providers
    BY <1>2, <1>4, JobTypes
  <2>5. QED
    BY <1>types, <2>3, <2>4 DEF TokensTypeOK
<1>7. UnderOneSeed' /\ GivenInRow'
  BY <1>inv, <1>5 DEF TokenInv, UnderOneSeed, GivenInRow, mainVars
<1>8. JobsGiven'
  BY <1>inv, <1>2, <1>4, <1>5, JobTypes DEF TokenInv, JobsGiven
<1>9. JobsFit'
  BY <1>inv, <1>2, <1>4 DEF TokenInv, JobsFit
<1>10. JobsMeet'
  <2> SUFFICES ASSUME NEW q \in Providers, NEW b \in CallsOn(q)', NEW c \in CallsOn(q)',
                      b # c
               PROVE  job'[c].token \in job'[b].rivals
    BY DEF JobsMeet
  <2>1. b \in Admins /\ c \in Admins /\ job'[b].provider = q /\ job'[c].provider = q
    BY DEF CallsOn
  <2>2. CASE b = a
    <3>1. q = p /\ c \in CallsOn(p) /\ job'[c].token = job[c].token
      BY <1>2, <1>4, <2>1, <2>2 DEF CallsOn
    <3>2. QED
      BY <1>2, <2>2, <3>1
  <2>3. CASE c = a
    <3>1. q = p /\ b \in CallsOn(p) /\ job'[c].token = token
      BY <1>2, <1>4, <2>1, <2>3 DEF CallsOn
    <3>2. job'[b].rivals = job[b].rivals \union {token}
      BY <1>4, <2>1, <2>3, <3>1
    <3>3. QED
      BY <2>3, <3>1, <3>2
  <2>4. CASE b # a /\ c # a
    <3>1. b \in CallsOn(q) /\ c \in CallsOn(q) /\ job'[c].token = job[c].token
      BY <1>4, <2>1, <2>4 DEF CallsOn
    <3>2. job[c].token \in job[b].rivals
      BY <1>inv, <3>1 DEF TokenInv, JobsMeet
    <3>3. QED
      BY <1>4, <2>1, <2>4, <3>1, <3>2
  <2>5. QED
    BY <2>2, <2>3, <2>4
<1>11. \A b \in Admins \ {a} : Candidates(b) \subseteq Candidates(b)'
  BY <1>4 DEF Candidates
<1>12. RowWritten' /\ TokenCached'
  BY <1>inv, <1>2, <1>4, <1>11 DEF TokenInv, RowWritten, TokenCached
<1>13. calls' \in 0..MaxCalls
  BY CallsAssumption DEF IInv, TypeOK
<1>14. QED
  BY <1>6, <1>7, <1>8, <1>9, <1>10, <1>12, <1>13, TokenStepKeeps DEF TokenInv

(***************************************************************************)
(* A call that only goes on to its next step stays as it is otherwise.     *)
(***************************************************************************)
LEMMA AdvanceKeeps ==
    ASSUME NEW a \in Admins, NEW step \in {"cache", "answer"},
           IInv, job[a].step # "idle", Advance(a, step), UNCHANGED given
    PROVE  /\ job'[a].step = step
           /\ \A b \in Admins :
                 /\ b # a => job'[b] = job[b]
                 /\ job'[b].provider = job[b].provider /\ job'[b].token = job[b].token
                 /\ job'[b].rivals = job[b].rivals /\ Candidates(b)' = Candidates(b)
                 /\ job'[b] = NoJob <=> job[b] = NoJob
           /\ job' \in [Admins -> Job]
           /\ \A b \in Admins : job'[b] = NoJob \/ job'[b].provider \in Providers
           /\ JobsGiven' /\ JobsFit' /\ JobsMeet'
<1> USE DEF Advance
<1>types. TokensTypeOK
  BY DEF IInv, TypeOK
<1>inv. TokenInv
  BY DEF IInv
<1>1. job'[a] = [job[a] EXCEPT !.step = step] /\ job[a] \in Job
  BY <1>types DEF TokensTypeOK
<1>2. \A b \in Admins : b # a => job'[b] = job[b]
  BY <1>types DEF TokensTypeOK
<1>3. /\ job'[a].step = step /\ job'[a].provider = job[a].provider
      /\ job'[a].token = job[a].token /\ job'[a].rivals = job[a].rivals
      /\ job'[a] \in Job
  BY <1>1 DEF Job, Step
<1>4. job[a] # NoJob /\ job'[a] # NoJob
  BY <1>3 DEF NoJob
<1>5. \A b \in Admins :
         /\ job'[b].provider = job[b].provider /\ job'[b].token = job[b].token
         /\ job'[b].rivals = job[b].rivals
         /\ job'[b] = NoJob <=> job[b] = NoJob
  BY <1>2, <1>3, <1>4
<1>6. \A b \in Admins : Candidates(b)' = Candidates(b)
  BY <1>5 DEF Candidates
<1>7. /\ job' \in [Admins -> Job]
      /\ \A b \in Admins : job'[b] = NoJob \/ job'[b].provider \in Providers
  BY <1>types, <1>2, <1>3, <1>5 DEF TokensTypeOK
<1>8. JobsGiven'
  BY <1>inv, <1>5 DEF TokenInv, JobsGiven
<1>9. JobsFit'
  BY <1>inv, <1>2, <1>3 DEF TokenInv, JobsFit
<1>10. JobsMeet'
  BY <1>inv, <1>5 DEF TokenInv, JobsMeet, CallsOn
<1>11. QED
  BY <1>2, <1>3, <1>5, <1>6, <1>7, <1>8, <1>9, <1>10

(***************************************************************************)
(* A statement writes the token of its call: a candidate of each call on   *)
(* the provider.                                                           *)
(***************************************************************************)
LEMMA WriteRowKeeps ==
    ASSUME NEW a \in Admins, IInv, stage = "serving",
           InsertRow(a, seed) \/ DeleteRow(a), UNCHANGED <<presetVars, mainVars>>
    PROVE  IInv'
<1> DEFINE p == job[a].provider
           row == tokens'[p]
<1>types. TokensTypeOK /\ seed \in Seeds
  BY DEF IInv, TypeOK
<1>inv. TokenInv
  BY DEF IInv
<1>1. /\ job[a].step \in {"insert", "delete"} /\ Advance(a, "cache")
      /\ UNCHANGED <<calls, held, given>>
  BY DEF InsertRow, DeleteRow
<1>2. p \in Providers
  BY <1>1, JobTypes
<1>3. /\ tokens' \in [Providers -> Encrypted \union {NoToken}]
      /\ \A q \in Providers : q # p => tokens'[q] = tokens[q]
      /\ Decrypts(seed, row) /\ Plain(row) = job[a].token
  <2>1. CASE InsertRow(a, seed)
    <3>1. job[a].token \in Secrets
      BY <2>1, <1>inv DEF InsertRow, TokenInv, JobsFit
    <3>2. encrypt(seed, job[a].token) \in Encrypted /\ row = encrypt(seed, job[a].token)
      BY <2>1, <3>1, <1>2, <1>types DEF InsertRow, encrypt, Encrypted, TokensTypeOK
    <3>3. row # NoToken
      BY <3>2, TokenAssumption DEF Encrypted
    <3>4. QED
      BY <2>1, <3>2, <3>3, <1>2, <1>types
         DEF InsertRow, TokensTypeOK, Decrypts, Plain, encrypt
  <2>2. CASE DeleteRow(a)
    <3>1. job[a].token = NoToken /\ row = NoToken
      BY <2>2, <1>2, <1>inv, <1>types DEF DeleteRow, TokenInv, JobsFit, TokensTypeOK
    <3>2. QED
      BY <2>2, <3>1, <1>2, <1>types DEF DeleteRow, TokensTypeOK, Decrypts, Plain
  <2>3. QED
    BY <2>1, <2>2
<1>4. job[a].step # "idle"
  BY <1>1
<1>5. TokensTypeOK'
  BY <1>types, <1>1, <1>3, <1>4, AdvanceKeeps DEF TokensTypeOK
<1>6. UnderOneSeed'
  <2>1. \A q \in Providers : Decrypts(seed, tokens'[q])
    BY <1>inv, <1>3 DEF TokenInv, UnderOneSeed
  <2>2. QED
    BY <2>1, <1>types, <1>inv, <1>1 DEF TokenInv, UnderOneSeed, mainVars
<1>7. job[a].token \in given[p]
  BY <1>inv, <1>4 DEF TokenInv, JobsGiven, NoJob
<1>8. GivenInRow'
  BY <1>inv, <1>1, <1>3, <1>7 DEF TokenInv, GivenInRow
<1>9. RowWritten'
  <2> SUFFICES ASSUME NEW b \in Admins, job'[b].step \in {"cache", "answer"}
               PROVE  Plain(tokens'[job'[b].provider]) \in Candidates(b)'
    BY DEF RowWritten
  <2>1. job'[b].provider = job[b].provider /\ Candidates(b)' = Candidates(b)
    BY <1>1, <1>4, AdvanceKeeps
  <2>2. CASE b = a
    BY <1>3, <2>1, <2>2 DEF Candidates
  <2>3. CASE b # a
    <3>1. job[b].step \in {"cache", "answer"} /\ job[b].provider \in Providers
      BY <1>1, <1>4, <2>3, AdvanceKeeps, JobTypes
    <3>2. CASE job[b].provider = p
      <4>1. a \in CallsOn(p) /\ b \in CallsOn(p)
        BY <3>2 DEF CallsOn
      <4>2. job[a].token \in job[b].rivals
        BY <1>inv, <1>2, <2>3, <4>1 DEF TokenInv, JobsMeet
      <4>3. QED
        BY <1>3, <2>1, <3>2, <4>2 DEF Candidates
    <3>3. CASE job[b].provider # p
      BY <1>inv, <1>3, <2>1, <3>1, <3>3 DEF TokenInv, RowWritten
    <3>4. QED
      BY <3>2, <3>3
  <2>4. QED
    BY <2>2, <2>3
<1>10. TokenCached'
  <2>1. \A b \in Admins : job'[b].step = "answer" => b # a /\ job'[b] = job[b]
    BY <1>1, <1>4, AdvanceKeeps
  <2>2. \A b \in Admins : Candidates(b)' = Candidates(b)
    BY <1>1, <1>4, AdvanceKeeps
  <2>3. QED
    BY <1>inv, <1>1, <2>1, <2>2 DEF TokenInv, TokenCached
<1>11. JobsGiven' /\ JobsFit' /\ JobsMeet'
  BY <1>1, <1>4, AdvanceKeeps
<1>12. QED
  BY <1>1, <1>5, <1>6, <1>8, <1>9, <1>10, <1>11, TokenStepKeeps DEF TokenInv, IInv, TypeOK

(***************************************************************************)
(* So does its access to the cache.                                        *)
(***************************************************************************)
LEMMA CacheTokenKeeps ==
    ASSUME NEW a \in Admins, IInv, stage = "serving", CacheToken(a),
           UNCHANGED <<presetVars, mainVars>>
    PROVE  IInv'
<1> DEFINE p == job[a].provider
<1>types. TokensTypeOK
  BY DEF IInv, TypeOK
<1>inv. TokenInv
  BY DEF IInv
<1>1. /\ job[a].step = "cache" /\ Advance(a, "answer") /\ UNCHANGED <<calls, tokens, given>>
      /\ job[a].step # "idle"
  BY DEF CacheToken
<1>2. p \in Providers /\ job[a].token \in Token
  BY <1>1, JobTypes
<1>3. /\ held' \in [Providers -> Token] /\ held'[p] = job[a].token
      /\ \A q \in Providers : q # p => held'[q] = held[q]
  BY <1>2, <1>types DEF CacheToken, TokensTypeOK
<1>4. TokensTypeOK'
  BY <1>types, <1>1, <1>3, AdvanceKeeps DEF TokensTypeOK
<1>5. job[a].token \in given[p]
  BY <1>inv, <1>1 DEF TokenInv, JobsGiven, NoJob
<1>6. UnderOneSeed' /\ GivenInRow'
  BY <1>inv, <1>1, <1>3, <1>5 DEF TokenInv, UnderOneSeed, GivenInRow, mainVars
<1>7. RowWritten'
  <2>1. \A b \in Admins : job'[b].step \in {"cache", "answer"}
                             => job[b].step \in {"cache", "answer"}
    BY <1>1, AdvanceKeeps
  <2>2. \A b \in Admins : /\ job'[b].provider = job[b].provider
                          /\ Candidates(b)' = Candidates(b)
    BY <1>1, AdvanceKeeps
  <2>3. QED
    BY <1>inv, <1>1, <2>1, <2>2 DEF TokenInv, RowWritten
<1>8. TokenCached'
  <2> SUFFICES ASSUME NEW b \in Admins, job'[b].step = "answer"
               PROVE  held'[job'[b].provider] \in Candidates(b)'
    BY DEF TokenCached
  <2>1. job'[b].provider = job[b].provider /\ Candidates(b)' = Candidates(b)
    BY <1>1, AdvanceKeeps
  <2>2. CASE b = a
    BY <1>3, <2>1, <2>2 DEF Candidates
  <2>3. CASE b # a
    <3>1. job[b].step = "answer" /\ job[b].provider \in Providers
      BY <1>1, <2>3, AdvanceKeeps, JobTypes
    <3>2. CASE job[b].provider = p
      <4>1. a \in CallsOn(p) /\ b \in CallsOn(p)
        BY <3>2 DEF CallsOn
      <4>2. job[a].token \in job[b].rivals
        BY <1>inv, <1>2, <2>3, <4>1 DEF TokenInv, JobsMeet
      <4>3. QED
        BY <1>3, <2>1, <3>2, <4>2 DEF Candidates
    <3>3. CASE job[b].provider # p
      BY <1>inv, <1>3, <2>1, <3>1, <3>3 DEF TokenInv, TokenCached
    <3>4. QED
      BY <3>2, <3>3
  <2>4. QED
    BY <2>2, <2>3
<1>9. JobsGiven' /\ JobsFit' /\ JobsMeet'
  BY <1>1, AdvanceKeeps
<1>10. QED
  BY <1>1, <1>4, <1>6, <1>7, <1>8, <1>9, TokenStepKeeps DEF TokenInv, IInv, TypeOK

(***************************************************************************)
(* A call that ends leaves the others as they are.                         *)
(***************************************************************************)
LEMMA DoneKeeps ==
    ASSUME NEW a \in Admins, IInv, Done(a), UNCHANGED <<tokens, held>>
    PROVE  /\ job' \in [Admins -> Job]
           /\ job'[a] = NoJob /\ \A b \in Admins : b # a => job'[b] = job[b]
           /\ \A b \in Admins : job'[b] = NoJob \/ job'[b].provider \in Providers
           /\ \A q \in Providers : CallsOn(q)' \subseteq CallsOn(q) \ {a}
           /\ JobsFit' /\ JobsMeet' /\ RowWritten' /\ TokenCached'
<1>types. TokensTypeOK
  BY DEF IInv, TypeOK
<1>inv. TokenInv
  BY DEF IInv
<1>1. NoJob \in Job
  BY DEF Job, NoJob, Step, Token
<1>2. /\ job' \in [Admins -> Job]
      /\ job'[a] = NoJob /\ \A b \in Admins : b # a => job'[b] = job[b]
  BY <1>types, <1>1 DEF Done, TokensTypeOK
<1>3. \A b \in Admins : job'[b] = NoJob \/ job'[b].provider \in Providers
  BY <1>types, <1>2 DEF TokensTypeOK
<1>4. \A q \in Providers : CallsOn(q)' \subseteq CallsOn(q) \ {a}
  BY <1>2, TokenAssumption DEF CallsOn, NoJob
<1>5. \A b \in Admins : job'[b].step # "idle" => b # a /\ job'[b] = job[b]
  BY <1>2 DEF NoJob
<1>6. JobsFit'
  BY <1>inv, <1>5 DEF TokenInv, JobsFit
<1>7. JobsMeet'
  <2> SUFFICES ASSUME NEW q \in Providers, NEW b \in CallsOn(q)', NEW c \in CallsOn(q)',
                      b # c
               PROVE  job'[c].token \in job'[b].rivals
    BY DEF JobsMeet
  <2>1. b \in CallsOn(q) /\ c \in CallsOn(q) /\ b # a /\ c # a
    BY <1>4
  <2>2. job'[b] = job[b] /\ job'[c] = job[c]
    BY <1>2, <2>1 DEF CallsOn
  <2>3. QED
    BY <1>inv, <2>1, <2>2 DEF TokenInv, JobsMeet
<1>8. \A b \in Admins : b # a => Candidates(b)' = Candidates(b)
  BY <1>2 DEF Candidates
<1>9. RowWritten' /\ TokenCached'
  BY <1>inv, <1>5, <1>8 DEF TokenInv, RowWritten, TokenCached
<1>10. QED
  BY <1>2, <1>3, <1>4, <1>6, <1>7, <1>9

(***************************************************************************)
(* The answer: row and cache have a candidate of the call, and all others  *)
(* in progress on the provider are among its rivals.                       *)
(***************************************************************************)
LEMMA AnswerTokenKeeps ==
    ASSUME NEW a \in Admins, IInv, stage = "serving", AnswerToken(a),
           UNCHANGED <<presetVars, mainVars>>
    PROVE  IInv'
<1> DEFINE p == job[a].provider
<1>types. TokensTypeOK
  BY DEF IInv, TypeOK
<1>inv. TokenInv
  BY DEF IInv
<1>1. job[a].step = "answer" /\ Done(a) /\ UNCHANGED <<calls, tokens, held>>
  BY DEF AnswerToken
<1>2. p \in Providers /\ Candidates(a) \in SUBSET Token
  BY <1>1, JobTypes
<1>3. given' = [given EXCEPT ![p] = Candidates(a)]
  BY DEF AnswerToken, Candidates
<1>4. /\ given' \in [Providers -> SUBSET Token] /\ given'[p] = Candidates(a)
      /\ \A q \in Providers : q # p => given'[q] = given[q]
  BY <1>types, <1>2, <1>3 DEF TokensTypeOK
<1>5. TokensTypeOK'
  BY <1>types, <1>1, <1>4, DoneKeeps DEF TokensTypeOK
<1>6. Plain(tokens[p]) \in Candidates(a) /\ held[p] \in Candidates(a)
  BY <1>inv, <1>1 DEF TokenInv, RowWritten, TokenCached
<1>7. UnderOneSeed' /\ GivenInRow'
  BY <1>inv, <1>1, <1>4, <1>6 DEF TokenInv, UnderOneSeed, GivenInRow, mainVars
<1>8. JobsGiven'
  <2> SUFFICES ASSUME NEW b \in Admins, job'[b] # NoJob
               PROVE  job'[b].token \in given'[job'[b].provider]
    BY DEF JobsGiven
  <2>1. b # a /\ job'[b] = job[b] /\ job[b].provider \in Providers
    BY <1>1, DoneKeeps, JobTypes
  <2>2. CASE job[b].provider = p
    <3>1. a \in CallsOn(p) /\ b \in CallsOn(p)
      BY <2>2 DEF CallsOn
    <3>2. job[b].token \in job[a].rivals
      BY <1>inv, <1>2, <2>1, <3>1 DEF TokenInv, JobsMeet
    <3>3. QED
      BY <1>4, <2>1, <2>2, <3>2 DEF Candidates
  <2>3. CASE job[b].provider # p
    BY <1>inv, <1>4, <2>1, <2>3 DEF TokenInv, JobsGiven
  <2>4. QED
    BY <2>2, <2>3
<1>9. JobsFit' /\ JobsMeet' /\ RowWritten' /\ TokenCached'
  BY <1>1, DoneKeeps
<1>10. QED
  BY <1>1, <1>5, <1>7, <1>8, <1>9, TokenStepKeeps DEF TokenInv, IInv, TypeOK

LEMMA FailTokenKeeps ==
    ASSUME NEW a \in Admins, IInv, stage = "serving", FailToken(a),
           UNCHANGED <<presetVars, mainVars>>
    PROVE  IInv'
<1>types. TokensTypeOK
  BY DEF IInv, TypeOK
<1>inv. TokenInv
  BY DEF IInv
<1>1. Done(a) /\ UNCHANGED <<calls, tokens, held, given>>
  BY DEF FailToken
<1>2. TokensTypeOK'
  BY <1>types, <1>1, DoneKeeps DEF TokensTypeOK
<1>3. UnderOneSeed' /\ GivenInRow'
  BY <1>inv, <1>1 DEF TokenInv, UnderOneSeed, GivenInRow, mainVars
<1>4. JobsGiven'
  BY <1>inv, <1>1, DoneKeeps DEF TokenInv, JobsGiven
<1>5. JobsFit' /\ JobsMeet' /\ RowWritten' /\ TokenCached'
  BY <1>1, DoneKeeps
<1>6. QED
  BY <1>1, <1>2, <1>3, <1>4, <1>5, TokenStepKeeps DEF TokenInv, IInv, TypeOK

LEMMA HandleProviderKeeps ==
    ASSUME NEW a \in Admins, IInv, HandleProvider(a) PROVE IInv'
<1> USE DEF HandleProvider
<1>1. ASSUME NEW p \in Providers, NEW secret \in Secrets,
             CreateProvider(a, p, secret) \/ UpdateProvider(a, p, secret)
      PROVE  IInv'
  <2>1. secret \in Token /\ BeginToken(a, p, secret, "insert")
    BY <1>1 DEF CreateProvider, UpdateProvider, Token
  <2>2. QED
    BY <2>1, BeginTokenKeeps
<1>2. ASSUME NEW p \in Providers, DeleteProvider(a, p) PROVE IInv'
  <2>1. NoToken \in Token /\ BeginToken(a, p, NoToken, "delete")
    BY <1>2 DEF DeleteProvider, Token
  <2>2. QED
    BY <2>1, BeginTokenKeeps
<1>3. CASE InsertRow(a, seed) \/ DeleteRow(a)
  BY <1>3, WriteRowKeeps
<1>4. CASE CacheToken(a)
  BY <1>4, CacheTokenKeeps
<1>5. CASE AnswerToken(a)
  BY <1>5, AnswerTokenKeeps
<1>6. CASE FailToken(a)
  BY <1>6, FailTokenKeeps
<1>7. QED
  BY <1>1, <1>2, <1>3, <1>4, <1>5, <1>6 DEF TokenCall

-----------------------------------------------------------------------------
(***************************************************************************)
(* The inductive invariant of the process against its disk.                *)
(***************************************************************************)
THEOREM StartupInvariant == Spec => []IInv
<1>1. IInv /\ [Next]_vars => IInv'
  <2> SUFFICES ASSUME IInv, [Next]_vars PROVE IInv'
    OBVIOUS
  <2>1. ASSUME NEW s \in Seeds, Start(s) PROVE IInv'
    BY <2>1, StartKeeps
  <2>2. CASE LoadProviders
    BY <2>2, LoadKeeps
  <2>3. CASE SeedPreset
    BY <2>3, SeedKeeps
  <2>4. CASE Serve
    BY <2>4, ServeKeeps
  <2>5. CASE Stop
    BY <2>5, StopKeeps
  <2>6. ASSUME NEW a \in Admins, HandlePreset(a) PROVE IInv'
    BY <2>6, HandlePresetKeeps
  <2>7. ASSUME NEW a \in Admins, HandleProvider(a) PROVE IInv'
    BY <2>7, HandleProviderKeeps
  <2>8. CASE UNCHANGED vars
    <3>1. UNCHANGED <<presetVars, tokenVars, calls, mainVars>>
      BY <2>8 DEF vars
    <3>2. CallsOnlyServed' /\ PresetInv' /\ BuiltinsOpen' /\ PresetsTypeOK'
      BY <3>1 DEF IInv, CallsOnlyServed, PresetInv, RivalsKnown, WrittenStays, ToldStays,
                  BuiltinsOpen, Running, Answering, TypeOK, PresetsTypeOK, presetVars,
                  tokenVars, mainVars
    <3>3. TypeOK'
      BY <3>1, <3>2, TokensUntouched DEF IInv, TypeOK, mainVars
    <3>4. QED
      BY <3>1, <3>2, <3>3, TokensUntouched DEF IInv
  <2>9. QED
    BY <2>1, <2>2, <2>3, <2>4, <2>5, <2>6, <2>7, <2>8 DEF Next
<1>2. QED
  BY <1>1, InitIInv, PTL DEF Spec

(***************************************************************************)
(* Every variable of the process keeps its type.                           *)
(***************************************************************************)
THEOREM StartupTypeCorrect == Spec => []TypeOK
<1>1. IInv => TypeOK
  BY DEF IInv
<1>2. QED
  BY <1>1, StartupInvariant, PTL

(***************************************************************************)
(* What administrators were told of a preset stays so until the next call  *)
(* on it, of a built-in one until the next start at the latest.            *)
(***************************************************************************)
THEOREM KnownPresetsAlwaysStay == Spec => []KnownPresetsStay
<1>1. IInv => KnownPresetsStay
  <2>1. \A n \in Names \ CalledFor : ~Answering(n)
    BY DEF CalledFor, Answering, Running
  <2>2. QED
    BY <2>1 DEF IInv, PresetInv, ToldStays, KnownPresetsStay
<1>2. QED
  BY <1>1, StartupInvariant, PTL

(***************************************************************************)
(* There is always one seed that reads all rows, and it reads tokens that  *)
(* the acknowledged calls, or calls since, have left.                      *)
(***************************************************************************)
THEOREM OneSeedAlwaysReadsAll == Spec => []OneSeedReadsAll
<1>1. IInv => OneSeedReadsAll
  BY DEF IInv, TokenInv, UnderOneSeed, GivenInRow, OneSeedReadsAll
<1>2. QED
  BY <1>1, StartupInvariant, PTL

(***************************************************************************)
(* No token is in use that an acknowledged call has replaced, whatever     *)
(* calls overlapped between their statement and the cache.                 *)
(***************************************************************************)
THEOREM AlwaysServesGivenTokens == Spec => []ServesGivenTokens
<1>1. IInv => ServesGivenTokens
  BY DEF IInv, TokenInv, UnderOneSeed, ServesGivenTokens
<1>2. QED
  BY <1>1, StartupInvariant, PTL
=============================================================================
