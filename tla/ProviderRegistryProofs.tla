----------------------- MODULE ProviderRegistryProofs -----------------------
(***************************************************************************)
(* Proofs about ProviderRegistry: its types, that an acknowledged change is*)
(* durable, and that the routes match the providers at rest, for any number*)
(* of calls in parallel, providers, models and restarts.                   *)
(***************************************************************************)
EXTENDS ProviderRegistry, TLAPS

-----------------------------------------------------------------------------
(***************************************************************************)
(* Calls in progress know of each other, whichever began first.            *)
(***************************************************************************)
RivalsKnown ==
    \A a \in Running : /\ Name(a) \in Names
                       /\ \A b \in Running \ {a} : Name(b) \in rivals[a]

(***************************************************************************)
(* A provider that is saved has a row, and so has one that is cached.      *)
(***************************************************************************)
DraftOk(a) ==
    /\ pc[a] \in {"replace", "clearMaps", "insertMaps", "clearPrices",
                  "insertPrices", "publish"} => Draft(a).url # NoRow
    /\ pc[a] \in {"delete", "evict"} => Draft(a) = Absent

CachedOk(p) == cache[p] = Absent \/ cache[p].url # NoRow

(***************************************************************************)
(* How far a call has come that overlaps with no other on its provider.    *)
(***************************************************************************)
WrittenTo(p, a) ==
    /\ pc[a] \in {"clearMaps", "insertMaps", "insertPrices", "publish"} =>
           urls[p] = Draft(a).url
    /\ pc[a] = "insertMaps" =>
           \A m \in Models :
               maps[p][m] = IF m \in call[a].todo THEN NoRow ELSE Draft(a).maps[m]
    /\ pc[a] \in {"insertPrices", "publish"} => maps[p] = Draft(a).maps
    /\ pc[a] = "publish" => prices[p] = Draft(a).price
    /\ pc[a] = "evict" => urls[p] = NoRow
    /\ pc[a] \in {"list", "fill"} => cache[p] = Draft(a) /\ Loaded(p) = Draft(a)

Written(a) ==
    a \in Running /\ Name(a) \notin rivals[a] => WrittenTo(Name(a), a)

Listed(a) ==
    pc[a] = "fill" /\ rivals[a] = {} => call[a].listed = cache

(***************************************************************************)
(* What was acknowledged and has not been called for since.                *)
(***************************************************************************)
AckedStays ==
    \A p \in Names :
        acked[p] # Unknown =>
            /\ cache[p] = acked[p]
            /\ Loaded(p) = acked[p]
            /\ \A a \in Running : Name(a) # p

RoutesFollow ==
    settled /\ (\A a \in Admins : pc[a] \notin {"list", "fill"})
        => routes = RoutesOf(cache)

IInv ==
    /\ TypeOK
    /\ RivalsKnown
    /\ \A a \in Admins : DraftOk(a) /\ Written(a) /\ Listed(a)
    /\ \A p \in Names : CachedOk(p)
    /\ AckedStays
    /\ RoutesFollow

-----------------------------------------------------------------------------
LEMMA AbsentIsProvider == Absent \in Provider /\ Absent.url = NoRow /\ NoCall \in Call
  BY DEF Absent, Provider, NoMaps, Field, NoCall, NewCall, Call

LEMMA RoutesTyped ==
  ASSUME NEW list \in [Names -> Provider]
  PROVE  RoutesOf(list) \in [Models -> SUBSET Target]
<1>1. ASSUME NEW m \in Models, NEW p \in Names, list[p].maps[m] # NoRow
      PROVE  [provider |-> p, model |-> list[p].maps[m]] \in Target
  BY <1>1 DEF Provider, Field, Target
<1> QED
  BY <1>1 DEF RoutesOf

LEMMA LoadedTyped ==
  ASSUME TypeOK, NEW p \in Names
  PROVE  Loaded(p) \in Provider /\ (Loaded(p) = Absent \/ Loaded(p).url # NoRow)
BY AbsentIsProvider DEF TypeOK, Loaded, Provider

LEMMA InitIInv == Init => IInv
<1> SUFFICES ASSUME Init PROVE IInv
  OBVIOUS
<1> USE DEF Init
<1>1. cache \in [Names -> Provider] /\ NoMaps \in [Models -> Field]
  BY AbsentIsProvider DEF NoMaps, Field
<1>2. TypeOK
  BY <1>1, AbsentIsProvider, RoutesTyped, RegistryAssumption
     DEF TypeOK, Field, Stage, RegistryAssumption
<1>3. /\ RivalsKnown
      /\ \A a \in Admins : DraftOk(a) /\ Written(a) /\ Listed(a)
  BY DEF RivalsKnown, Running, DraftOk, Written, Listed
<1>4. /\ \A p \in Names : CachedOk(p)
      /\ AckedStays
      /\ RoutesFollow
  BY DEF CachedOk, AckedStays, RoutesFollow, Loaded, Running
<1> QED
  BY <1>2, <1>3, <1>4 DEF IInv

-----------------------------------------------------------------------------
(***************************************************************************)
(* A call that begins.                                                     *)
(***************************************************************************)
LEMMA BeginKeeps ==
  ASSUME NEW a \in Admins, NEW op \in {"create", "update", "delete"}, NEW p \in Names,
         NEW draft \in Provider, NEW stage \in {"replace", "delete"},
         stage = "replace" => draft.url # NoRow,
         stage = "delete" => draft = Absent,
         IInv, Begin(a, op, p, draft, stage)
  PROVE  IInv'
<1> USE DEF Begin, Goto, tables
<1>t. TypeOK
  BY DEF IInv
<1>c. /\ call'[a] = NewCall(op, p, draft)
      /\ pc'[a] = stage
      /\ a \notin Running
      /\ Running' = Running \union {a}
      /\ \A b \in Admins \ {a} : call'[b] = call[b] /\ pc'[b] = pc[b]
  BY <1>t DEF TypeOK, Running
<1>n. NewCall(op, p, draft) \in Call /\ NewCall(op, p, draft).name = p
      /\ NewCall(op, p, draft).draft = draft
  BY AbsentIsProvider DEF NewCall, Call
<1>1. TypeOK'
  <2>1. {call[c].name : c \in Running} \in SUBSET Names
    BY DEF IInv, RivalsKnown, Name
  <2>2. rivals' \in [Admins -> SUBSET Names]
    BY <1>t, <2>1 DEF TypeOK
  <2>3. call' \in [Admins -> Call]
    BY <1>t, <1>n DEF TypeOK
  <2>4. pc' \in [Admins -> Stage] /\ calls' \in 0..MaxCalls
    BY <1>t, RegistryAssumption DEF TypeOK, Stage, RegistryAssumption
  <2>5. acked' \in [Names -> Provider \union {Unknown}]
    BY <1>t DEF TypeOK
  <2> QED
    BY <1>t, <2>2, <2>3, <2>4, <2>5 DEF TypeOK
<1>2. RivalsKnown'
  <2> SUFFICES ASSUME NEW b \in Running'
               PROVE  /\ Name(b)' \in Names
                      /\ \A c \in Running' \ {b} : Name(c)' \in rivals'[b]
    BY DEF RivalsKnown
  <2>1. CASE b = a
    <3>1. rivals'[a] = {call[c].name : c \in Running}
      BY <1>t DEF TypeOK
    <3>2. \A c \in Running : Name(c)' = call[c].name
      BY <1>c DEF Name, Running
    <3> QED
      BY <1>c, <1>n, <2>1, <3>1, <3>2 DEF Name
  <2>2. CASE b # a
    <3>1. b \in Running /\ rivals'[b] = rivals[b] \union {p} /\ Name(b)' = Name(b)
      BY <1>c, <2>2 DEF Name, Running
    <3>2. \A c \in Running' \ {b} : c = a \/ (c \in Running \ {b} /\ Name(c)' = Name(c))
      BY <1>c DEF Name, Running
    <3>3. Name(a)' = p
      BY <1>c, <1>n DEF Name
    <3> QED
      BY <3>1, <3>2, <3>3 DEF IInv, RivalsKnown
  <2> QED
    BY <2>1, <2>2
<1>3. ASSUME NEW b \in Admins
      PROVE  DraftOk(b)' /\ Written(b)' /\ Listed(b)'
  <2>1. CASE b = a
    BY <1>c, <1>n, <2>1 DEF DraftOk, Written, WrittenTo, Listed, Draft
  <2>2. CASE b # a
    <3>1. /\ DraftOk(b) /\ Written(b) /\ Listed(b)
          /\ call'[b] = call[b] /\ pc'[b] = pc[b]
          /\ b \in Running' => b \in Running
          /\ rivals[b] \subseteq rivals'[b]
      BY <1>c, <1>t, <2>2 DEF IInv, TypeOK, Running
    <3> QED
      BY <3>1 DEF DraftOk, Written, WrittenTo, Listed, Draft, Name, Loaded
  <2> QED
    BY <2>1, <2>2
<1>4. (\A q \in Names : CachedOk(q))' /\ RoutesFollow'
  BY <1>c, <1>t DEF IInv, CachedOk, RoutesFollow, TypeOK
<1>5. AckedStays'
  <2> SUFFICES ASSUME NEW q \in Names, acked'[q] # Unknown
               PROVE  /\ cache'[q] = acked'[q]
                      /\ Loaded(q)' = acked'[q]
                      /\ \A b \in Running' : Name(b)' # q
    BY DEF AckedStays
  <2>1. q # p /\ acked'[q] = acked[q]
    BY <1>t DEF TypeOK
  <2>2. \A b \in Running' : (b = a /\ Name(b)' = p) \/ (b \in Running /\ Name(b)' = Name(b))
    BY <1>c, <1>n DEF Name, Running
  <2> QED
    BY <2>1, <2>2 DEF IInv, AckedStays, Loaded
<1> QED
  BY <1>1, <1>2, <1>3, <1>4, <1>5 DEF IInv

-----------------------------------------------------------------------------
(***************************************************************************)
(* What the steps of a call under way have in common: they touch only the  *)
(* rows and the cache entry of their own provider, and once the cache has  *)
(* changed the call goes on to rebuild the routes.                         *)
(***************************************************************************)
OwnStep(a) ==
    /\ pc[a] # "idle" /\ pc'[a] # "idle"
    /\ \A b \in Admins \ {a} : pc'[b] = pc[b] /\ call'[b] = call[b]
    /\ call'[a].name = Name(a) /\ call'[a].draft = Draft(a)
    /\ \A q \in Names \ {Name(a)} :
          /\ urls'[q] = urls[q] /\ maps'[q] = maps[q] /\ prices'[q] = prices[q]
          /\ cache'[q] = cache[q]
    /\ \/ pc'[a] \in {"list", "fill"}
       \/ cache' = cache /\ pc[a] \notin {"list", "fill"}
    /\ UNCHANGED <<routes, rivals, acked, settled>>

LEMMA OwnStepKeeps ==
  ASSUME NEW a \in Admins, IInv, OwnStep(a), TypeOK', DraftOk(a)', Listed(a)',
         Name(a) \notin rivals[a] => WrittenTo(Name(a), a)',
         cache'[Name(a)] = Absent \/ cache'[Name(a)].url # NoRow
  PROVE  IInv'
<1> USE DEF OwnStep
<1>t. TypeOK
  BY DEF IInv
<1>r. /\ a \in Running
      /\ Running' = Running
      /\ \A b \in Admins : Name(b)' = Name(b) /\ Draft(b)' = Draft(b)
      /\ \A b \in Running \ {a} : Name(a) \in rivals[b] /\ rivals[b] # {}
      /\ Name(a) \in Names
  BY DEF Running, Name, Draft, IInv, RivalsKnown
<1>1. RivalsKnown'
  BY <1>r DEF IInv, RivalsKnown, Running
<1>2. ASSUME NEW b \in Admins
      PROVE  DraftOk(b)' /\ Written(b)' /\ Listed(b)'
  <2>1. CASE b = a
    BY <1>r, <2>1 DEF Written
  <2>2. CASE b # a
    <3>1. DraftOk(b) /\ Written(b) /\ Listed(b) /\ call'[b] = call[b] /\ pc'[b] = pc[b]
      BY <2>2 DEF IInv
    <3>2. DraftOk(b)'
      BY <3>1 DEF DraftOk, Draft
    <3>3. Listed(b)'
      BY <1>r, <2>2, <3>1 DEF Listed, Running
    <3>4. ASSUME b \in Running, Name(b) \notin rivals[b]
          PROVE  WrittenTo(Name(b), b)'
      <4>1. Name(b) \in Names \ {Name(a)}
        BY <1>r, <2>2, <3>4 DEF IInv, RivalsKnown
      <4>2. WrittenTo(Name(b), b)
        BY <3>1, <3>4 DEF Written
      <4> DEFINE p == Name(b)
      <4>3. /\ urls'[p] = urls[p] /\ maps'[p] = maps[p] /\ prices'[p] = prices[p]
            /\ cache'[p] = cache[p] /\ Name(b)' = p /\ Loaded(p)' = Loaded(p)
        BY <1>r, <4>1 DEF Loaded
      <4> QED
        BY <3>1, <4>2, <4>3 DEF WrittenTo, Draft, Loaded
    <3> QED
      BY <1>r, <3>2, <3>3, <3>4 DEF Written
  <2> QED
    BY <2>1, <2>2
<1>3. (\A q \in Names : CachedOk(q))'
  <2> SUFFICES ASSUME NEW q \in Names
               PROVE  cache'[q] = Absent \/ cache'[q].url # NoRow
    BY DEF CachedOk
  <2> QED
    BY DEF IInv, CachedOk
<1>4. AckedStays'
  <2> SUFFICES ASSUME NEW q \in Names, acked'[q] # Unknown
               PROVE  /\ cache'[q] = acked'[q]
                      /\ Loaded(q)' = acked'[q]
                      /\ \A b \in Running' : Name(b)' # q
    BY DEF AckedStays
  <2>1. /\ cache[q] = acked[q]
        /\ Loaded(q) = acked[q]
        /\ \A b \in Running : Name(b) # q
    BY DEF IInv, AckedStays
  <2>2. q # Name(a)
    BY <1>r, <2>1
  <2>3. Loaded(q)' = Loaded(q)
    BY <2>2 DEF Loaded
  <2>4. \A b \in Running' : Name(b)' # q
    BY <1>r, <2>1 DEF Running
  <2> QED
    BY <2>1, <2>2, <2>3, <2>4
<1>5. RoutesFollow'
  <2>1. CASE pc'[a] \in {"list", "fill"}
    BY <2>1 DEF RoutesFollow
  <2>2. CASE cache' = cache /\ pc[a] \notin {"list", "fill"}
    BY <2>2 DEF IInv, RoutesFollow
  <2> QED
    BY <2>1, <2>2
<1> QED
  BY <1>1, <1>2, <1>3, <1>4, <1>5 DEF IInv

-----------------------------------------------------------------------------
LEMMA RowStepsKeep ==
  ASSUME NEW a \in Admins, IInv, ReplaceRow(a) \/ ClearMaps(a) \/ DeleteRow(a)
  PROVE  IInv'
<1> USE DEF Goto, history
<1>t. TypeOK /\ DraftOk(a) /\ Written(a)
  BY DEF IInv
<1>n. a \in Running => Name(a) \in Names
  BY DEF IInv, RivalsKnown
<1>d. call[a] \in Call /\ Draft(a) \in Provider
  BY <1>t DEF TypeOK, Call, Draft
<1>o. CachedOk(Name(a)) \/ Name(a) \notin Names
  BY DEF IInv
<1>1. CASE ReplaceRow(a)
  <2> USE <1>1 DEF ReplaceRow
  <2>1. a \in Running /\ Name(a) \in Names /\ pc'[a] = "clearMaps"
    BY <1>n, <1>t DEF Running, TypeOK
  <2>2. TypeOK'
    BY <1>t, <1>d DEF TypeOK, Provider, Stage
  <2>3. OwnStep(a)
    BY <1>t, <2>1 DEF OwnStep, TypeOK, Name, Draft
  <2>4. DraftOk(a)' /\ Listed(a)' /\ WrittenTo(Name(a), a)'
    BY <1>t, <2>1 DEF DraftOk, Listed, WrittenTo, Draft, Name, TypeOK
  <2> QED
    BY <1>o, <2>1, <2>2, <2>3, <2>4, OwnStepKeeps DEF CachedOk
<1>2. CASE ClearMaps(a)
  <2> USE <1>2 DEF ClearMaps
  <2>1. a \in Running /\ Name(a) \in Names /\ pc'[a] = "insertMaps"
    BY <1>n, <1>t DEF Running, TypeOK
  <2>2. Served(Draft(a)) \in SUBSET Models
    BY DEF Served
  <2>3. /\ call'[a] = [call[a] EXCEPT !.todo = Served(Draft(a))]
        /\ \A b \in Admins \ {a} : call'[b] = call[b]
        /\ call' \in [Admins -> Call]
    BY <1>t, <2>2 DEF TypeOK, Call
  <2>4. call'[a].name = Name(a) /\ call'[a].draft = Draft(a)
        /\ call'[a].todo = Served(Draft(a))
    BY <1>d, <2>3 DEF Call, Name, Draft
  <2>5. TypeOK'
    BY <1>t, <2>3 DEF TypeOK, NoMaps, Field, Stage
  <2>6. OwnStep(a)
    BY <1>t, <2>1, <2>3, <2>4 DEF OwnStep, TypeOK
  <2>7. DraftOk(a)' /\ Listed(a)'
    BY <1>t, <2>1, <2>4 DEF DraftOk, Listed, Draft
  <2>8. ASSUME Name(a) \notin rivals[a]
        PROVE  WrittenTo(Name(a), a)'
    <3>1. urls[Name(a)] = Draft(a).url
      BY <1>t, <2>1, <2>8 DEF Written, WrittenTo
    <3>2. \A m \in Models : maps'[Name(a)][m] = NoRow
      BY <1>t, <2>1 DEF TypeOK, NoMaps
    <3> QED
      BY <2>1, <2>4, <3>1, <3>2 DEF WrittenTo, Name, Draft, Served
  <2> QED
    BY <1>o, <2>1, <2>5, <2>6, <2>7, <2>8, OwnStepKeeps DEF CachedOk
<1>3. CASE DeleteRow(a)
  <2> USE <1>3 DEF DeleteRow
  <2>1. a \in Running /\ Name(a) \in Names /\ pc'[a] = "evict"
    BY <1>n, <1>t DEF Running, TypeOK
  <2>2. TypeOK'
    BY <1>t DEF TypeOK, Field, Stage
  <2>3. OwnStep(a)
    BY <1>t, <2>1 DEF OwnStep, TypeOK, Name, Draft
  <2>4. DraftOk(a)' /\ Listed(a)' /\ WrittenTo(Name(a), a)'
    BY <1>t, <2>1 DEF DraftOk, Listed, WrittenTo, Draft, Name, TypeOK
  <2> QED
    BY <1>o, <2>1, <2>2, <2>3, <2>4, OwnStepKeeps DEF CachedOk
<1> QED
  BY <1>1, <1>2, <1>3

(***************************************************************************)
(* The mappings and the prices.                                            *)
(***************************************************************************)
LEMMA InsertMapKeeps ==
  ASSUME NEW a \in Admins, NEW m \in Models, IInv, InsertMap(a, m)
  PROVE  IInv'
<1> USE DEF InsertMap, history
<1>t. TypeOK /\ DraftOk(a) /\ Written(a)
  BY DEF IInv
<1>1. a \in Running /\ Name(a) \in Names /\ CachedOk(Name(a)) /\ pc'[a] = "insertMaps"
  BY DEF IInv, RivalsKnown, Running
<1>d. call[a] \in Call /\ Draft(a) \in Provider
  BY <1>t DEF TypeOK, Call, Draft
<1>3. /\ call'[a] = [call[a] EXCEPT !.todo = call[a].todo \ {m}]
      /\ \A b \in Admins \ {a} : call'[b] = call[b]
      /\ call' \in [Admins -> Call]
  <2>1. call \in [Admins -> Call]
    BY <1>t DEF TypeOK
  <2>2. call' = [call EXCEPT ![a] = [call[a] EXCEPT !.todo = call[a].todo \ {m}]]
    BY <2>1
  <2>3. [call[a] EXCEPT !.todo = call[a].todo \ {m}] \in Call
    <3>1. call[a].todo \ {m} \in SUBSET Models
      BY <1>d DEF Call
    <3> HIDE DEF InsertMap
    <3> QED
      BY <1>d, <3>1 DEF Call
  <2> QED
    BY <2>1, <2>2, <2>3
<1>4. /\ call'[a].name = Name(a) /\ call'[a].draft = Draft(a)
      /\ call'[a].todo = call[a].todo \ {m}
  BY <1>d, <1>3 DEF Call, Name, Draft
<1>5. TypeOK'
  BY <1>t, <1>3, <1>d DEF TypeOK, Provider
<1>6. OwnStep(a)
  BY <1>t, <1>1, <1>3, <1>4 DEF OwnStep, TypeOK
<1>7. DraftOk(a)' /\ Listed(a)'
  BY <1>t, <1>1, <1>4 DEF DraftOk, Listed, Draft
<1>8. ASSUME Name(a) \notin rivals[a]
      PROVE  WrittenTo(Name(a), a)'
  <2>1. WrittenTo(Name(a), a)
    BY <1>t, <1>1, <1>8 DEF Written
  <2>2. \A k \in Models : maps'[Name(a)][k] =
            IF k = m THEN Draft(a).maps[m] ELSE maps[Name(a)][k]
    BY <1>t, <1>1 DEF TypeOK
  <2> QED
    BY <1>1, <1>4, <2>1, <2>2 DEF WrittenTo, Name, Draft
<1> QED
  BY <1>1, <1>5, <1>6, <1>7, <1>8, OwnStepKeeps DEF CachedOk

LEMMA PriceStepsKeep ==
  ASSUME NEW a \in Admins, IInv, ClearPrices(a) \/ InsertPrices(a)
  PROVE  IInv'
<1> USE DEF Goto, history
<1>t. TypeOK /\ DraftOk(a) /\ Written(a)
  BY DEF IInv
<1>r. a \in Running /\ Name(a) \in Names /\ CachedOk(Name(a))
  BY DEF IInv, RivalsKnown, Running, ClearPrices, InsertPrices
<1>d. Draft(a) \in Provider
  BY <1>t DEF TypeOK, Call, Draft
<1>1. CASE ClearPrices(a)
  <2> USE <1>1 DEF ClearPrices
  <2>1. /\ pc'[a] = IF Draft(a).price = NoRow THEN "publish" ELSE "insertPrices"
        /\ prices'[Name(a)] = NoRow
    BY <1>t, <1>r DEF TypeOK
  <2>2. TypeOK'
    BY <1>t DEF TypeOK, Field, Stage
  <2>3. OwnStep(a)
    BY <1>t, <1>r, <2>1 DEF OwnStep, TypeOK, Name, Draft
  <2>4. DraftOk(a)' /\ Listed(a)'
    BY <1>t, <2>1 DEF DraftOk, Listed, Draft
  <2>5. ASSUME Name(a) \notin rivals[a]
        PROVE  WrittenTo(Name(a), a)'
    <3>1. /\ urls[Name(a)] = Draft(a).url
          /\ \A m \in Models : maps[Name(a)][m] = Draft(a).maps[m]
      BY <1>t, <1>r, <2>5 DEF Written, WrittenTo
    <3>2. maps[Name(a)] = Draft(a).maps
      <4>1. maps[Name(a)] \in [Models -> Field] /\ Draft(a).maps \in [Models -> Field]
        BY <1>t, <1>r, <1>d DEF TypeOK, Provider
      <4> QED
        BY <3>1, <4>1
    <3> QED
      BY <2>1, <3>1, <3>2 DEF WrittenTo, Name, Draft
  <2> QED
    BY <1>r, <2>2, <2>3, <2>4, <2>5, OwnStepKeeps DEF CachedOk
<1>2. CASE InsertPrices(a)
  <2> USE <1>2 DEF InsertPrices
  <2>1. pc'[a] = "publish" /\ prices'[Name(a)] = Draft(a).price
    BY <1>t, <1>r DEF TypeOK
  <2>2. TypeOK'
    BY <1>t, <1>d DEF TypeOK, Provider, Stage
  <2>3. OwnStep(a)
    BY <1>t, <1>r, <2>1 DEF OwnStep, TypeOK, Name, Draft
  <2>4. DraftOk(a)' /\ Listed(a)'
    BY <1>t, <2>1 DEF DraftOk, Listed, Draft
  <2>5. Name(a) \notin rivals[a] => WrittenTo(Name(a), a)'
    BY <1>t, <1>r, <2>1 DEF Written, WrittenTo, Name, Draft
  <2> QED
    BY <1>r, <2>2, <2>3, <2>4, <2>5, OwnStepKeeps DEF CachedOk
<1> QED
  BY <1>1, <1>2

(***************************************************************************)
(* The cache, and the copy that the routes are built from.                 *)
(***************************************************************************)
LEMMA CacheStepsKeep ==
  ASSUME NEW a \in Admins, IInv, Publish(a) \/ Evict(a)
  PROVE  IInv'
<1> USE DEF Goto, history, tables
<1>t. TypeOK /\ DraftOk(a) /\ Written(a)
  BY DEF IInv
<1>r. a \in Running /\ Name(a) \in Names
  BY DEF IInv, RivalsKnown, Running, Publish, Evict
<1>d. Draft(a) \in Provider
  BY <1>t DEF TypeOK, Call, Draft
<1>1. cache' = [cache EXCEPT ![Name(a)] = Draft(a)] /\ pc'[a] = "list"
  BY <1>t DEF Publish, Evict, DraftOk, TypeOK
<1>2. TypeOK'
  BY <1>t, <1>d, <1>1 DEF TypeOK, Stage, Publish, Evict
<1>3. OwnStep(a)
  BY <1>t, <1>r, <1>1 DEF OwnStep, TypeOK, Name, Draft, Publish, Evict
<1>4. DraftOk(a)' /\ Listed(a)'
  BY <1>1 DEF DraftOk, Listed
<1>5. cache'[Name(a)] = Draft(a) /\ (Draft(a) = Absent \/ Draft(a).url # NoRow)
  BY <1>t, <1>r, <1>1 DEF DraftOk, TypeOK, Publish, Evict
<1>6. ASSUME Name(a) \notin rivals[a]
      PROVE  WrittenTo(Name(a), a)'
  <2>1. WrittenTo(Name(a), a)
    BY <1>t, <1>r, <1>6 DEF Written
  <2>2. Name(a)' = Name(a) /\ Draft(a)' = Draft(a) /\ Loaded(Name(a))' = Loaded(Name(a))
    BY DEF Name, Draft, Loaded, Publish, Evict
  <2>3. Loaded(Name(a)) = Draft(a)
    <3>1. CASE Publish(a)
      <4>1. /\ urls[Name(a)] = Draft(a).url /\ urls[Name(a)] # NoRow
            /\ maps[Name(a)] = Draft(a).maps
            /\ prices[Name(a)] = Draft(a).price
        BY <1>t, <2>1, <3>1 DEF WrittenTo, DraftOk, Publish
      <4>2. Draft(a) = [url |-> Draft(a).url, maps |-> Draft(a).maps,
                        price |-> Draft(a).price]
        BY <1>d DEF Provider
      <4> QED
        BY <4>1, <4>2 DEF Loaded
    <3>2. CASE Evict(a)
      BY <1>t, <2>1, <3>2 DEF WrittenTo, DraftOk, Evict, Loaded
    <3> QED
      BY <3>1, <3>2
  <2> QED
    BY <1>1, <1>5, <2>2, <2>3 DEF WrittenTo
<1> QED
  BY <1>2, <1>3, <1>4, <1>5, <1>6, OwnStepKeeps

LEMMA ListKeeps ==
  ASSUME NEW a \in Admins, IInv, List(a)
  PROVE  IInv'
<1> USE DEF List, Goto, history, tables
<1>t. TypeOK /\ DraftOk(a) /\ Written(a)
  BY DEF IInv
<1>1. a \in Running /\ Name(a) \in Names /\ CachedOk(Name(a)) /\ pc'[a] = "fill"
  BY <1>t DEF IInv, RivalsKnown, Running, TypeOK
<1>3. /\ call'[a] = [call[a] EXCEPT !.listed = cache]
      /\ \A b \in Admins \ {a} : call'[b] = call[b]
      /\ call' \in [Admins -> Call]
  BY <1>t DEF TypeOK, Call
<1>4. /\ call'[a].name = Name(a) /\ call'[a].draft = Draft(a)
      /\ call'[a].listed = cache
  BY <1>t, <1>3 DEF TypeOK, Call, Name, Draft
<1>5. TypeOK'
  BY <1>t, <1>3 DEF TypeOK, Stage
<1>6. OwnStep(a)
  BY <1>t, <1>1, <1>3, <1>4 DEF OwnStep, TypeOK
<1>7. DraftOk(a)' /\ Listed(a)'
  BY <1>1, <1>4 DEF DraftOk, Listed
<1>8. ASSUME Name(a) \notin rivals[a]
      PROVE  WrittenTo(Name(a), a)'
  <2>1. cache[Name(a)] = Draft(a) /\ Loaded(Name(a)) = Draft(a)
    BY <1>t, <1>1, <1>8 DEF Written, WrittenTo
  <2>2. Name(a)' = Name(a) /\ Draft(a)' = Draft(a) /\ Loaded(Name(a))' = Loaded(Name(a))
    BY <1>4 DEF Name, Draft, Loaded
  <2> QED
    BY <1>1, <2>1, <2>2 DEF WrittenTo
<1> QED
  BY <1>1, <1>5, <1>6, <1>7, <1>8, OwnStepKeeps DEF CachedOk

-----------------------------------------------------------------------------
(***************************************************************************)
(* A call that returns is no longer anybody's rival, and needs nothing.    *)
(***************************************************************************)
LEMMA ReturnFacts ==
  ASSUME NEW a \in Admins, TypeOK, pc[a] # "idle", Return(a)
  PROVE  /\ pc' \in [Admins -> Stage] /\ call' \in [Admins -> Call]
         /\ rivals' \in [Admins -> SUBSET Names]
         /\ pc'[a] = "idle" /\ rivals'[a] = {}
         /\ \A b \in Admins \ {a} :
               pc'[b] = pc[b] /\ call'[b] = call[b] /\ rivals'[b] = rivals[b]
         /\ Running' = Running \ {a}
BY AbsentIsProvider DEF Return, Goto, TypeOK, Stage, Running

LEMMA ReturnKeeps ==
  ASSUME NEW a \in Admins, IInv, pc[a] # "idle", Return(a), UNCHANGED <<tables, cache>>
  PROVE  /\ RivalsKnown'
         /\ (\A b \in Admins : DraftOk(b) /\ Written(b) /\ Listed(b))'
         /\ (\A q \in Names : CachedOk(q))'
<1>t. TypeOK
  BY DEF IInv
<1>f. /\ pc'[a] = "idle"
      /\ Running' = Running \ {a}
      /\ \A b \in Admins \ {a} :
             pc'[b] = pc[b] /\ call'[b] = call[b] /\ rivals'[b] = rivals[b]
  BY <1>t, ReturnFacts
<1>1. RivalsKnown'
  BY <1>f DEF IInv, RivalsKnown, Running, Name
<1>2. ASSUME NEW b \in Admins
      PROVE  DraftOk(b)' /\ Written(b)' /\ Listed(b)'
  <2>1. CASE b = a
    BY <1>f, <2>1 DEF DraftOk, Written, Listed
  <2>2. CASE b # a
    <3>1. /\ DraftOk(b) /\ Written(b) /\ Listed(b)
          /\ pc'[b] = pc[b] /\ call'[b] = call[b] /\ rivals'[b] = rivals[b]
          /\ b \in Running' => b \in Running
      BY <1>f, <2>2 DEF IInv
    <3> QED
      BY <3>1 DEF DraftOk, Written, WrittenTo, Listed, Draft, Name, Loaded, tables
  <2> QED
    BY <2>1, <2>2
<1>3. (\A q \in Names : CachedOk(q))'
  BY DEF IInv, CachedOk
<1> QED
  BY <1>1, <1>2, <1>3

LEMMA FillKeeps ==
  ASSUME NEW a \in Admins, IInv, Fill(a)
  PROVE  IInv'
<1> USE DEF Fill, tables
<1>t. TypeOK /\ Written(a) /\ Listed(a)
  BY DEF IInv
<1>f. /\ pc' \in [Admins -> Stage] /\ call' \in [Admins -> Call]
      /\ rivals' \in [Admins -> SUBSET Names]
      /\ Running' = Running \ {a}
      /\ \A b \in Admins \ {a} :
             pc'[b] = pc[b] /\ call'[b] = call[b] /\ rivals'[b] = rivals[b]
  BY <1>t, ReturnFacts
<1>r. /\ a \in Running /\ Name(a) \in Names
      /\ \A b \in Running \ {a} : Name(b) \in rivals[a]
  BY DEF IInv, RivalsKnown, Running
<1>d. call[a].listed \in [Names -> Provider] /\ Draft(a) \in Provider
  BY <1>t DEF TypeOK, Call, Draft
<1>1. TypeOK'
  <2>1. routes' \in [Models -> SUBSET Target]
    BY <1>d, RoutesTyped
  <2>2. acked' \in [Names -> Provider \union {Unknown}]
    BY <1>t, <1>d DEF TypeOK
  <2> QED
    BY <1>t, <1>f, <2>1, <2>2 DEF TypeOK
<1>2. AckedStays'
  <2> SUFFICES ASSUME NEW q \in Names, acked'[q] # Unknown
               PROVE  /\ cache'[q] = acked'[q]
                      /\ Loaded(q)' = acked'[q]
                      /\ \A b \in Running' : Name(b)' # q
    BY DEF AckedStays
  <2>0. Loaded(q)' = Loaded(q) /\ \A b \in Running' : Name(b)' = Name(b)
    BY <1>f DEF Loaded, Name, Running
  <2>1. CASE q = Name(a)
    <3>1. Name(a) \notin rivals[a] /\ acked'[q] = Draft(a)
      BY <1>t, <1>r, <2>1 DEF TypeOK
    <3>2. cache[q] = Draft(a) /\ Loaded(q) = Draft(a)
      BY <1>t, <1>r, <2>1, <3>1 DEF Written, WrittenTo
    <3>3. \A b \in Running' : Name(b) # q
      BY <1>f, <1>r, <2>1, <3>1
    <3> QED
      BY <2>0, <3>1, <3>2, <3>3
  <2>2. CASE q # Name(a)
    <3>1. acked'[q] = acked[q]
      BY <1>t, <2>2 DEF TypeOK
    <3> QED
      BY <1>f, <2>0, <3>1 DEF IInv, AckedStays
  <2> QED
    BY <2>1, <2>2
<1>3. RoutesFollow'
  <2> SUFFICES ASSUME settled'
               PROVE  routes' = RoutesOf(cache')
    BY DEF RoutesFollow
  <2>1. call[a].listed = cache
    BY <1>t DEF Listed
  <2> QED
    BY <2>1
<1>4. UNCHANGED <<tables, cache>> /\ Return(a) /\ pc[a] # "idle"
  OBVIOUS
<1> QED
  BY <1>1, <1>2, <1>3, <1>4, ReturnKeeps DEF IInv

LEMMA StatementFailsKeeps ==
  ASSUME NEW a \in Admins, IInv, StatementFails(a)
  PROVE  IInv'
<1> USE DEF StatementFails, tables
<1>t. TypeOK
  BY DEF IInv
<1>f. /\ pc' \in [Admins -> Stage] /\ call' \in [Admins -> Call]
      /\ rivals' \in [Admins -> SUBSET Names]
      /\ Running' = Running \ {a}
      /\ \A b \in Admins \ {a} :
             pc'[b] = pc[b] /\ call'[b] = call[b] /\ rivals'[b] = rivals[b]
  BY <1>t, ReturnFacts
<1>1. TypeOK'
  BY <1>t, <1>f DEF TypeOK
<1>2. AckedStays'
  BY <1>f DEF IInv, AckedStays, Loaded, Name, Running
<1>3. RoutesFollow'
  BY <1>f DEF IInv, RoutesFollow
<1>4. UNCHANGED <<tables, cache>> /\ Return(a) /\ pc[a] # "idle"
  OBVIOUS
<1> QED
  BY <1>1, <1>2, <1>3, <1>4, ReturnKeeps DEF IInv

(***************************************************************************)
(* A start finds in the tables what was acknowledged, and no calls.        *)
(***************************************************************************)
LEMMA RestartKeeps ==
  ASSUME IInv, Restart
  PROVE  IInv'
<1> USE DEF Restart, tables
<1>t. TypeOK
  BY DEF IInv
<1>c. cache' \in [Names -> Provider] /\ \A p \in Names : cache'[p] = Loaded(p)
  BY <1>t, LoadedTyped
<1>1. TypeOK'
  <2>1. routes' \in [Models -> SUBSET Target]
    BY <1>c, RoutesTyped
  <2>2. restarts' \in 0..MaxRestarts
    BY <1>t, RegistryAssumption DEF TypeOK, RegistryAssumption
  <2> QED
    BY <1>t, <1>c, <2>1, <2>2, AbsentIsProvider DEF TypeOK, Stage
<1>2. /\ RivalsKnown'
      /\ (\A a \in Admins : DraftOk(a) /\ Written(a) /\ Listed(a))'
  BY DEF RivalsKnown, Running, DraftOk, Written, Listed
<1>3. (\A p \in Names : CachedOk(p))'
  <2> SUFFICES ASSUME NEW p \in Names
               PROVE  cache'[p] = Absent \/ cache'[p].url # NoRow
    BY DEF CachedOk
  <2> QED
    BY <1>t, <1>c, LoadedTyped
<1>4. AckedStays'
  <2> SUFFICES ASSUME NEW p \in Names, acked'[p] # Unknown
               PROVE  cache'[p] = acked'[p] /\ Loaded(p)' = acked'[p] /\ Running' = {}
    BY DEF AckedStays
  <2>1. Loaded(p) = acked[p] /\ Loaded(p)' = Loaded(p)
    BY DEF IInv, AckedStays, Loaded
  <2> QED
    BY <1>c, <2>1 DEF Running
<1>5. RoutesFollow'
  BY DEF RoutesFollow
<1> QED
  BY <1>1, <1>2, <1>3, <1>4, <1>5 DEF IInv

-----------------------------------------------------------------------------
(***************************************************************************)
(* What calls begin with.                                                  *)
(***************************************************************************)
LEMMA CallsBeginWell ==
  ASSUME NEW a \in Admins, NEW p \in Names, IInv,
         \/ Delete(a, p)
         \/ \E v \in Versions, served \in SUBSET Models :
                \/ Create(a, p, v, served)
                \/ \E fields \in SUBSET {"url", "maps", "price"} :
                       Update(a, p, fields, v, served)
  PROVE  IInv'
<1>t. cache[p] \in Provider /\ CachedOk(p)
  BY DEF IInv, TypeOK
<1>v. \A v \in Versions, served \in SUBSET Models :
          v # NoRow /\ v \in Field /\ Mappings(served, v) \in [Models -> Field]
  BY RegistryAssumption DEF RegistryAssumption, Mappings, Field
<1>1. CASE Delete(a, p)
  BY <1>1, AbsentIsProvider, BeginKeeps DEF Delete
<1>2. ASSUME NEW v \in Versions, NEW served \in SUBSET Models, Create(a, p, v, served)
      PROVE  IInv'
  <2> DEFINE draft == [url |-> v, maps |-> Mappings(served, v), price |-> v]
  <2>1. draft \in Provider /\ draft.url # NoRow
    BY <1>v DEF Provider
  <2> HIDE DEF draft
  <2>2. Begin(a, "create", p, draft, "replace")
    BY <1>2 DEF Create, draft
  <2> QED
    BY <2>1, <2>2, BeginKeeps
<1>3. ASSUME NEW v \in Versions, NEW served \in SUBSET Models,
             NEW fields \in SUBSET {"url", "maps", "price"},
             Update(a, p, fields, v, served)
      PROVE  IInv'
  <2> DEFINE draft == Updated(cache[p], fields, v, served)
  <2>1. cache[p].url # NoRow
    BY <1>3, <1>t DEF CachedOk, Update
  <2>2. draft \in Provider /\ draft.url # NoRow
    BY <1>t, <1>v, <2>1 DEF Provider, Updated
  <2> HIDE DEF draft
  <2>3. Begin(a, "update", p, draft, "replace")
    BY <1>3 DEF Update, draft
  <2> QED
    BY <2>2, <2>3, BeginKeeps
<1> QED
  BY <1>1, <1>2, <1>3

(***************************************************************************)
(* The inductive invariant of the registry.                                *)
(***************************************************************************)
THEOREM RegistryInvariant == Spec => []IInv
<1>1. IInv /\ [Next]_vars => IInv'
  <2> SUFFICES ASSUME IInv, [Next]_vars PROVE IInv'
    OBVIOUS
  <2>1. ASSUME NEW a \in Admins, NEW p \in Names, Delete(a, p) PROVE IInv'
    BY <2>1, CallsBeginWell
  <2>2. ASSUME NEW a \in Admins, NEW p \in Names, NEW v \in Versions,
               NEW served \in SUBSET Models,
               \/ Create(a, p, v, served)
               \/ \E fields \in SUBSET {"url", "maps", "price"} :
                      Update(a, p, fields, v, served)
        PROVE  IInv'
    BY <2>2, CallsBeginWell
  <2>3. ASSUME NEW a \in Admins, Save(a) PROVE IInv'
    BY <2>3, RowStepsKeep, InsertMapKeeps, PriceStepsKeep, CacheStepsKeep DEF Save
  <2>4. ASSUME NEW a \in Admins, DeleteRow(a) \/ Evict(a) \/ List(a) PROVE IInv'
    BY <2>4, RowStepsKeep, CacheStepsKeep, ListKeeps
  <2>5. ASSUME NEW a \in Admins, Fill(a) \/ StatementFails(a) PROVE IInv'
    BY <2>5, FillKeeps, StatementFailsKeeps
  <2>6. CASE Restart
    BY <2>6, RestartKeeps
  <2>7. CASE UNCHANGED vars
    <3>1. TypeOK'
      BY <2>7 DEF vars, tables, history, IInv, TypeOK
    <3>2. /\ RivalsKnown'
          /\ (\A a \in Admins : DraftOk(a) /\ Written(a) /\ Listed(a))'
      BY <2>7 DEF vars, tables, history, IInv, RivalsKnown, Running, Name, Draft,
                  DraftOk, Written, WrittenTo, Listed, Loaded
    <3>3. (\A p \in Names : CachedOk(p))' /\ AckedStays' /\ RoutesFollow'
      BY <2>7 DEF vars, tables, history, IInv, CachedOk, AckedStays, RoutesFollow,
                  Running, Name, Loaded
    <3> QED
      BY <3>1, <3>2, <3>3 DEF IInv
  <2> QED
    BY <2>1, <2>2, <2>3, <2>4, <2>5, <2>6, <2>7 DEF Next
<1> QED
  BY <1>1, InitIInv, PTL DEF Spec

(***************************************************************************)
(* Every table, cache and call keeps its type.                             *)
(***************************************************************************)
THEOREM RegistryTypeCorrect == Spec => []TypeOK
<1>1. IInv => TypeOK
  BY DEF IInv
<1> QED
  BY <1>1, RegistryInvariant, PTL

(***************************************************************************)
(* What ProviderService has acknowledged is what the router sees and what a*)
(* restart brings back, until the next call on the provider.               *)
(***************************************************************************)
THEOREM AckedAlwaysDurable == Spec => []AckedIsDurable
<1>1. IInv => AckedIsDurable
  BY DEF IInv, AckedStays, AckedIsDurable
<1> QED
  BY <1>1, RegistryInvariant, PTL

(***************************************************************************)
(* Calls that fail half way never leave the routes behind the providers.   *)
(***************************************************************************)
THEOREM RoutesAlwaysMatchAtRest == Spec => []RoutesMatchAtRest
<1>1. IInv => RoutesMatchAtRest
  BY DEF IInv, RoutesFollow, RoutesMatchAtRest, Running
<1> QED
  BY <1>1, RegistryInvariant, PTL

-----------------------------------------------------------------------------
(***************************************************************************)
(* The registry as a catalog: what is stored and asked for.                *)
(***************************************************************************)
Stored == [p \in Names |-> Loaded(p)]

Callers(p) == {a \in Running : Name(a) = p}

Asked == [p \in Names |-> {Draft(a) : a \in Callers(p)}]

LEMMA StoredTyped == TypeOK => Stored \in [Names -> Provider]
  BY LoadedTyped DEF Stored

LEMMA StoredTypedNext == TypeOK' => Stored' \in [Names -> Provider]
  BY AbsentIsProvider DEF TypeOK, Stored, Loaded, Provider

LEMMA CatalogNext ==
  ASSUME NEW p \in Names, NEW e \in Provider,
         \/ Catalog!Ask(p, e)
         \/ Catalog!Store(p, e)
         \/ e \in Asked[p] /\ (Catalog!Serve(p, e) \/ Catalog!Promise(p, e)
                                                  \/ Catalog!GiveUp(p, e))
  PROVE  Catalog!Next
BY DEF Catalog!Next, Asked, Callers

(***************************************************************************)
(* A call in progress asks for its draft, and nothing is promised then.    *)
(***************************************************************************)
LEMMA RunningAsks ==
  ASSUME IInv, NEW a \in Running
  PROVE  /\ Name(a) \in Names /\ Draft(a) \in Provider
         /\ Draft(a) \in Asked[Name(a)]
         /\ acked[Name(a)] = Unknown
<1>1. Name(a) \in Names /\ Draft(a) \in Provider /\ a \in Callers(Name(a))
  BY DEF IInv, RivalsKnown, TypeOK, Call, Draft, Running, Callers
<1>2. acked[Name(a)] = Unknown
  BY <1>1 DEF IInv, AckedStays
<1> QED
  BY <1>1, <1>2 DEF Asked

LEMMA SameCalls ==
  ASSUME Running' = Running,
         \A b \in Running : Name(b)' = Name(b) /\ Draft(b)' = Draft(b)
  PROVE  Asked' = Asked
<1>1. \A p \in Names : Callers(p)' = Callers(p)
  BY DEF Callers
<1>2. ASSUME NEW p \in Names
      PROVE  {Draft(b)' : b \in Callers(p)'} = {Draft(b) : b \in Callers(p)}
  BY <1>1 DEF Callers
<1> QED
  BY <1>2 DEF Asked

(***************************************************************************)
(* The caller's draft is no longer asked for, unless another call wants the*)
(* same.                                                                   *)
(***************************************************************************)
LEMMA ReturnUnasks ==
  ASSUME IInv, NEW a \in Running, Return(a)
  PROVE  \/ Asked' = Asked
         \/ Asked' = [Asked EXCEPT ![Name(a)] = @ \ {Draft(a)}]
<1>f. /\ Running' = Running \ {a}
      /\ \A b \in Running' : Name(b)' = Name(b) /\ Draft(b)' = Draft(b)
  BY ReturnFacts DEF IInv, Running, Name, Draft
<1>1. \A p \in Names : Callers(p)' = Callers(p) \ {a}
  BY <1>f DEF Callers
<1>2. ASSUME NEW p \in Names
      PROVE  Asked'[p] = {Draft(b) : b \in Callers(p) \ {a}}
  BY <1>f, <1>1 DEF Asked, Callers
<1>3. \A p \in Names : p # Name(a) => Asked'[p] = Asked[p]
  BY <1>2 DEF Asked, Callers
<1>4. Asked[Name(a)] = Asked'[Name(a)] \union {Draft(a)}
  BY <1>2, RunningAsks DEF Asked, Callers
<1>5. CASE Draft(a) \in Asked'[Name(a)]
  <2>1. \A p \in Names : Asked'[p] = Asked[p]
    BY <1>3, <1>4, <1>5
  <2> QED
    BY <2>1 DEF Asked
<1>6. CASE Draft(a) \notin Asked'[Name(a)]
  <2>1. Asked'[Name(a)] = Asked[Name(a)] \ {Draft(a)}
    BY <1>4, <1>6
  <2> QED
    BY <1>3, <2>1 DEF Asked
<1> QED
  BY <1>5, <1>6

-----------------------------------------------------------------------------
LEMMA BeginMaps ==
  ASSUME IInv, NEW a \in Admins, NEW op, NEW p \in Names, NEW draft \in Provider,
         NEW stage \in Stage \ {"idle"}, Begin(a, op, p, draft, stage)
  PROVE  Catalog!Next
<1>t. TypeOK
  BY DEF IInv
<1>1. /\ call'[a] = NewCall(op, p, draft)
      /\ Running' = Running \union {a} /\ a \notin Running
      /\ \A b \in Running : call'[b] = call[b]
  BY <1>t DEF Begin, Goto, TypeOK, Running
<1>2. /\ Name(a)' = p /\ Draft(a)' = draft
      /\ \A b \in Running : Name(b)' = Name(b) /\ Draft(b)' = Draft(b)
  BY <1>1 DEF Name, Draft, NewCall
<1>3. ASSUME NEW q \in Names
      PROVE  Asked'[q] = IF q = p THEN Asked[q] \union {draft} ELSE Asked[q]
  <2>1. Callers(q)' = IF q = p THEN Callers(q) \union {a} ELSE Callers(q)
    BY <1>1, <1>2 DEF Callers
  <2> QED
    BY <1>2, <2>1 DEF Asked, Callers
<1>4. Asked' = [Asked EXCEPT ![p] = @ \union {draft}]
  BY <1>3 DEF Asked
<1>5. /\ acked' = [acked EXCEPT ![p] = Unknown]
      /\ cache' = cache
      /\ Stored' = Stored
  BY DEF Begin, tables, Stored, Loaded
<1>6. Catalog!Ask(p, draft)
  BY <1>4, <1>5 DEF Catalog!Ask, Asked, Callers, Stored
<1> QED
  BY <1>6, CatalogNext

(***************************************************************************)
(* Statements write to the tables, and only about the provider of the call.*)
(***************************************************************************)
LEMMA StoringMaps ==
  ASSUME IInv, TypeOK', NEW a \in Admins,
         \/ ReplaceRow(a) \/ ClearMaps(a) \/ (\E m \in Models : InsertMap(a, m))
         \/ ClearPrices(a) \/ InsertPrices(a) \/ DeleteRow(a)
  PROVE  Catalog!Next
<1>t. TypeOK
  BY DEF IInv
<1>1. a \in Running
  BY DEF Running, ReplaceRow, ClearMaps, InsertMap, ClearPrices, InsertPrices, DeleteRow
<1>2. /\ \A b \in Admins : pc'[b] # "idle" <=> pc[b] # "idle"
      /\ \A b \in Admins : call'[b].name = call[b].name /\ call'[b].draft = call[b].draft
  <2>1. \A b \in Admins : pc'[b] # "idle" <=> pc[b] # "idle"
    BY <1>t DEF ReplaceRow, ClearMaps, InsertMap, ClearPrices, InsertPrices, DeleteRow,
                Goto, TypeOK
  <2>2. \/ call' = call
        \/ \E todo : call' = [call EXCEPT ![a].todo = todo]
    BY DEF ReplaceRow, ClearMaps, InsertMap, ClearPrices, InsertPrices, DeleteRow
  <2> QED
    BY <1>t, <2>1, <2>2 DEF TypeOK, Call
<1>3. Asked' = Asked
  BY <1>2, SameCalls DEF Running, Name, Draft
<1>4. cache' = cache /\ acked' = acked
  BY DEF ReplaceRow, ClearMaps, InsertMap, ClearPrices, InsertPrices, DeleteRow, history
<1>5. \A q \in Names \ {Name(a)} :
          urls'[q] = urls[q] /\ maps'[q] = maps[q] /\ prices'[q] = prices[q]
  BY <1>t DEF ReplaceRow, ClearMaps, InsertMap, ClearPrices, InsertPrices, DeleteRow, TypeOK
<1>6. PICK p \in Names : p = Name(a)
  BY <1>1, RunningAsks
<1>7. Stored' \in [Names -> Provider]
  BY StoredTypedNext
<1>8. Stored' = [Stored EXCEPT ![p] = Stored'[p]]
  <2>1. ASSUME NEW q \in Names, q # p
        PROVE  Stored'[q] = Stored[q]
    BY <1>5, <1>6, <2>1 DEF Stored, Loaded
  <2> QED
    BY <2>1 DEF Stored
<1>9. Catalog!Store(p, Stored'[p])
  BY <1>1, <1>3, <1>4, <1>6, <1>8, RunningAsks DEF Catalog!Store, Asked, Callers, Stored
<1> QED
  BY <1>7, <1>9, CatalogNext

LEMMA ServingMaps ==
  ASSUME IInv, NEW a \in Admins, Publish(a) \/ Evict(a)
  PROVE  Catalog!Next
<1>t. TypeOK /\ DraftOk(a)
  BY DEF IInv
<1>1. a \in Running
  BY DEF Running, Publish, Evict
<1>2. \A b \in Admins : pc'[b] # "idle" <=> pc[b] # "idle"
  BY <1>t DEF Publish, Evict, Goto, TypeOK
<1>3. Asked' = Asked
  BY <1>2, SameCalls DEF Running, Name, Draft, Publish, Evict
<1>4. /\ cache' = [cache EXCEPT ![Name(a)] = Draft(a)]
      /\ acked' = acked
      /\ Stored' = Stored
  BY <1>t DEF Publish, Evict, DraftOk, history, tables, Stored, Loaded
<1>5. Catalog!Serve(Name(a), Draft(a))
  BY <1>1, <1>3, <1>4, RunningAsks DEF Catalog!Serve, Asked, Callers, Stored
<1> QED
  BY <1>1, <1>5, RunningAsks, CatalogNext

LEMMA ListMaps ==
  ASSUME IInv, NEW a \in Admins, List(a)
  PROVE  UNCHANGED Catalog!catalogVars
<1>1. \A b \in Admins : pc'[b] # "idle" <=> pc[b] # "idle"
  BY DEF List, Goto, IInv, TypeOK
<1>2. \A b \in Admins : call'[b].name = call[b].name /\ call'[b].draft = call[b].draft
  BY DEF List, IInv, TypeOK, Call
<1>3. Asked' = Asked
  BY <1>1, <1>2, SameCalls DEF Running, Name, Draft
<1>4. cache' = cache /\ acked' = acked /\ Stored' = Stored
  BY DEF List, history, tables, Stored, Loaded
<1> QED
  BY <1>3, <1>4 DEF Catalog!catalogVars, Asked, Callers, Stored

(***************************************************************************)
(* A call that returns has promised its draft, or gives up.                *)
(***************************************************************************)
LEMMA ReturnMaps ==
  ASSUME IInv, NEW a \in Admins, Fill(a) \/ StatementFails(a)
  PROVE  Catalog!Next \/ UNCHANGED Catalog!catalogVars
<1>t. TypeOK /\ RivalsKnown /\ Written(a)
  BY DEF IInv
<1>1. a \in Running /\ Return(a)
  BY DEF Running, Fill, StatementFails
<1>p. PICK p \in Names, e \in Provider : p = Name(a) /\ e = Draft(a) /\ e \in Asked[p]
  BY <1>1, RunningAsks
<1>2. cache' = cache /\ Stored' = Stored
  BY DEF Fill, StatementFails, tables, Stored, Loaded
<1>3. CASE Fill(a) /\ Name(a) \notin rivals[a]
  <2>1. cache[Name(a)] = Draft(a) /\ Stored[Name(a)] = Draft(a)
    BY <1>t, <1>1, <1>3, RunningAsks DEF Fill, Written, WrittenTo, Stored
  <2>2. Callers(Name(a)) = {a}
    BY <1>t, <1>1, <1>3 DEF RivalsKnown, Callers
  <2>3. Asked[Name(a)] = {Draft(a)}
    BY <1>1, <2>2, RunningAsks DEF Asked
  <2>4. Asked' = [Asked EXCEPT ![Name(a)] = {}]
    <3>1. \A q \in Names : Callers(q)' = Callers(q) \ {a}
      BY <1>t, <1>1, ReturnFacts DEF Callers, Running, Name
    <3>2. ASSUME NEW q \in Names, q # Name(a)
          PROVE  Asked'[q] = Asked[q]
      <4>1. \A b \in Callers(q)' : Draft(b)' = Draft(b)
        BY <1>t, <1>1, ReturnFacts DEF Callers, Running, Draft
      <4>2. Callers(q)' = Callers(q)
        BY <3>1, <3>2 DEF Callers
      <4> QED
        BY <4>1, <4>2 DEF Asked
    <3>3. Asked'[Name(a)] = {}
      BY <1>1, <2>2, <3>1, RunningAsks DEF Asked
    <3> QED
      BY <3>2, <3>3 DEF Asked
  <2>5. acked' = [acked EXCEPT ![Name(a)] = Draft(a)]
    BY <1>3 DEF Fill
  <2>6. Catalog!Promise(p, e)
    BY <1>p, <1>2, <2>1, <2>3, <2>4, <2>5 DEF Catalog!Promise, Asked, Callers, Stored
  <2> QED
    BY <1>p, <2>6, CatalogNext
<1>4. CASE ~(Fill(a) /\ Name(a) \notin rivals[a])
  <2>1. acked' = acked
    <3>1. CASE StatementFails(a)
      BY <3>1 DEF StatementFails
    <3>2. CASE Fill(a)
      BY <1>t, <1>1, <1>4, <3>2, RunningAsks DEF Fill, TypeOK
    <3> QED
      BY <3>1, <3>2
  <2>2. CASE Asked' = Asked
    BY <1>2, <2>1, <2>2 DEF Catalog!catalogVars, Asked, Callers, Stored
  <2>3. CASE Asked' = [Asked EXCEPT ![Name(a)] = @ \ {Draft(a)}]
    <3>1. Catalog!GiveUp(p, e)
      BY <1>p, <1>2, <2>1, <2>3 DEF Catalog!GiveUp, Asked, Callers, Stored
    <3> QED
      BY <1>p, <3>1, CatalogNext
  <2> QED
    BY <1>1, <2>2, <2>3, ReturnUnasks
<1> QED
  BY <1>3, <1>4

LEMMA RestartMaps ==
  ASSUME IInv, Restart
  PROVE  Catalog!Next
<1>1. Asked' = [p \in Names |-> {}]
  BY DEF Restart, Asked, Callers, Running
<1>2. cache' = Stored /\ Stored' = Stored /\ acked' = acked
  BY DEF Restart, Stored, tables, Loaded
<1>3. Catalog!Restart
  BY <1>1, <1>2 DEF Catalog!Restart, Asked, Callers, Stored
<1> QED
  BY <1>3 DEF Catalog!Next

(***************************************************************************)
(* The registry implements the catalog: its statements and copies, of any  *)
(* number of calls in parallel, look like entries that change at once, are *)
(* served whole, and stay once promised.                                   *)
(***************************************************************************)
THEOREM RegistryIsCatalog == Spec => ImplementsCatalog
<1>1. Init => Catalog!Init
  <2> SUFFICES ASSUME Init PROVE Catalog!Init
    OBVIOUS
  <2>1. Stored = [p \in Names |-> Absent] /\ Asked = [p \in Names |-> {}]
    BY DEF Init, Stored, Loaded, Asked, Callers, Running
  <2> QED
    BY <2>1 DEF Init, Catalog!Init, Stored, Asked, Callers
<1>2. IInv /\ IInv' /\ [Next]_vars => [Catalog!Next]_(Catalog!catalogVars)
  <2> SUFFICES ASSUME IInv, IInv', [Next]_vars
               PROVE  Catalog!Next \/ UNCHANGED Catalog!catalogVars
    OBVIOUS
  <2>t. TypeOK /\ TypeOK'
    BY DEF IInv
  <2>v. \A v \in Versions, served \in SUBSET Models :
            v \in Field /\ Mappings(served, v) \in [Models -> Field]
    BY DEF Mappings, Field
  <2>1. ASSUME NEW a \in Admins, NEW p \in Names, Delete(a, p) PROVE Catalog!Next
    BY <2>1, AbsentIsProvider, BeginMaps DEF Delete, Stage
  <2>2. ASSUME NEW a \in Admins, NEW p \in Names, NEW v \in Versions,
               NEW served \in SUBSET Models, Create(a, p, v, served)
        PROVE  Catalog!Next
    <3> DEFINE draft == [url |-> v, maps |-> Mappings(served, v), price |-> v]
    <3>1. draft \in Provider
      BY <2>v DEF Provider
    <3>2. Begin(a, "create", p, draft, "replace")
      BY <2>2 DEF Create
    <3> HIDE DEF draft
    <3> QED
      BY <3>1, <3>2, BeginMaps DEF Stage
  <2>3. ASSUME NEW a \in Admins, NEW p \in Names, NEW v \in Versions,
               NEW served \in SUBSET Models,
               NEW fields \in SUBSET {"url", "maps", "price"},
               Update(a, p, fields, v, served)
        PROVE  Catalog!Next
    <3> DEFINE draft == Updated(cache[p], fields, v, served)
    <3>1. draft \in Provider
      BY <2>t, <2>v DEF TypeOK, Provider, Updated
    <3>2. Begin(a, "update", p, draft, "replace")
      BY <2>3 DEF Update
    <3> HIDE DEF draft
    <3> QED
      BY <3>1, <3>2, BeginMaps DEF Stage
  <2>4. ASSUME NEW a \in Admins, Save(a) PROVE Catalog!Next
    BY <2>4, <2>t, StoringMaps, ServingMaps DEF Save
  <2>5. ASSUME NEW a \in Admins, DeleteRow(a) \/ Evict(a) PROVE Catalog!Next
    BY <2>5, <2>t, StoringMaps, ServingMaps
  <2>6. ASSUME NEW a \in Admins, List(a) PROVE UNCHANGED Catalog!catalogVars
    BY <2>6, ListMaps
  <2>7. ASSUME NEW a \in Admins, Fill(a) \/ StatementFails(a)
        PROVE  Catalog!Next \/ UNCHANGED Catalog!catalogVars
    BY <2>7, ReturnMaps
  <2>8. CASE Restart
    BY <2>8, RestartMaps
  <2>9. CASE UNCHANGED vars
    <3>1. Asked' = Asked /\ Stored' = Stored /\ cache' = cache /\ acked' = acked
      BY <2>9 DEF vars, tables, history, Asked, Callers, Running, Name, Draft, Stored, Loaded
    <3> QED
      BY <3>1 DEF Catalog!catalogVars, Asked, Callers, Stored
  <2> QED
    BY <2>1, <2>2, <2>3, <2>4, <2>5, <2>6, <2>7, <2>8, <2>9 DEF Next
<1> QED
  BY <1>1, <1>2, RegistryInvariant, PTL DEF Spec, ImplementsCatalog, Catalog!Spec

(***************************************************************************)
(* The catalog alone keeps its promises, whichever table or cache plays    *)
(* its parts; that what the registry acknowledges is durable follows from  *)
(* the two theorems once more, with none of its statements in view.        *)
(***************************************************************************)
Entered ==
    /\ cache \in [Names -> Provider] /\ acked \in [Names -> Provider \union {Unknown}]
    /\ Stored \in [Names -> Provider]
    /\ Asked \in [Names -> SUBSET Provider]

LEMMA CatalogTyped == Catalog!Spec => []Entered
<1>1. Catalog!Init => Entered
  BY AbsentIsProvider DEF Catalog!Init, Entered, Stored, Asked, Callers
<1>2. Entered /\ [Catalog!Next]_(Catalog!catalogVars) => Entered'
  <2> SUFFICES ASSUME Entered, [Catalog!Next]_(Catalog!catalogVars) PROVE Entered'
    OBVIOUS
  <2>1. CASE UNCHANGED Catalog!catalogVars
    <3>1. Asked' = Asked /\ Stored' = Stored
      BY <2>1 DEF Catalog!catalogVars, Asked, Callers, Stored
    <3> QED
      BY <2>1, <3>1 DEF Catalog!catalogVars, Entered
  <2>2. ASSUME NEW p \in Names, NEW e \in Provider,
               \/ Catalog!Serve(p, e) \/ Catalog!Promise(p, e) \/ Catalog!GiveUp(p, e)
               \/ Catalog!Store(p, e) \/ Catalog!Ask(p, e)
        PROVE  Entered'
    <3>1. \/ Asked' = Asked
          \/ Asked' = [Asked EXCEPT ![p] = Asked[p] \union {e}]
          \/ Asked' = [Asked EXCEPT ![p] = {}]
          \/ Asked' = [Asked EXCEPT ![p] = Asked[p] \ {e}]
      BY <2>2 DEF Catalog!Serve, Catalog!Promise, Catalog!GiveUp, Catalog!Store,
                  Catalog!Ask, Asked, Callers
    <3>2. Stored' = Stored \/ Stored' = [Stored EXCEPT ![p] = e]
      BY <2>2 DEF Catalog!Serve, Catalog!Promise, Catalog!GiveUp, Catalog!Store,
                  Catalog!Ask, Stored
    <3>3. /\ cache' = cache \/ cache' = [cache EXCEPT ![p] = e]
          /\ \/ acked' = acked
             \/ acked' = [acked EXCEPT ![p] = e]
             \/ acked' = [acked EXCEPT ![p] = Unknown]
      BY <2>2 DEF Catalog!Serve, Catalog!Promise, Catalog!GiveUp, Catalog!Store,
                  Catalog!Ask
    <3>4. Asked' \in [Names -> SUBSET Provider]
      BY <3>1 DEF Entered
    <3> QED
      BY <3>2, <3>3, <3>4 DEF Entered
  <2>3. CASE Catalog!Restart
    <3>1. Asked' = [p \in Names |-> {}] /\ cache' = Stored /\ Stored' = Stored
      BY <2>3 DEF Catalog!Restart, Asked, Callers, Stored
    <3> QED
      BY <2>3, <3>1 DEF Catalog!Restart, Entered
  <2>4. ASSUME NEW p \in Names PROVE Asked[p] \subseteq Provider
    BY DEF Entered
  <2> QED
    BY <2>1, <2>2, <2>3, <2>4 DEF Catalog!Next, Asked, Callers
<1> QED
  BY <1>1, <1>2, PTL DEF Catalog!Spec

THEOREM CatalogKeepsPromises == Catalog!Spec => []Catalog!PromisesKept
<1>1. Catalog!Init => Catalog!PromisesKept
  BY DEF Catalog!Init, Catalog!PromisesKept
<1>2. Entered /\ Catalog!PromisesKept /\ [Catalog!Next]_(Catalog!catalogVars)
          => Catalog!PromisesKept'
  <2> SUFFICES ASSUME Entered, Catalog!PromisesKept,
                      [Catalog!Next]_(Catalog!catalogVars)
               PROVE  Catalog!PromisesKept'
    OBVIOUS
  <2> USE DEF Entered, Stored, Catalog!PromisesKept
  <2>1. CASE UNCHANGED Catalog!catalogVars
    BY <2>1 DEF Catalog!catalogVars
  <2>2. ASSUME NEW p \in Names, NEW e \in Provider,
               \/ Catalog!Serve(p, e) \/ Catalog!Promise(p, e) \/ Catalog!GiveUp(p, e)
               \/ Catalog!Store(p, e) \/ Catalog!Ask(p, e)
        PROVE  Catalog!PromisesKept'
    BY <2>2 DEF Catalog!Serve, Catalog!Promise, Catalog!GiveUp, Catalog!Store, Catalog!Ask
  <2>3. CASE Catalog!Restart
    BY <2>3 DEF Catalog!Restart
  <2>4. ASSUME NEW p \in Names PROVE Asked[p] \subseteq Provider
    BY DEF Entered
  <2> QED
    BY <2>1, <2>2, <2>3, <2>4 DEF Catalog!Next, Asked, Callers
<1> QED
  BY <1>1, <1>2, CatalogTyped, PTL DEF Catalog!Spec

=============================================================================
