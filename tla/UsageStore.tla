------------------------------ MODULE UsageStore ------------------------------
(***************************************************************************)
(* The usage_records table: what UsageTracker hands over for a request,    *)
(* how UsageRepo stores it, and what the dashboard's two queries make of   *)
(* it.  Requests are tracked in parallel: the timestamp is taken before the*)
(* row is inserted, from a clock that may be set back, and the INSERT may  *)
(* fail, which is only logged.  Counters are u64 in the program and i64 in *)
(* the database, timestamps are compared as text.                          *)
(***************************************************************************)
EXTENDS Integers, Sequences, FiniteSets, Functions

CONSTANTS
    Tasks,       \* requests that may be tracked at the same time
    Providers,
    price,       \* [Providers -> Pricing]
    Counters,    \* values of a counter that upstreams report
    Usages,      \* the counters an upstream reports together
    Times,       \* readings of the clock
    Half,        \* 2^63: u64 is 0..2*Half-1, i64 is -Half..Half-1
    NoRecord,    \* the task has nothing to record, no price is given
    MaxRecords   \* bound: rows in the table

VARIABLES
    pending,   \* [Tasks -> Record or NoRecord]: handed over, not yet inserted
    table,     \* table usage_records in the order of its ids
    recorded   \* history: what was handed over for the rows, in that order

vars == <<pending, table, recorded>>

-----------------------------------------------------------------------------
(***************************************************************************)
(* DateTime<Utc>; thousandths and millionths are a digit each here.        *)
(***************************************************************************)
Time == [sec : Nat, milli : Nat, micro : Nat]

Before(s, t) ==
    \/ s.sec < t.sec
    \/ s.sec = t.sec /\ s.milli < t.milli
    \/ s.sec = t.sec /\ s.milli = t.milli /\ s.micro < t.micro

(***************************************************************************)
(* to_rfc3339: the fraction is left out where it is zero, in groups of     *)
(* three digits, and +00:00 ends the text.  In ASCII plus comes before the *)
(* point, and the point before the digits.                                 *)
(***************************************************************************)
Plus == 0

Point == 1

Digit(d) == 2 + d

Written(t, zone) ==
    CASE t.milli = 0 /\ t.micro = 0 -> <<Digit(t.sec), zone>>
      [] t.milli # 0 /\ t.micro = 0 -> <<Digit(t.sec), Point, Digit(t.milli), zone>>
      [] OTHER -> <<Digit(t.sec), Point, Digit(t.milli), Digit(t.micro), zone>>

EndsInZ(t) == Written(t, 99)   \* mutant: UTC is written as Z

to_rfc3339(t) == Written(t, Plus)

(***************************************************************************)
(* Text as the database compares it, byte by byte.                         *)
(***************************************************************************)
TextBefore(a, b) ==
    \/ \E k \in (1..Len(a)) \cap (1..Len(b)) :
           /\ a[k] < b[k]
           /\ \A j \in 1..(k - 1) : a[j] = b[j]
    \/ /\ Len(a) < Len(b)
       /\ \A j \in 1..Len(a) : a[j] = b[j]

parse_ts(text) == CHOOSE t \in Times : to_rfc3339(t) = text

(***************************************************************************)
(* `as i64' and `as u64' keep the bits.                                    *)
(***************************************************************************)
KeepsValue(v) == v   \* mutant: the cast changes nothing

Signed(v) == IF v < Half THEN v ELSE v - 2 * Half

Unsigned(v) == IF v >= 0 THEN v ELSE v + 2 * Half

-----------------------------------------------------------------------------
(***************************************************************************)
(* Costs are integers here: rounding is left out.                          *)
(***************************************************************************)
Pricing == [input_per_m : Nat, output_per_m : Nat, cache_read_per_m : Nat \union {NoRecord}]

Usage == [input : Counters, cache_read : Counters, output : Counters]

Record == [timestamp : Times, provider : Providers,
           input : Counters, cache_read : Counters, output : Counters, cost : Nat]

Signeds == (-Half)..(Half - 1)

Row == [timestamp : Seq(Nat), provider : Providers,
        input : Signeds, cache_read : Signeds, output : Signeds, cost : Nat]

ASSUME UsageAssumption ==
    /\ Half \in Nat \ {0}
    /\ Counters \subseteq 0..(2 * Half - 1)
    /\ Usages \subseteq Usage
    /\ Times \subseteq Time
    /\ price \in [Providers -> Pricing]
    /\ NoRecord \notin Nat
    /\ NoRecord \notin Record
    /\ MaxRecords \in Nat

TypeOK ==
    /\ pending \in [Tasks -> Record \union {NoRecord}]
    /\ table \in Seq(Row)
    /\ recorded \in Seq(Record)
    /\ Len(table) <= MaxRecords

Init ==
    /\ pending = [k \in Tasks |-> NoRecord]
    /\ table = <<>>
    /\ recorded = <<>>

-----------------------------------------------------------------------------
calculate(pricing, input_tokens, cache_read_tokens, output_tokens) ==
    pricing.input_per_m * input_tokens
        + pricing.output_per_m * output_tokens
        + (IF pricing.cache_read_per_m = NoRecord THEN 0
           ELSE pricing.cache_read_per_m) * cache_read_tokens

SwapsCounters(p, usage) ==   \* mutant: the order of calculate's parameters
    calculate(price[p], usage.input, usage.output, usage.cache_read)

Cost(p, usage) == calculate(price[p], usage.input, usage.cache_read, usage.output)

(***************************************************************************)
(* UsageTracker builds the record, with the time of day.                   *)
(***************************************************************************)
Track(k, p, usage, now) ==
    /\ pending[k] = NoRecord
    /\ pending' = [pending EXCEPT ![k] =
           [timestamp |-> now, provider |-> p, input |-> usage.input,
            cache_read |-> usage.cache_read, output |-> usage.output,
            cost |-> Cost(p, usage)]]
    /\ UNCHANGED <<table, recorded>>

Stored(r) ==
    [r EXCEPT !.timestamp = to_rfc3339(r.timestamp), !.input = Signed(r.input),
              !.cache_read = Signed(r.cache_read), !.output = Signed(r.output)]

record(k) ==
    /\ pending[k] # NoRecord
    /\ Len(table) < MaxRecords
    /\ table' = Append(table, Stored(pending[k]))
    /\ recorded' = Append(recorded, pending[k])
    /\ pending' = [pending EXCEPT ![k] = NoRecord]

RecordFails(k) ==
    /\ pending[k] # NoRecord
    /\ pending' = [pending EXCEPT ![k] = NoRecord]
    /\ UNCHANGED <<table, recorded>>

Kill ==
    /\ pending' = [k \in Tasks |-> NoRecord]
    /\ UNCHANGED <<table, recorded>>

Next ==
    \/ \E k \in Tasks :
           \/ \E p \in Providers, usage \in Usages, now \in Times : Track(k, p, usage, now)
           \/ record(k)
           \/ RecordFails(k)
    \/ Kill

Spec == Init /\ [][Next]_vars

-----------------------------------------------------------------------------
(***************************************************************************)
(* The queries, by the rows' ids.  Neither changes anything; each is one   *)
(* SELECT, so that it sees one state of the table.                         *)
(***************************************************************************)
InWindow(start, end) ==
    {i \in 1..Len(table) :
        /\ ~TextBefore(table[i].timestamp, to_rfc3339(start))
        /\ ~TextBefore(to_rfc3339(end), table[i].timestamp)}

Read(row) ==
    [row EXCEPT !.timestamp = parse_ts(row.timestamp), !.input = Unsigned(row.input),
                !.cache_read = Unsigned(row.cache_read), !.output = Unsigned(row.output)]

query(start, end) == [i \in InWindow(start, end) |-> Read(table[i])]

(***************************************************************************)
(* SUM of a column over the rows of a provider.  SQLite adds in i64 and    *)
(* fails the whole query if a partial sum leaves it; the order in which it *)
(* adds is its own, so any subset of the rows may be such a partial sum.   *)
(***************************************************************************)
Of(p, ids) == {i \in ids : table[i].provider = p}

Sum(column, ids) ==
    SumFunctionOnSet([i \in DOMAIN table |-> table[i][column]], ids)

TokenColumns == {"input", "cache_read", "output"}

MayOverflow(ids) ==
    \E p \in Providers, column \in TokenColumns :
        \E part \in SUBSET Of(p, ids) : Sum(column, part) \notin Signeds

aggregate_by_provider(start, end) ==
    LET ids == InWindow(start, end)
    IN [p \in {q \in Providers : Of(q, ids) # {}} |->
            [total_requests          |-> Cardinality(Of(p, ids)),
             total_input_tokens      |-> Unsigned(Sum("input", Of(p, ids))),
             total_cache_read_tokens |-> Unsigned(Sum("cache_read", Of(p, ids))),
             total_output_tokens     |-> Unsigned(Sum("output", Of(p, ids))),
             total_cost_usd          |-> Sum("cost", Of(p, ids))]]

-----------------------------------------------------------------------------
(***************************************************************************)
(* What a query must go by: the records handed over, their times as times. *)
(***************************************************************************)
RecordedIn(start, end) ==
    {i \in 1..Len(recorded) :
        /\ ~Before(recorded[i].timestamp, start)
        /\ ~Before(end, recorded[i].timestamp)}

(***************************************************************************)
(* A query for any window returns exactly the records whose INSERT went    *)
(* through and whose time is in the window, each as it was handed over,    *)
(* and ORDER BY timestamp puts them in the order of their times, whatever  *)
(* the order of insertion, the fractions of the times and the casts.       *)
(***************************************************************************)
QueriesFaithful ==
    /\ \A start, end \in Times :
           query(start, end) = [i \in RecordedIn(start, end) |-> recorded[i]]
    /\ \A i, j \in 1..Len(recorded) :
           TextBefore(table[i].timestamp, table[j].timestamp)
               <=> Before(recorded[i].timestamp, recorded[j].timestamp)

(***************************************************************************)
(* The statistics of a window are the sums over its records of what the    *)
(* upstreams reported and of what each cost at its provider's prices, in   *)
(* the 64 bits of u64.  The query fails only if the tokens of some provider*)
(* exceed i64 in truth.                                                    *)
(***************************************************************************)
Reported(column, ids) ==
    SumFunctionOnSet([i \in DOMAIN recorded |-> recorded[i][column]], ids)

TrueSum(column, p, ids) == Reported(column, {i \in ids : recorded[i].provider = p})

TrueCost(p, ids) ==
    LET per_cached == IF price[p].cache_read_per_m = NoRecord THEN 0
                      ELSE price[p].cache_read_per_m
    IN TrueSum("input", p, ids) * price[p].input_per_m
           + TrueSum("output", p, ids) * price[p].output_per_m
           + TrueSum("cache_read", p, ids) * per_cached

StatsAddUp ==
    \A start, end \in Times :
        LET ids == RecordedIn(start, end)
            stats == aggregate_by_provider(start, end)
        IN /\ MayOverflow(ids) =>
                 \E p \in Providers, column \in TokenColumns : TrueSum(column, p, ids) >= Half
           /\ DOMAIN stats = {recorded[i].provider : i \in ids}
           /\ \A p \in DOMAIN stats :
                 /\ stats[p].total_cost_usd = TrueCost(p, ids)
                 /\ ~MayOverflow(ids) =>
                       /\ stats[p].total_input_tokens = TrueSum("input", p, ids) % (2 * Half)
                       /\ stats[p].total_cache_read_tokens
                              = TrueSum("cache_read", p, ids) % (2 * Half)
                       /\ stats[p].total_output_tokens = TrueSum("output", p, ids) % (2 * Half)
=============================================================================
