------------------------------ MODULE GasCosts ------------------------------
(***************************************************************************)
(* Monthly gas tariffs and their corrections                               *)
(* (application/gas_tariffs.py:GasTariffStore.save,                        *)
(* adapters/ydb/owner_data.py:application_tariff_save), what a volume of   *)
(* gas costs by them (application/gas_cost.py), and the costs that         *)
(* application/gas.py:GasService puts into a report and computes again     *)
(* when a tariff changes (_cost_for_volume, _monthly_cost_slices,          *)
(* refresh_cost).                                                          *)
(*                                                                         *)
(* A price stands for price and currency; the revision of the tariffs      *)
(* counts the audit rows.  A month has Parts units of time, so that a      *)
(* period may begin inside it.  What the gas model allots to a unit is the *)
(* constant Burnt: tariffs do not change it.  The amounts of a cost are a  *)
(* function of the currencies.                                             *)
(***************************************************************************)
EXTENDS Integers, FiniteSets, FiniteSetsExt, SequencesExt, Functions

CONSTANTS
    Months, Prices, MaxSaves,
    Currency,   \* price -> currency; a price stands for both
    Parts,      \* units of time in a month
    Burnt       \* unit -> volume of the gas model; NoVolume if not estimated

VARIABLES
    tariffs,      \* rows of gas_tariffs: id, month, price, corrections
    tariffAudit,  \* gas_tariff_audit
    month,        \* the current month of the installation
    told          \* the answer of the last save: from when to when it matters

tariffVars == <<tariffs, tariffAudit, month, told>>

NoPrice == 0
NoAnswer == [start |-> 0, end |-> 0, idempotent |-> TRUE]

TariffInit ==
    /\ tariffs = {} /\ tariffAudit = <<>> /\ month = Min(Months) /\ told = NoAnswer

NextMonth ==
    /\ month + 1 \in Months /\ month' = month + 1
    /\ UNCHANGED <<tariffs, tariffAudit, told>>

\* Until the next tariff takes over; the last one goes on for ever.
EndOf(m) ==
    LET later == {t.month : t \in {t \in tariffs : t.month > m}}
    IN  IF later = {} THEN Max(Months) + 1 ELSE Min(later)

\* before = after: the request has been carried out already.
Repeated(m) ==
    /\ told' = [start |-> m, end |-> EndOf(m), idempotent |-> TRUE]
    /\ UNCHANGED <<tariffs, tariffAudit, month>>

Stored(m, row, action, before) ==
    /\ tariffs' = {t \in tariffs : t.month # m} \cup {row}
    /\ tariffAudit' = Append(tariffAudit,
         [month |-> m, action |-> action, before |-> before, after |-> row.price])
    /\ told' = [start |-> m, end |-> EndOf(m), idempotent |-> FALSE]
    /\ UNCHANGED month

Corrected(t, price) ==
    Stored(t.month, [t EXCEPT !.price = price, !.corrections = Append(@, <<t.price, price>>)],
           "correct", t.price)

\* A month that has begun and has a tariff is corrected explicitly, with a
\* reason; one that lies ahead is simply written again.
Create(m, price) ==
    LET old == {t \in tariffs : t.month = m} IN
    \/ \E t \in old : t.price = price /\ Repeated(m)
    \/ \E t \in old : t.price # price /\ m > month /\ Corrected(t, price)
    \/ /\ old = {}
       /\ Stored(m, [id |-> Len(tariffAudit) + 1, month |-> m, price |-> price,
                     corrections |-> <<>>], "create", NoPrice)

Correct(id, price) ==
    \E t \in {t \in tariffs : t.id = id} :
        IF t.price = price THEN Repeated(t.month) ELSE Corrected(t, price)

SaveTariff ==
    /\ Len(tariffAudit) < MaxSaves
    /\ \E price \in Prices :
          \/ \E m \in Months : Create(m, price)
          \/ \E id \in 1 .. MaxSaves : Correct(id, price)

-----------------------------------------------------------------------------
\* What a month costs: the price of the last tariff that began by then.
PriceIn(rows, m) ==
    LET begun == {t \in rows : t.month <= m}
    IN  IF begun = {} THEN NoPrice
        ELSE (CHOOSE t \in begun : \A s \in begun : s.month <= t.month).price

\* The trail of every month explains its price and its corrections, and every
\* price that was in force for a month that had begun can be found in it.
TariffsAudited ==
    \A m \in Months :
        LET trail == SelectSeq(tariffAudit, LAMBDA e : e.month = m)
            rows == {t \in tariffs : t.month = m}
        IN  /\ Cardinality(rows) = IF trail = <<>> THEN 0 ELSE 1
            /\ \A t \in rows :
                  /\ t.price = Last(trail).after /\ Len(t.corrections) = Len(trail) - 1
                  /\ \A k \in 2 .. Len(trail) :
                        /\ t.corrections[k - 1] = <<trail[k].before, trail[k].after>>
                        /\ trail[k].before = trail[k - 1].after

\* The months whose price a save changes are those that it says are affected;
\* the costs of the reports of other months are not computed again.
AffectedExact ==
    \A m \in Months : PriceIn(tariffs, m) # PriceIn(tariffs', m) =>
        m \in told'.start .. told'.end - 1
\* ... and it names no month that another tariff decides.
NothingElseAffected ==
    tariffs # tariffs' =>
        \A m \in Months \cap (told'.start .. told'.end - 1) :
            PriceIn(tariffs', m) = (CHOOSE t \in tariffs' : t.month = told'.start).price

-----------------------------------------------------------------------------
(* The cost of a volume.                                                   *)

NoVolume == -1

Units == Min(Months) * Parts .. (Max(Months) + 1) * Parts - 1
MonthOf(u) == u \div Parts
Begins(t) == t.month * Parts
Volume(vs) == IF \E k \in DOMAIN vs : vs[k] = NoVolume THEN NoVolume ELSE FoldFunction(LAMBDA v, sum : v + sum, 0, vs)
BurntIn(a, b) == Volume([u \in a .. b - 1 |-> Burnt[u]])

\* Times the amount of every currency; amounts without currency are absent.
Amounts(items) ==
    [c \in {i.currency : i \in items} |->
        MapThenSumSet(LAMBDA i : i.amount, {i \in items : i.currency = c})]

Unknown(why) ==
    [status |-> "unknown", amounts |-> <<>>, priced |-> NoVolume, slices |-> <<>>, why |-> why]

Active(rows, at) ==
    LET begun == {t \in rows : Begins(t) <= at}
    IN  {t \in begun : \A s \in begun : s.month <= t.month}

Boundaries(rows, a, b) == {t.month * Parts : t \in {t \in rows : a < Begins(t) /\ Begins(t) < b}}
NeedsSplit(rows, a, b) == Active(rows, a) = {} \/ Boundaries(rows, a, b) # {}

\* The slices cover the period one after the other and change at the start of
\* a month; if all their volumes are known they make up the total.
Cover(a, b, slices) ==
    /\ slices # <<>> /\ slices[1].start = a /\ Last(slices).end = b
    /\ \A k \in DOMAIN slices :
          /\ slices[k].start < slices[k].end
          /\ k > 1 => slices[k].start = slices[k - 1].end /\ slices[k].start % Parts = 0
Reconciled(volume, slices) ==
    LET sliced == Volume([k \in DOMAIN slices |-> slices[k].volume])
    IN  sliced \in {NoVolume, volume}

PricedBy(active, slice) ==
    LET price == IF active = {} THEN NoPrice ELSE (CHOOSE t \in active : TRUE).price
        known == price # NoPrice /\ slice.volume # NoVolume
    IN  [start |-> slice.start, end |-> slice.end, volume |-> slice.volume, price |-> price,
         currency |-> IF known THEN Currency[price] ELSE "none",
         amount |-> IF known THEN slice.volume * price ELSE 0]

\* One slice, with the tariff that is in force when it begins.
Priced(rows, slice) == PricedBy(Active(rows, slice.start), slice)

Calculated(rows, slices) ==
    LET items == [k \in DOMAIN slices |-> Priced(rows, slices[k])]
        priced == {i \in ToSet(items) : i.currency # "none"}
    IN  [status |-> IF priced = ToSet(items) THEN "available"
                    ELSE IF priced # {} THEN "partial" ELSE "unknown",
         amounts |-> Amounts(priced),
         priced |-> MapThenSumSet(LAMBDA i : i.volume, priced),
         slices |-> items, why |-> "none"]

\* calculate_gas_cost; no slices are given as <<>>.
Cost(rows, a, b, volume, given) ==
    LET slices == IF given = <<>> THEN <<[start |-> a, end |-> b, volume |-> volume]>> ELSE given
    IN  IF volume = NoVolume THEN Unknown("gas_volume_unavailable")
        ELSE IF rows = {} THEN Unknown("tariff_unavailable")
        ELSE IF NeedsSplit(rows, a, b) /\ given = <<>> THEN Unknown("volume_distribution_unavailable")
        ELSE IF ~Cover(a, b, slices) THEN Unknown("invalid_volume_slices")
        ELSE IF ~Reconciled(volume, slices) THEN Unknown("volume_slices_do_not_match_total")
        ELSE IF \E k \in DOMAIN slices : Boundaries(rows, slices[k].start, slices[k].end) # {}
             THEN Unknown("volume_slice_crosses_tariff_boundary")
        ELSE Calculated(rows, slices)

-----------------------------------------------------------------------------
(* GasService: the volume of the model is sliced by months.                *)

MonthRanges(a, b) ==
    LET ms == SetToSortSeq(MonthOf(a) .. MonthOf(b - 1), <)
    IN  [k \in DOMAIN ms |-> [start |-> Max({a, ms[k] * Parts}), end |-> Min({b, (ms[k] + 1) * Parts})]]

\* The weights of the model are scaled to the volume of the period, which a
\* meter may have measured.  Weights = 0 cannot be scaled to anything.
MonthlySlices(a, b, volume) ==
    LET ranges == MonthRanges(a, b)
        modelled == BurntIn(a, b)
        Share(v) == IF modelled = 0 THEN 0 ELSE (v * volume) \div modelled
    IN  [k \in DOMAIN ranges |->
            [start |-> ranges[k].start, end |-> ranges[k].end,
             volume |-> Share(BurntIn(ranges[k].start, ranges[k].end))]]

CostForVolume(rows, a, b, volume, canAllocate) ==
    LET initial == Cost(rows, a, b, volume, <<>>)
        modelled == BurntIn(a, b)
    IN  IF \/ initial.why # "volume_distribution_unavailable" \/ ~canAllocate
           \/ modelled = NoVolume \/ (modelled = 0 /\ volume # 0)
        THEN initial
        ELSE Cost(rows, a, b, volume, MonthlySlices(a, b, volume))

\* value_volume_by_period_tariffs, subtract_costs: a change or an effect of a
\* complete cost in one currency.  Weighted amounts are left as a product with
\* the weight, which divides the result.
Valued(volume, cost) ==
    IF volume = NoVolume \/ cost.status # "available" \/ cost.priced = 0
    THEN Unknown("evaluated_period_cost_unavailable")
    ELSE [cost EXCEPT !.amounts = [c \in DOMAIN cost.amounts |-> cost.amounts[c] * volume]]

Subtracted(after, before) ==
    IF \/ after.status # "available" \/ before.status # "available"
       \/ Cardinality(DOMAIN after.amounts) # 1 \/ DOMAIN after.amounts # DOMAIN before.amounts
    THEN Unknown("currencies_not_comparable")
    ELSE [after EXCEPT !.amounts = [c \in DOMAIN @ |-> @[c] - before.amounts[c]], !.slices = <<>>]

\* refresh_cost: the money of a report of the period and of its comparison
\* with the period before; volumes and texts are left alone.
ReportCosts(rows, a, b, before) ==
    LET cost == CostForVolume(rows, a, b, BurntIn(a, b), TRUE)
        old == CostForVolume(rows, before, a, BurntIn(before, a), TRUE)
    IN  [cost |-> cost, change |-> Subtracted(cost, old),
         effect |-> IF Subtracted(cost, old).status = "available"
                    THEN Valued(BurntIn(a, b), cost) ELSE Unknown("currencies_not_comparable")]

-----------------------------------------------------------------------------
Periods == {<<a, b>> \in Units \X (Units \cup {Max(Units) + 1}) : a < b}

\* A unit costs what its month's tariff says: a cost that counts as available
\* is the sum over the units of the period, in every currency, and a period
\* with a unit that has no tariff has no available cost.
CostsAddUp ==
    \A <<a, b>> \in Periods :
        LET cost == CostForVolume(tariffs, a, b, BurntIn(a, b), TRUE)
            Price(u) == PriceIn(tariffs, MonthOf(u))
        IN  /\ cost.status = "available" =>
                 /\ \A u \in a .. b - 1 : Price(u) # NoPrice
                 /\ \A c \in DOMAIN cost.amounts :
                       cost.amounts[c] =
                         MapThenSumSet(LAMBDA u : Burnt[u] * Price(u),
                                       {u \in a .. b - 1 : Currency[Price(u)] = c})
            /\ (BurntIn(a, b) # NoVolume /\ \A u \in a .. b - 1 : Price(u) # NoPrice)
                  => cost.status = "available"

Money(costs) == [k \in DOMAIN costs |-> <<costs[k].status, costs[k].amounts>>]

\* A save says which months its price decides.  A report that covers none of
\* them, compared with a period that covers none either, keeps its costs: it
\* need not be computed and published again.
OtherCostsStay ==
    \A <<a, b>> \in Periods : \A before \in Min(Units) .. a - 1 :
        (MonthOf(before) .. MonthOf(b - 1)) \cap (told'.start .. told'.end - 1) = {}
            => Money(ReportCosts(tariffs, a, b, before)) = Money(ReportCosts(tariffs', a, b, before))
=============================================================================
