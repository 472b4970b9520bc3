--------------------------- MODULE HealthRollups ----------------------------
(***************************************************************************)
(* Health rollups: "health rollup refresh" (a timer) and "health rollup    *)
(* recompute" (an operator) derive rows from health_history and            *)
(* probe_observations, and the SLO projection reads them                   *)
(* (crates/ocfleet-cli/src/health.rs, slo.rs and store.rs).                *)
(*                                                                         *)
(* A rollup command reads its sources cell by cell and writes in a later   *)
(* transaction, while sources arrive and other commands run.  Times are    *)
(* seconds with an optional fraction: timestamps are stored as text, and   *)
(* within a second a fraction sorts before the whole second.               *)
(***************************************************************************)
EXTENDS Integers, Sequences, FiniteSets, Functions

CONSTANTS
  RollupNodes,
  Rollers,         \* rollup commands that may run at once
  RecomputeIds,    \* operation ids an operator may pass
  SlotSeconds,     \* 300
  RollupBuckets,   \* <<300, 3600, 86400>>
  SampleStatuses,  \* statuses that occur
  ProbeResults,    \* results of probes: "ok", "failed"
  SourceTimes,     \* seconds at which sources occur
  MaxSourceTime,   \* bound: last second of a source or of a window
  MaxSources,      \* bound: source rows
  MaxRollups       \* bound: rollup commands

\* Every bucket holds whole slots.
ASSUME RollupAssumption ==
  /\ SlotSeconds \in Nat \ {0}
  /\ RollupBuckets \in Seq(Nat \ {0}) /\ RollupBuckets # <<>>
  /\ \A i \in DOMAIN RollupBuckets : RollupBuckets[i] % SlotSeconds = 0
  /\ IsFiniteSet(SampleStatuses)
  /\ MaxSourceTime \in Nat /\ MaxSources \in Nat /\ SourceTimes \subseteq 0..MaxSourceTime

VARIABLES
  sources,     \* rows of health_history and probe_observations
  rollups,     \* <<node, bucket, start>> -> row of health_rollups
  rollOps,     \* operation id -> rows its audit event hashes
  roller,      \* command -> what it does, or NoRoll
  rollReport,  \* command -> status it last printed
  rollBudget   \* rollup commands begun

rollupVars == <<sources, rollups, rollOps, roller, rollReport, rollBudget>>

NoRoll == [step |-> "idle"]
NoRollOp == [source |-> "refresh"]

\* The sum of the values of f: the size of the disjoint union of 1..f[x].
Total(f) == Cardinality(UNION {{x} \X (1..f[x]) : x \in DOMAIN f})

----------------------------------------------------------------------------
(* Sources of a window.                                                    *)

\* The text of a timestamp against that of a whole second.
TextBefore(r, second) == r.at < second \/ (r.at = second /\ r.frac = 1)
InWindow(r, from, to) == ~TextBefore(r, from) /\ TextBefore(r, to)
TextRank(r) == (2 * r.at) + (1 - r.frac)

\* health_rollup_source: the rows of one table for a node and a window.
SourceRows(kind, n, from, to) ==
  {r \in sources : r.kind = kind /\ r.node = n /\ InWindow(r, from, to)}

\* health_rollup_node_ids
SourceNodes(from, to) == {r.node : r \in {x \in sources : InWindow(x, from, to)}}

----------------------------------------------------------------------------
(* build_health_rollup.                                                    *)

\* The five-minute slot of a sample.
SlotOf(r) == r.at \div SlotSeconds

\* Rows come ordered by text and evaluation id; the last of a slot wins.
LastSample(rs) == CHOOSE r \in rs : \A x \in rs : TextRank(x) <= TextRank(r)

StatusBySlot(samples) ==
  [slot \in {SlotOf(r) : r \in samples} |->
     LastSample({r \in samples : SlotOf(r) = slot}).value]

BuildRollup(size, samples, probes) ==
  LET slots == StatusBySlot(samples)
  IN [watermark |-> samples \cup probes,
      covered |-> Cardinality(DOMAIN slots),
      expected |-> size \div SlotSeconds,
      counts |-> [s \in SampleStatuses |-> Cardinality({i \in DOMAIN slots : slots[i] = s})],
      observations |-> Cardinality(probes),
      errors |-> Cardinality({r \in probes : r.value = "failed"})]

StatusTotal(row) == Total(row.counts)

\* The counters validate_health_rollup_write and the projection insist on.
CountersConsistent(row, size) ==
  /\ row.expected = size \div SlotSeconds
  /\ row.covered <= row.expected
  /\ StatusTotal(row) = row.covered
  /\ row.errors <= row.observations

----------------------------------------------------------------------------
(* The commands.                                                           *)

Window(size, from, to, only, op) ==
  [size |-> size, from |-> from, to |-> to, only |-> only, op |-> op]

Floor(t, size) == t - (t % size)

\* refresh_closed_health_rollups: the last closed bucket of every size.
ClosedWindows(at) ==
  [i \in DOMAIN RollupBuckets |->
     LET size == RollupBuckets[i]
     IN Window(size, Floor(at, size) - size, Floor(at, size), {}, NoRollOp)]

RollBegins(w, windows) ==
  /\ roller[w] = NoRoll
  /\ rollBudget < MaxRollups
  /\ rollBudget' = rollBudget + 1
  /\ roller' = [roller EXCEPT ![w] =
       [step |-> "list", windows |-> windows, nodes |-> {}, rows |-> <<>>, cell |-> <<>>,
        samples |-> {}]]
  /\ rollReport' = [rollReport EXCEPT ![w] = "none"]
  /\ UNCHANGED <<sources, rollups, rollOps>>

RefreshBegins(w, at) == RollBegins(w, ClosedWindows(at))

\* validate_rollup_window
RecomputeBegins(w, size, from, to, only, id) ==
  /\ from < to /\ from % size = 0 /\ to % size = 0
  /\ Cardinality(only) <= 1
  /\ RollBegins(w, <<Window(size, from, to, only, [source |-> "operator", id |-> id])>>)

RollAt(w, step) == roller[w].step = step
RollWindow(w) == Head(roller[w].windows)

\* Without --node (only is empty) the sources are asked which nodes they have.
ListsSources(w) ==
  LET win == RollWindow(w)
  IN /\ RollAt(w, "list")
     /\ roller' = [roller EXCEPT ![w].step = "history", ![w].rows = <<>>,
          ![w].nodes = IF win.only = {} THEN SourceNodes(win.from, win.to) ELSE win.only]
     /\ UNCHANGED <<sources, rollups, rollOps, rollReport, rollBudget>>

\* Cells of the window without a row yet: a node, the size and a bucket start.
CellsLeft(w) ==
  LET win == RollWindow(w)
      starts == {s \in win.from..(win.to - 1) : s % win.size = 0}
  IN {<<n, win.size, s>> : n \in roller[w].nodes, s \in starts} \ DOMAIN roller[w].rows

\* Bucket after bucket; the two queries of health_rollup_source are two reads.
ReadsHistory(w, cell) ==
  /\ RollAt(w, "history") /\ \A left \in CellsLeft(w) : cell[3] <= left[3]
  /\ roller' = [roller EXCEPT ![w].step = "probes", ![w].cell = cell,
       ![w].samples = SourceRows("sample", cell[1], cell[3], cell[3] + cell[2])]
  /\ UNCHANGED <<sources, rollups, rollOps, rollReport, rollBudget>>

ReadsProbes(w) ==
  LET cell == roller[w].cell
      row == BuildRollup(cell[2], roller[w].samples,
                         SourceRows("probe", cell[1], cell[3], cell[3] + cell[2]))
  IN /\ RollAt(w, "probes")
     /\ roller' = [roller EXCEPT ![w].step = "history", ![w].cell = <<>>, ![w].samples = {},
          ![w].rows = [k \in DOMAIN @ \cup {cell} |-> IF k = cell THEN row ELSE @[k]]]
     /\ UNCHANGED <<sources, rollups, rollOps, rollReport, rollBudget>>

\* The operation id of a refresh is a digest of its window and watermarks.
OperationId(w) ==
  LET win == RollWindow(w)
      rows == roller[w].rows
  IN IF win.op # NoRollOp THEN win.op
     ELSE [source |-> "refresh", size |-> win.size, from |-> win.from, to |-> win.to,
           marks |-> [k \in DOMAIN rows |-> rows[k].watermark]]

\* One window is done: the next one, or the end of the command.
NextWindow(w) ==
  LET left == Tail(roller[w].windows)
  IN roller' = [roller EXCEPT ![w] =
       IF left = <<>> THEN NoRoll
       ELSE [@ EXCEPT !.step = "list", !.windows = left, !.rows = <<>>, !.nodes = {}]]

Reports(w, status) == rollReport' = [rollReport EXCEPT ![w] = status]

NoSource(w) ==
  /\ RollAt(w, "history") /\ CellsLeft(w) = {} /\ roller[w].rows = <<>>
  /\ NextWindow(w) /\ Reports(w, "no_source")
  /\ UNCHANGED <<sources, rollups, rollOps, rollBudget>>

\* audit_request_replay_tx: an operation id that is in the audit log with the
\* same rows is a replay; with other rows it is a conflict.
Known(id) == id \in DOMAIN rollOps
ReplayMatches(id, rows) == Known(id) => rollOps[id] = rows

\* upsert_health_rollup_tx: a row per node, bucket size and bucket start.
UpsertRollups(rows) ==
  [k \in DOMAIN rollups \cup DOMAIN rows |-> IF k \in DOMAIN rows THEN rows[k] ELSE rollups[k]]

\* write_health_rollups: a replay writes nothing.
WritesRollups(w) ==
  LET rows == roller[w].rows
      id == OperationId(w)
      valid == \A k \in DOMAIN rows : CountersConsistent(rows[k], k[2])
  IN /\ RollAt(w, "history") /\ CellsLeft(w) = {} /\ rows # <<>>
     /\ IF valid /\ ReplayMatches(id, rows)
        THEN /\ rollOps' = [i \in DOMAIN rollOps \cup {id} |-> IF i = id THEN rows ELSE rollOps[i]]
             /\ rollups' = IF Known(id) THEN rollups ELSE UpsertRollups(rows)
             /\ NextWindow(w) /\ Reports(w, "written_or_replayed")
        ELSE /\ roller' = [roller EXCEPT ![w] = NoRoll]
             /\ Reports(w, "error")
             /\ UNCHANGED <<rollups, rollOps>>
     /\ UNCHANGED <<sources, rollBudget>>

\* An evaluation or an outcome is stored, perhaps long after its instant.  The
\* timer floors its clock to the second; health summary, health node and a
\* probe store the fraction too.
SourceArrives(kind, n, at, frac, value) ==
  /\ Cardinality(sources) < MaxSources
  /\ sources' = sources \cup {[kind |-> kind, key |-> Cardinality(sources), node |-> n,
                               at |-> at, frac |-> frac, value |-> value]}
  /\ UNCHANGED <<rollups, rollOps, roller, rollReport, rollBudget>>

RollupInit ==
  /\ sources = {} /\ rollups = <<>> /\ rollOps = <<>>
  /\ roller = [w \in Rollers |-> NoRoll]
  /\ rollReport = [w \in Rollers |-> "none"]
  /\ rollBudget = 0

RollerStep(w) ==
  \/ \E at \in 1..(MaxSourceTime + 1) : RefreshBegins(w, at)
  \/ \E size \in Range(RollupBuckets), from, to \in 0..(MaxSourceTime + 1),
        only \in SUBSET RollupNodes, id \in RecomputeIds :
       RecomputeBegins(w, size, from, to, only, id)
  \/ ListsSources(w) \/ ReadsProbes(w) \/ NoSource(w) \/ WritesRollups(w)
  \/ RollAt(w, "history") /\ \E cell \in CellsLeft(w) : ReadsHistory(w, cell)

RollupNext ==
  \/ \E w \in Rollers : RollerStep(w)
  \/ \E n \in RollupNodes, at \in SourceTimes, frac \in {0, 1} :
       \/ \E s \in SampleStatuses : SourceArrives("sample", n, at, frac, s)
       \/ \E r \in ProbeResults : SourceArrives("probe", n, at, frac, r)

RollupSpec == RollupInit /\ [][RollupNext]_rollupVars

----------------------------------------------------------------------------
(* The SLO projection.                                                     *)

\* list_health_rollups
StoredRows(n, size, from, to) ==
  {k \in DOMAIN rollups : k[1] = n /\ k[2] = size /\ from <= k[3] /\ k[3] < to}

\* project_health_slo refuses rows whose counters do not add up.
SloDefined(n, size, from, to) ==
  LET keys == StoredRows(n, size, from, to)
  IN /\ Cardinality(keys) <= (to - from) \div size
     /\ \A k \in keys : CountersConsistent(rollups[k], size)

\* The sums over the rows it reads.
SumCovered(keys) == Total([k \in keys |-> rollups[k].covered])
SumCounts(keys, set) == Total([c \in keys \X set |-> rollups[c[1]].counts[c[2]]])
SumErrors(keys) == Total([k \in keys |-> rollups[k].errors])

\* Missing slots are no status; disabled and unknown time is not eligible.
Available == SampleStatuses \cap {"healthy", "degraded"}
Eligible == SampleStatuses \cap {"healthy", "degraded", "unreachable", "stale"}
Projection(keys, slots) ==
  [missing |-> IF SumCovered(keys) < slots THEN slots - SumCovered(keys) ELSE 0,
   eligible |-> SumCounts(keys, Eligible),
   available |-> SumCounts(keys, Available),
   errors |-> SumErrors(keys)]

\* Fault: slots are expected only in the buckets that have a row.
SloOfStoredRows(n, size, from, to) ==
  LET keys == StoredRows(n, size, from, to)
  IN Projection(keys, Total([k \in keys |-> rollups[k].expected]))

\* project_health_slo
Slo(n, size, from, to) ==
  Projection(StoredRows(n, size, from, to), (to - from) \div SlotSeconds)

\* run_health_slo: the end of the window must be aligned to the bucket.
SloAligned(to, size) == to % size = 0

\* The rows a projection reads were derived from these sources.
Watermarks(keys) == UNION {rollups[k].watermark : k \in keys}
SloSources(n, size, from, to) == Watermarks(StoredRows(n, size, from, to))

----------------------------------------------------------------------------
(* Properties.                                                             *)

\* A sample stored with a fraction in the first second of a slot: its text
\* sorts before the boundary, so that the query puts it in the bucket before
\* its slot.
Straddles(r) == r.kind = "sample" /\ r.frac = 1 /\ r.at % SlotSeconds = 0

\* write_health_rollups does not refuse a row derived from samples of which
\* none straddles a boundary.
RowsAccepted ==
  \A w \in Rollers : roller[w] # NoRoll =>
    \A k \in DOMAIN roller[w].rows :
      (\A r \in roller[w].rows[k].watermark : ~Straddles(r)) => CountersConsistent(roller[w].rows[k], k[2])

\* Stored rows never make a projection fail.  A window projected from
\* five-minute rows and from coarser ones gives the same missing, eligible and
\* available time and the same errors whenever both were derived from the same
\* sources and no sample straddles a boundary: however often a slot was
\* evaluated, it counts once.  Such rows are never refused either.  (A sample
\* that straddles one is counted in the bucket before its slot, and a slot
\* whose samples are in two buckets counts in both.)
SloAgrees ==
  /\ RowsAccepted
  /\ \A n \in RollupNodes, i, j \in DOMAIN RollupBuckets :
       LET span == RollupBuckets[Len(RollupBuckets)]
       IN \A from \in 0..MaxSourceTime :
            SloAligned(from + span, RollupBuckets[i]) /\ SloAligned(from + span, RollupBuckets[j]) =>
              /\ SloDefined(n, RollupBuckets[i], from, from + span)
              /\ /\ SloSources(n, RollupBuckets[i], from, from + span)
                      = SloSources(n, RollupBuckets[j], from, from + span)
                 /\ \A r \in SloSources(n, RollupBuckets[i], from, from + span) : ~Straddles(r)
                 => Slo(n, RollupBuckets[i], from, from + span)
                      = Slo(n, RollupBuckets[j], from, from + span)

----------------------------------------------------------------------------
(* The inductive invariant: every row, stored or about to be, is what      *)
(* build_health_rollup derives from the sources of its watermark, and they *)
(* are of its cell; the counters of a stored row are consistent.           *)

Source ==
  [kind : {"sample", "probe"}, key : Nat, node : RollupNodes, at : Nat, frac : {0, 1},
   value : SampleStatuses \cup ProbeResults]
SourcesOK ==
  /\ IsFiniteSet(sources) /\ sources \subseteq Source
  /\ \A r \in sources : r.kind = "sample" => r.value \in SampleStatuses

Sizes == Range(RollupBuckets)
Cell == RollupNodes \X Sizes \X Int
CellOK(k) == k \in Cell /\ k[3] % k[2] = 0
OfCell(src, k) == {r \in src : r.node = k[1] /\ InWindow(r, k[3], k[3] + k[2])}
OfKind(rs, kind) == {r \in rs : r.kind = kind}

Derived(src, k, row) ==
  /\ row.watermark \subseteq OfCell(src, k)
  /\ row = BuildRollup(k[2], OfKind(row.watermark, "sample"), OfKind(row.watermark, "probe"))
RowsOK(src, rows) == \A k \in DOMAIN rows : CellOK(k) /\ Derived(src, k, rows[k])

Windows ==
  [size : Sizes, from : Int, to : Int, only : SUBSET RollupNodes,
   op : {NoRollOp} \cup [source : {"operator"}, id : RecomputeIds]]
RollOK(src, r) ==
  \/ r = NoRoll
  \/ /\ r \in [step : {"list", "history", "probes"}, windows : Seq(Windows) \ {<<>>},
               nodes : SUBSET RollupNodes, rows : {r.rows}, cell : {r.cell},
               samples : {r.samples}]
     /\ RowsOK(src, r.rows)
     /\ r.step = "probes" => CellOK(r.cell) /\ r.samples \subseteq OfKind(OfCell(src, r.cell), "sample")

RollupInv ==
  /\ SourcesOK /\ RowsOK(sources, rollups)
  /\ \A k \in DOMAIN rollups : CountersConsistent(rollups[k], k[2])
  /\ DOMAIN roller = Rollers /\ \A w \in Rollers : RollOK(sources, roller[w])
=============================================================================
