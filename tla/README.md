# TLA+ models of the gfarm iostat collector and gfvoms-sync

This directory holds TLA+ models of the Python code under `src/`, the TLC
configurations that check them, and `PROJECT.json`. That file lists the
components, the runs, the mutants, the map from each definition to its source
lines, the findings, and the hazards.

## The system

`src/util/ganglia/gfarm_iostat.py` is a ganglia (gmond) Python module. It
reports gfarm I/O counters. Its parts:

- **Counter files.** Each gfmd/gfsd daemon (or client connection) writes one
  binary file per entity. A directory `iostat-<server>...` holds the files of
  one source. A file has a header (magic, `s_row`, `s_rowmax`, `s_start_sec`,
  ...), column specs, and a ring of counter rows.
- **Producers.** The daemons write these files. They are not code of this
  repository. They create a file, write its header, restart (new file, new
  `s_start_sec`), remove it, allocate rows, grow the ring, and increment
  counters.
- **Reader.** `class gfarm_iostat` reads one file. `__init__` raises on an
  open failure or a bad magic. `getrow(i)` returns `None` for `i >= s_row`.
- **DiffEngine.** `sumup`, `diffitems` and `diff` compute the delta between
  two snapshots of one file:
  - a larger `s_start_sec` means the producer restarted: count the whole
    new total;
  - otherwise subtract row by row;
  - rows added by a grown ring are counted whole.
- **DirectoryAggregator.** `class dir_iostat` lists a directory and reads
  every entry. Its `sumup` and `diff` add up the entities' results.
- **Refresh.** `get_stats` re-reads every directory (`get_filesstats`). It
  differences them against the previous snapshots (`get_filesdiff`). It folds
  the deltas into `gfarm_counts` as `prev + diff` (`calc_total`), for each
  directory and for a group key.
- **PollCycleGate.** `get_stat(name)` is the callback of every metric
  descriptor. It calls `get_stats` only when `ntimes % len(descriptors) == 0`.
  Then it looks the value up in `gfarm_counts`. When the lookup raises, its
  `except` clause logs a warning and the function returns 0.
- **metric_init.** Takes the first snapshots and builds the descriptors: one
  per label and directory, label by label, plus the group key when there are
  several directories. It checks only that counter directories exist, not
  that any of them holds a file.
- **Module globals `gfarm_labels` and `gfarm_0items`.** Both start as `[]`.
  Every `gfarm_iostat.__init__` that returns sets the labels, and the first
  one also sets the zero vector. Every diff and count is keyed by them.

`src/util/ganglia/gfiostat.py` is a command-line inspector of one counter
file. It has its own copy of the reader.

`src/2.5.7/gftool/gfvoms-sync/gfvoms-sync/gfvoms-sync.py` runs two external
commands in sequence:

1. `gfvoms-list` writes a VO's membership to the fixed path
   `/tmp/vomslist.tmp`.
2. `gfvoms-update` applies that file, or a `-g` file, to gfarm.

Then it removes the temporary file. `zsi_def.py` holds generated SOAP type
declarations.

## Modules

| Module | Models | State | Actions |
|---|---|---|---|
| `IostatFile` | reader helpers, DiffEngine, dir_iostat sums | none (operators) | `Sumup`, `Diff`, `DirDiff`, ... each with a `...Raises` companion for when Python raises |
| `IostatProducer` | the daemons' file lifecycle (from the spec) | none: `XNext(f)` is the set of records step X can leave file `f` in | `CreateNext`, `RestartNext`, `SetupNext`, `RemoveNext`, `AllocRowNext`, `GrowNext`, `IncNext` |
| `IostatCollector` | producers plus `metric_init` and `get_stats` | `file`, `filestats`, `counts`, `phase`, `rd`, `pend`, `news`, `labels`, ghost `ledger` | producer: `Create`, `Restart`, `Setup`, `Remove`, `AllocRow`, `Grow`, `Inc`; collector: `StartRefresh`, `ListDir`, `ReadEnt`, `ReadFail`, `DiffFail`, `Finish` |
| `PollGate` | `list_files`, the descriptor registry of `metric_init`, the `get_stat` throttle and the scheduler's round | `ntimes` (mod N), `pos`, `hasCounts`, `outcome`, ghosts `epoch`, `served`, `refreshes`, `failed`, `lastRound` | `GetStat`, `GetStatRaises` |
| `IostatModule` | `get_stat` calling the real `get_stats` while producers run (composes `PollGate` and `IostatCollector`) | the variables of both | `Query`, `QueryRefresh`, `Refreshing`, `RefreshDone`, `RefreshRaised`, `Produce` |
| `GfiostatCli` | the `gfiostat.py` reader and loop over one file | `cf`, `old`, `i`, `pc`, `cause`, ghost `out` | `Produce`, `Poll` |
| `GfvomsSync` | `main()` of gfvoms-sync, concurrent invocations | `pc`, `opt`, `tmp`, `gfarm` | `Start`, `ListOk`, `ListFail`, `UpdateOk`, `UpdateFail`, `Cleanup`, `Rerun` |

Each MC module instantiates its module with small model values.

### IostatCollector

A `get_stats` call is split at every point a producer can run:

1. listing a directory;
2. reading each listed entry;
3. differencing.

An exception anywhere leaves every global as it was (`Raise`). `Finish`
assigns `gfarm_counts` and `gfarm_filestats` in one step, as the code does
after `get_filesdiff` returns.

Snapshots carry a ghost incarnation number `gen` that no code operator reads.
The ghost `ledger` accumulates the totals of snapshots that a later refresh
replaced by another incarnation or dropped. `CountsMatchLedger` uses it: each
directory's count is the ledger plus what its current snapshots hold, less what
`metric_init`'s snapshots held.

Two producer conventions are constants:

- `RowsAllWritten`: whether a header declares every ring row written
  (`s_row = s_rowmax`);
- `SameSecondRestart`: whether a new incarnation may start in its
  predecessor's second.

- `StartedEmpty`: whether `metric_init` may run before any entity file can
  be read.

The variable `labels` says whether `gfarm_labels` and `gfarm_0items` hold the
columns yet:

- `InitLabels` works it out from what `metric_init` reads, in directory order
  and up to the first read that raises.
- `ReadEnt` sets it.
- A refresh that completes without labels stores the empty dict for every key
  (`UnlabelledCounts`).
- A refresh with labels whose previous count is such an empty dict raises in
  `calc_total` (`LabelsMissing`).

With `StartedEmpty = FALSE` the initial states are those in which
`metric_init` read a file. That is the startup the spec requires, and all the
passing runs use it. `startup_empty_stall` shows what happens otherwise.

The producer actions are modelled from the spec, because the daemons are not in
this repository.

### No abstract refresh specification

An abstract specification of a refresh ("replace the snapshot map, move each
count by the difference") would restate `NewCounts` step for step, so a
refinement check against it would show nothing. What the spec asks of the
refresh, that `gfarm_filestats` and `gfarm_counts` change together and only
by a completed refresh, is checked instead by `CountsMatchLedger` against the
ghost `ledger`: assigning `gfarm_filestats` before `get_filesdiff`, so that a
raising diff publishes the new map without its counts, breaks it.

### GfiostatCli

The gfiostat reader leaves an invalid object when `open()` fails. It has no
magic check, so a file whose header is not written yet is read with a short
`memmove`. That is undefined, so the read has three outcomes:

- the process faults (`Died`);
- the garbage header makes the ctypes array types raise (`ReadError`); the
  `except` clause then calls `logging.execption`, which does not exist, and
  the `AttributeError` ends the process;
- the object holds garbage (`Junk`).

Every exception ends the process, and `cause` records why. The diff is the
file's own copy of `diff`/`diffitems` (`CliDiff`), which is the same code as
in `gfarm_iostat.py`.

### PollGate

`get_stats` is abstracted to two outcomes: it completes, or it raises.
`IostatCollector` models what it computes, and `IostatModule` puts the two
together. The violation run `refresh_drift` uses this
abstract form, because it lets a refresh fail at any call. Its
counterexample starts with a refresh exception escaping `get_stat` to the
scheduler, which the spec forbids.

The descriptor list is built as `metric_init` builds it:

- `ListFiles` is `list_files()` folded over the directory listing;
- `LabelOrder` is the keys of the `descriptions` table, one for gfmd and
  four for a gfsd;
- the group key is appended when there are several files.

The scheduler calls descriptors `1..N` in order, as the `__main__` loop does
and as the spec describes gmond. N is computed from the descriptor list that
`metric_init` builds. `ntimes` is kept modulo N, since the code reads it only
as `ntimes % N`.

### IostatModule: the composition

`IostatModule` instantiates `PollGate` and `IostatCollector` over one
variable set:

- the collector's directories are `PollGate`'s `ListFiles`, and its labels are `LabelOrder`;
- `PollGate`'s `hasCounts` is `counts # <<>>`, which is the code's empty
  `gfarm_counts`. A completed refresh then holds every key and label, because
  the module assumes `StartedEmpty = FALSE` (see IostatCollector).

A `get_stat` call whose turn it is to refresh (`ntimes % N = 0`) is not one
step here. It takes several:

1. `QueryRefresh` enters `get_stats()` (`C!StartRefresh`).
2. `Refreshing` lists directories and reads entries. Producer steps
   (`Produce`) interleave with these.
3. The call then returns in one of two ways:
   - `RefreshDone` is `C!Finish` together with `G!GetStat`. `ntimes` advances
     and the value is looked up.
   - `RefreshRaised` is a failed read or diff together with
     `G!GetStatRaises`. `ntimes` stays put, and the next call refreshes
     again.

Any other call is `Query`, the lookup alone.

Whether a refresh raises is now decided by the files, not chosen freely as
in `PollGate`.

## Runs

| Run | Expect | Shows |
|---|---|---|
| `collector_accounting` | pass | With 2 directories and restarts, removals and reappearances interleaved with refreshes, the counts match the ledger (`CountsMatchLedger`) and never decrease (`CountsMonotone`). Once producers are quiet, a refresh completes and the snapshots match the files (`EventuallyCurrent`). |
| `collector_grow` | pass | With 1 directory whose ring grows from 1 to 3 rows and whose rows are allocated one at a time, the accounting is still exact. A refresh that raises while differencing leaves `gfarm_counts` and `gfarm_filestats` as they were (`CountsMatchLedger`). |
| `same_second_restart` | violation | A restart in the same second is differenced against the old incarnation, and the count drops. |
| `startup_empty_stall` | violation | The collector starts while its directories hold no readable file. The first refresh stores `{}` as every count. Once a file appears, every refresh raises `KeyError` in `calc_total`, and the collector never catches up (`EventuallyCurrent`). |
| `unwritten_rows_stall` | violation | One file with `s_row < s_rowmax` makes every refresh raise forever. |
| `module_gate` | pass | The composed `IostatModule` on a gfsd with 2 directories (12 descriptors), whose entity files appear, get their headers written, and vanish (`MaxGen = 1`: no restarts; every row is written). At most one refresh per round, exactly one in a round without failure (`OneRefreshPerRound`), and no call reaches the `except` clause that returns 0 (`NoLookupFallback`; every run starts after a `gfarm_iostat.__init__` that returned, `StartedEmpty = FALSE`). Once the producers are quiet, `get_stat`'s retries make a refresh complete, and every call from then on returns a value of the current snapshots (`EventuallyServesCurrent`). |
| `refresh_drift` | violation | After one failure, a round reports values from two refreshes. |
| `cli_diff` | pass | The `diff=` line that gfiostat prints equals what the producer added since the previous valid read, across ring growth and restarts. |
| `cli_missing_file` | violation | A file missing at the first read crashes gfiostat at the first valid read (`old.diff` on an invalid object). |
| `cli_read_error` | violation | A file whose header is not written yet reaches the reader's `except` clause, whose `logging.execption` call raises and ends gfiostat. |
| `gfvoms_single` | pass | With invocations one at a time, every option combination, and failing commands, a VO's membership is set only from its own complete list (`OwnCompleteList`). |
| `gfvoms_concurrent` | violation | Two invocations sharing `/tmp/vomslist.tmp` apply each other's lists, or a truncated one. |

The findings in `PROJECT.json` explain each violation against the spec or the
code.

### Mutants

Each property of a passing run has a mutant: a plausible bug, written as an
operator next to the definition it replaces. Each one makes TLC fail the
property:

- restart detection with `>=`;
- `diffitems` operands swapped;
- the grown-ring extra dropped;
- the row loop running one row too far;
- the group key missing;
- the round ending late;
- the counter advanced on every call;
- the counter advanced only on calls that do not refresh;
- the exit status of `gfvoms-list` ignored.

## Bounds

One counter label suffices, since every operation is elementwise. Each counter
slot is bounded by `MaxVal = 1`, and each file by `MaxGen` incarnations.

- The accounting run needs 2 directories, because the group key is a sum
  across directories.
- Ring growth needs 3 rows: one old row and two added, so that differencing
  and the extra both happen. It is checked with one directory and one entity
  to stay within TLC's reach.
- The PollGate violation run uses a gfsd directory listing with two server
  entries and one other entry. That gives 4 labels × (2 directories +
  group) = 12 descriptors, enough for a failure to shift the refresh point
  past the group descriptor.
- The composed run `module_gate` uses a gfsd with two directories of one
  entity each: 4 labels × (2 + group) = 12 descriptors, with `MaxGen = 1` and
  `MaxVal = 0`. Its properties are about when refreshes happen and succeed,
  not about values; differences are checked in `collector_accounting`.
- GfvomsSync uses 2 VOs and 1 or 2 processes.
- GfiostatCli uses 4 loop iterations instead of the code's 99 (`Iters`).
  Four reads are enough for a missing, a half-written and two valid reads
  with a growth or restart between them. Its configs set CHECK_DEADLOCK FALSE
  because the program really ends, after its last iteration or a crash.

## Fairness

The collector is weakly fair, because gmond calls the callbacks on a timer for
as long as it runs. A producer that created its file goes on to write the
header, so `Setup` is weakly fair. Nothing else is assumed: a producer may
never allocate a row, and that is the stall the violation run shows.

`IostatModule` makes all of its callback steps weakly fair together
(`WF_vars(ModuleNext)`). gmond keeps calling, and a `get_stats()` in progress
runs to its end; `Setup` is weakly fair as in the collector.

`EventuallyCurrent` and `EventuallyServesCurrent` are conditional on the producers eventually stopping
(`ProducersQuiet`). Otherwise they could keep the files changing forever.
`EventuallyServesCurrent` is checked where every row gets written
(`RowsAllWritten`); with an unwritten row a refresh raises for ever, which is
what `unwritten_rows_stall` shows.

## Not modelled

- **Byte layout and ctypes parsing.** Strides and offsets are abstracted: a
  snapshot holds the rows.
- **Torn reads inside one file.** Each file read is taken as atomic.
- **zsi_def.** Declarations only, with no state.
- **Output.** Logging, printing, gmetric submission and option parsing are
  left out.
- **`metric_init` errors.** Its raise on a missing counter directory is not
  modelled. Its early return when there are no entries registers no
  descriptor, so PollGate assumes at least one entry.
- **The group key as a directory name.** With an empty `iostat_label`, the
  group key `iostat-<server>` would also pass `list_files()`. Nothing in this
  repository names directories that way, so both models assume the group key
  is not a directory.
- **The 32-bit conversion of reported values.** This happens in gmond and
  gmetric, outside this repository (see the hazards).
- **Process restart in the `__main__` mode.** An exception ends the process
  there, and a restart begins from `metric_init` with fresh state.
