--------------------------- MODULE IostatCollector ---------------------------
(***************************************************************************)
(* The refresh path of util/ganglia/gfarm_iostat.py running beside the     *)
(* gfarm daemons that write its counter files.                             *)
(*                                                                         *)
(* Producers (the gfmd/gfsd side, not in this repository's Python) create, *)
(* initialise, restart, grow and increment counter files, one per entity   *)
(* e of each counter directory d.  The collector is single-threaded:       *)
(* metric_init() takes the first snapshots, and get_stats() re-reads every *)
(* file of every directory, differences it against the previous snapshots *)
(* and folds the deltas into gfarm_counts.  When get_stats() runs is       *)
(* decided by get_stat's call counter (module PollGate); here a refresh    *)
(* may start whenever none is in progress.                                 *)
(*                                                                         *)
(* The refresh is not atomic with respect to the producers: a directory is *)
(* listed, then its entries are opened one by one, and producers run       *)
(* between the listing and each read.  Each single file read is taken as  *)
(* atomic (a torn read inside one file is not modelled).                   *)
(***************************************************************************)
EXTENDS Integers, FiniteSets, Sequences, Functions, TLC

CONSTANTS
    Items,             \* the counter columns (one label per column)
    Dirs,              \* the counter directories list_files() found
    DirOrder,          \* gfarm_files: the order list_files() returned them
    Ents,              \* names an entity file of a directory can have
    Group,             \* the key 'iostat-' + gfarm_server + iostat_label
    RowMax0,           \* s_rowmax a producer gives a new file
    MaxRows,           \* bound on s_rowmax after the ring grows
    MaxVal,            \* bound on one counter slot
    MaxGen,            \* bound on the incarnations of one file
    RowsAllWritten,    \* producers declare all rows written (s_row = s_rowmax)
    SameSecondRestart, \* a new incarnation may start in the second its
                       \* predecessor started
    StartedEmpty       \* metric_init may run before any entity file can be
                       \* read (else it reads at least one)

ASSUME /\ DirOrder \in Seq(Dirs) /\ Len(DirOrder) = Cardinality(Dirs)
       /\ Dirs # {} /\ Group \notin Dirs /\ StartedEmpty \in BOOLEAN

F == INSTANCE IostatFile

P == INSTANCE IostatProducer

VARIABLES
    file,        \* file[d][e]: the counter file of entity e in directory d
    filestats,   \* gfarm_filestats: directory snapshots of the last refresh
    counts,      \* gfarm_counts: cumulative value per key and label
    phase,       \* where the current get_stats() call is
    rd,          \* index in DirOrder of the directory being read
    pend,        \* entries listed in that directory and not read yet
    news,        \* the directory snapshots read so far in this refresh
    labels,      \* gfarm_labels and gfarm_0items hold the columns: some
                 \* gfarm_iostat.__init__ has returned
    ledger       \* history: credit moved out of the current snapshots

collectorVars == <<filestats, counts, phase, rd, pend, news, labels>>
vars == <<file, collectorVars, ledger>>

Keys == Dirs \cup {Group}

-----------------------------------------------------------------------------
(* Files and snapshots.                                                    *)
Snap(f) == [start |-> f.start, rowmax |-> f.rowmax, row |-> f.row,
            vals |-> f.vals, gen |-> f.gen]

\* os.listdir(indir): every entry that exists, initialised or not.
Listed(d) == {e \in Ents : file[d][e].st # "absent"}

\* gfarm_iostat(path) raises when the entry vanished before open() or its
\* header does not carry GFARM_IOSTAT_MAGIC yet.
ReadRaises(d, e) == file[d][e].st # "ok"

\* What the collector would read from directory d at this moment.
DirView(d) == [e \in {x \in Ents : file[d][x].st = "ok"} |-> Snap(file[d][e])]

SnapTotal(ds) == F!SumVals(DOMAIN ds, LAMBDA e : F!Total(ds[e]))

-----------------------------------------------------------------------------
(* metric_init(): list_files() and get_filesstats().  When reading any     *)
(* file raises, the exception is caught ('list error') and gfarm_filestats *)
(* keeps its initial value [], which holds no directory.                   *)
InitOk == \A d \in Dirs : \A e \in Listed(d) : ~ReadRaises(d, e)

\* gfarm_labels and gfarm_0items start as [] and are set by the first
\* gfarm_iostat.__init__ that returns.  metric_init reads the directories in
\* DirOrder until a read raises, the entries of one in os.listdir order.
ReadOk(i) == \E e \in Listed(DirOrder[i]) : ~ReadRaises(DirOrder[i], e)

ReadFails(i) == \E e \in Listed(DirOrder[i]) : ReadRaises(DirOrder[i], e)

InitLabels ==
    LET fails == {i \in 1 .. Len(DirOrder) : ReadFails(i)}
        last  == IF fails = {} THEN Len(DirOrder)
                 ELSE CHOOSE i \in fails : \A j \in fails : i <= j
    IN  IF \E i \in 1 .. last - 1 : ReadOk(i) THEN {TRUE}
        ELSE IF ~ReadOk(last) THEN {FALSE}
        ELSE IF fails = {} THEN {TRUE} ELSE BOOLEAN

Init ==
    /\ file \in [Dirs -> [Ents -> P!FileInit]]
    /\ filestats = IF InitOk THEN [d \in Dirs |-> DirView(d)] ELSE <<>>
    /\ counts = <<>>
    /\ phase = "idle"
    /\ rd = 1
    /\ pend = {}
    /\ news = [d \in Dirs |-> <<>>]
    /\ labels \in InitLabels
    /\ StartedEmpty \/ labels
    \* the ledger starts at minus what metric_init's snapshots hold
    /\ ledger = [d \in Dirs |->
                   IF InitOk THEN [l \in Items |-> -SnapTotal(filestats[d])[l]]
                             ELSE F!ZeroVals]

-----------------------------------------------------------------------------
(* Producer actions (the daemons that write the counter files).            *)

\* Step X of the producer of entity e's file in directory d.
Create(d, e) ==
    \E g \in P!CreateNext(file[d][e]) : file' = [file EXCEPT ![d][e] = g]

Restart(d, e) ==
    \E g \in P!RestartNext(file[d][e]) : file' = [file EXCEPT ![d][e] = g]

Setup(d, e) ==
    \E g \in P!SetupNext(file[d][e]) : file' = [file EXCEPT ![d][e] = g]

Remove(d, e) ==
    \E g \in P!RemoveNext(file[d][e]) : file' = [file EXCEPT ![d][e] = g]

AllocRow(d, e) ==
    \E g \in P!AllocRowNext(file[d][e]) : file' = [file EXCEPT ![d][e] = g]

Grow(d, e) ==
    \E g \in P!GrowNext(file[d][e]) : file' = [file EXCEPT ![d][e] = g]

Inc(d, e) ==
    \E g \in P!IncNext(file[d][e]) : file' = [file EXCEPT ![d][e] = g]

ProducerNext ==
    \E d \in Dirs, e \in Ents :
        \/ Create(d, e) \/ Restart(d, e) \/ Setup(d, e) \/ Remove(d, e)
        \/ AllocRow(d, e) \/ Grow(d, e) \/ Inc(d, e)

-----------------------------------------------------------------------------
(* Collector actions: one get_stats() call, split at the points where the  *)
(* producers can run in between.                                           *)

\* get_stats() is called (by get_stat, see PollGate).
StartRefresh ==
    /\ phase = "idle"
    /\ phase' = "list"
    /\ rd' = 1
    /\ UNCHANGED <<file, filestats, counts, pend, news, labels, ledger>>

\* An exception anywhere in get_stats() propagates out of it before any
\* global is assigned.
Raise ==
    /\ phase' = "idle"
    /\ pend' = {}
    /\ news' = [d \in Dirs |-> <<>>]
    /\ UNCHANGED <<file, filestats, counts, rd, labels, ledger>>

\* The loops of dir_iostat.__init__ and get_filesstats: read the entries
\* left in p, or go on to the next directory, or to get_filesdiff.
MoveOn(p) ==
    IF p # {}
    THEN pend' = p /\ phase' = "read" /\ UNCHANGED rd
    ELSE /\ pend' = {}
         /\ IF rd < Len(DirOrder)
            THEN rd' = rd + 1 /\ phase' = "list"
            ELSE phase' = "diff" /\ UNCHANGED rd

\* dir_iostat(gfarm_counterdir + '/' + file): os.listdir(indir).
ListDir ==
    /\ phase = "list"
    /\ MoveOn(Listed(DirOrder[rd]))
    /\ UNCHANGED <<file, filestats, counts, news, labels, ledger>>

\* The end of gfarm_iostat.__init__: gfarm_labels = the column names, and
\* gfarm_0items = zeros if still empty.
ReadLabels == labels' = TRUE

\* gfarm_iostat(indir + '/' + ent) for one listed entry.
ReadEnt(e) ==
    LET d == DirOrder[rd] IN
    /\ phase = "read"
    /\ e \in pend
    /\ ~ReadRaises(d, e)
    /\ news' = [news EXCEPT ![d] = @ @@ (e :> Snap(file[d][e]))]
    /\ ReadLabels
    /\ MoveOn(pend \ {e})
    /\ UNCHANGED <<file, filestats, counts, ledger>>

ReadFail(e) ==
    /\ phase = "read"
    /\ e \in pend
    /\ ReadRaises(DirOrder[rd], e)
    /\ Raise

\* get_filesdiff: a directory with an old snapshot is differenced against
\* it, one without (metric_init's read failed) counts whole.
StatRaises(d) ==
    IF d \in DOMAIN filestats THEN F!DirDiffRaises(filestats[d], news[d])
                              ELSE F!DirSumupRaises(news[d])

Stat(d) ==
    IF d \in DOMAIN filestats THEN F!DirDiff(filestats[d], news[d])
                              ELSE F!DirSumup(news[d])

\* Faulty variant: the group key never enters gfarm_counts.
NewCountsWithoutGroup ==
    [k \in Dirs |->
        IF k \in DOMAIN counts THEN F!AddVals(counts[k], Stat(k)) ELSE Stat(k)]

\* calc_total and the group total of get_stats: prev + diff, or the diff
\* alone while gfarm_counts has no entry for the key.
NewCounts ==
    [k \in Keys |->
        LET delta == IF k = Group THEN F!SumVals(Dirs, Stat) ELSE Stat(k) IN
        IF k \in DOMAIN counts THEN F!AddVals(counts[k], delta) ELSE delta]

\* get_filesdiff and get_stats while gfarm_labels and gfarm_0items are
\* still []: every directory total is [], so every diff and count becomes
\* the empty dict (calc_total of [] as well).
UnlabelledCounts == [k \in Keys |-> <<>>]

\* calc_total(last, stat) reads last[k] for every k of gfarm_labels: a count
\* stored while the labels were [] raises KeyError once they are known.
LabelsMissing == labels /\ \E k \in DOMAIN counts : DOMAIN counts[k] # Items

\* History: snapshots the refresh replaces by another incarnation's, or
\* drops, carry their total into the ledger.
Retired(d) ==
    IF d \in DOMAIN filestats
    THEN SnapTotal([e \in {x \in DOMAIN filestats[d] :
                             x \notin DOMAIN news[d]
                             \/ news[d][x].gen # filestats[d][x].gen}
                      |-> filestats[d][e]])
    ELSE F!ZeroVals

DiffFail ==
    /\ phase = "diff"
    /\ (\E d \in Dirs : StatRaises(d)) \/ LabelsMissing
    /\ Raise

\* get_stats() completes: gfarm_diffs, gfarm_counts and gfarm_filestats
\* are replaced.
Finish ==
    /\ phase = "diff"
    /\ \A d \in Dirs : ~StatRaises(d)
    /\ ~LabelsMissing
    /\ counts' = IF labels THEN NewCounts ELSE UnlabelledCounts
    /\ filestats' = news
    /\ phase' = "idle"
    /\ news' = [d \in Dirs |-> <<>>]
    /\ ledger' = [d \in Dirs |-> F!AddVals(ledger[d], Retired(d))]
    /\ UNCHANGED <<file, rd, pend, labels>>

CollectorNext ==
    \/ StartRefresh \/ ListDir \/ DiffFail \/ Finish
    \/ \E e \in Ents : ReadEnt(e) \/ ReadFail(e)

Next ==
    \/ ProducerNext /\ UNCHANGED <<collectorVars, ledger>>
    \/ CollectorNext

(* gmond calls the metric callbacks on its timer for as long as it runs,   *)
(* and get_stat calls get_stats() again at least once a round (PollGate):  *)
(* the collector is weakly fair.  A producer that created its file goes on *)
(* to write the header.                                                    *)
Spec ==
    /\ Init /\ [][Next]_vars
    /\ WF_vars(CollectorNext)
    /\ \A d \in Dirs, e \in Ents :
         WF_vars(Setup(d, e) /\ UNCHANGED <<collectorVars, ledger>>)

-----------------------------------------------------------------------------
TypeOK ==
    /\ \A d \in Dirs, e \in Ents : P!FileOK(file[d][e])
    /\ DOMAIN filestats \in {{}, Dirs}
    /\ DOMAIN counts \in {{}, Keys}
    /\ \A k \in DOMAIN counts : counts[k] \in [Items -> Int] \cup {<<>>}
    /\ labels \in BOOLEAN
    /\ phase \in {"idle", "list", "read", "diff"}
    /\ rd \in 1 .. Len(DirOrder)
    /\ pend \subseteq Ents

\* Accounting (get_filesdiff, dir_iostat.diff, gfarm_iostat.diff): the
\* count of a directory is what its current snapshots hold, plus what each
\* incarnation that has since restarted or vanished held when last read,
\* less what metric_init's snapshots held; the group count is the sum of
\* the directory counts.  Restart detection by s_start_sec, row-by-row
\* differencing and whole counting of grown rows and new entities must
\* telescope to this for every interleaving of producers and refreshes.
\* gfarm_counts holds a value for every key and label.
Counted == DOMAIN counts = Keys /\ \A k \in Keys : DOMAIN counts[k] = Items

CountsMatchLedger ==
    Counted =>
      /\ \A d \in Dirs :
           counts[d] = F!AddVals(ledger[d], SnapTotal(filestats[d]))
      /\ counts[Group] = F!SumVals(Dirs, LAMBDA d : counts[d])

\* The descriptors declare 'slope': 'positive' and 'value_type': 'uint':
\* no refresh lowers the value gfarm_counts holds for a key and label.
CountsMonotone ==
    [][Counted =>
         \A k \in Keys, l \in Items : counts'[k][l] >= counts[k][l]]_counts

\* Once the producers stop, the collector's snapshots eventually match the
\* files and stay so: no file keeps every get_stats() from completing.
CollectorView ==
    DOMAIN filestats = Dirs /\ \A d \in Dirs : filestats[d] = DirView(d)

\* Eventually no producer step changes a file any more.
ProducersQuiet == <>[][FALSE]_file

EventuallyCurrent == ProducersQuiet => <>[]CollectorView

=============================================================================
