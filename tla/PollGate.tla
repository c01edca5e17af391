------------------------------ MODULE PollGate ------------------------------
(***************************************************************************)
(* get_stat(name) of util/ganglia/gfarm_iostat.py: the per-metric callback *)
(* the scheduler calls once for every descriptor of a round, in the order  *)
(* metric_init() registered them.  The module-level counter ntimes decides *)
(* which call re-runs get_stats(): the one that finds ntimes % N = 0, with *)
(* N = len(descriptors).                                                   *)
(*                                                                         *)
(* get_stats() is abstracted to its two outcomes (module IostatCollector   *)
(* models what it computes): it completes, replacing gfarm_counts by a new *)
(* refresh, or it raises before assigning any global.  ntimes is kept      *)
(* modulo N: the code only ever reads ntimes % N.                          *)
(*                                                                         *)
(* Ghost variables: epoch names the refresh gfarm_counts comes from (two   *)
(* values suffice, since every completed refresh is read by the call that *)
(* ran it); served, refreshes and failed record the current round, and     *)
(* lastRound the round completed last.                                     *)
(***************************************************************************)
EXTENDS Integers, Sequences, FiniteSets

LOCAL INSTANCE SequencesExt

CONSTANTS
    Server,         \* gfarm_server, from the 'gfarm-server' parameter
    Listing,        \* os.listdir(gfarm_counterdir), in the order it lists
    ServerEntries,  \* the entries whose name starts with 'iostat-' + gfarm_server
    Group,          \* 'iostat-' + gfarm_server + iostat_label
    CanFail         \* whether a get_stats() call may raise

\* list_files(): the entries of the server, each once, in listing order.
ListFiles ==
    FoldLeft(LAMBDA files, ent :
                 IF ent \in ServerEntries /\ ent \notin Range(files)
                 THEN Append(files, ent) ELSE files,
             <<>>, Listing)

\* The keys of metric_init's descriptions: one label for gfmd, four for a
\* gfsd, in the order dict iteration gives (the properties below do not
\* depend on it).
LabelOrder ==
    IF Server = "gfmd" THEN <<"ntran">>
                       ELSE <<"rcount", "wcount", "rbytes", "wbytes">>

\* metric_init returns before registering any descriptor when list_files()
\* finds no entry: get_stat is then never called.
ASSUME /\ Len(ListFiles) > 0
       /\ \A i \in 1 .. Len(ListFiles) : ListFiles[i] # Group
       /\ CanFail \in BOOLEAN

VARIABLES
    ntimes,     \* the call counter, modulo N
    pos,        \* the index of the descriptor the scheduler queries next
    epoch,      \* history: the refresh gfarm_counts holds
    hasCounts,  \* gfarm_counts holds a completed refresh
    outcome,    \* what the last get_stat call did
    served,     \* history: epochs values of this round were read from
    refreshes,  \* history: refreshes completed in this round
    failed,     \* history: a call of this round raised
    lastRound   \* history: the record of the round completed last

vars == <<ntimes, pos, epoch, hasCounts, outcome, served, refreshes, failed,
          lastRound>>

\* metric_init: files is gfarm_files, plus the group key when there are
\* several; one descriptor per label and file, label by label.
Files == IF Len(ListFiles) > 1 THEN Append(ListFiles, Group) ELSE ListFiles

\* The i-th descriptor: its name is file + '_' + label, which get_stat
\* splits again at the last '_' (no label holds one).
Descriptor(i) ==
    [file  |-> Files[((i - 1) % Len(Files)) + 1],
     label |-> LabelOrder[((i - 1) \div Len(Files)) + 1]]

\* len(descriptors)
N == Len(LabelOrder) * Len(Files)

\* The keys get_stats() writes to gfarm_counts: one per file of
\* gfarm_files (get_filesdiff) and the group key 'iostat-' + gfarm_server +
\* iostat_label.
CountKeys == ToSet(ListFiles) \cup {Group}

Outcomes == {"none", "value", "fallback", "raised"}

Init ==
    /\ ntimes = 0
    /\ pos = 1
    /\ epoch = 0
    /\ hasCounts = FALSE
    /\ outcome = "none"
    /\ served = {}
    /\ refreshes = 0
    /\ failed = FALSE
    /\ lastRound = [refreshes |-> 1, failed |-> FALSE, epochs |-> {}]

\* Faulty variant: the round ends one call after the last descriptor.
EndCallLate(r, f, s) ==
    IF pos = N + 1
    THEN /\ pos' = 1
         /\ lastRound' = [refreshes |-> refreshes + r, failed |-> failed \/ f,
                          epochs |-> served \cup s]
         /\ refreshes' = 0 /\ failed' = FALSE /\ served' = {}
    ELSE /\ pos' = pos + 1
         /\ refreshes' = refreshes + r
         /\ failed' = (failed \/ f)
         /\ served' = served \cup s
         /\ UNCHANGED lastRound

\* The scheduler moves to the next descriptor; after the last one the
\* round is complete and the next round starts at the first.
EndCall(r, f, s) ==
    IF pos = N
    THEN /\ pos' = 1
         /\ lastRound' = [refreshes |-> refreshes + r, failed |-> failed \/ f,
                          epochs |-> served \cup s]
         /\ refreshes' = 0 /\ failed' = FALSE /\ served' = {}
    ELSE /\ pos' = pos + 1
         /\ refreshes' = refreshes + r
         /\ failed' = (failed \/ f)
         /\ served' = served \cup s
         /\ UNCHANGED lastRound

\* Faulty variant: the counter advanced only on calls that did not refresh.
AdvanceOnlyUndue(raised) ==
    ntimes' = IF raised \/ ntimes = 0 THEN ntimes ELSE (ntimes + 1) % N

\* Faulty variant: the counter advanced whether or not get_stats() raised.
AdvanceAlways(raised) == ntimes' = (ntimes + 1) % N

\* ntimes += 1 follows the call of get_stats(), outside any try: a call in
\* which get_stats() raised leaves the counter where it was.
Advance(raised) == ntimes' = IF raised THEN ntimes ELSE (ntimes + 1) % N

\* get_stat(name) on a call that runs get_stats() and get_stats() raises:
\* the exception leaves get_stat before the lookup and its try.
GetStatRaises ==
    /\ CanFail
    /\ ntimes = 0
    /\ Advance(TRUE)
    /\ outcome' = "raised"
    /\ UNCHANGED <<epoch, hasCounts>>
    /\ EndCall(0, TRUE, {})

\* get_stat(name) otherwise: a due refresh completes, the counter advances,
\* and int(gfarm_counts[file][label]) is returned; when the lookup raises
\* (gfarm_counts holds no refresh yet, or no key for the file) the except
\* clause logs a warning and returns 0.
GetStat ==
    LET due == ntimes = 0 IN
    /\ Advance(FALSE)
    /\ epoch' = IF due THEN 1 - epoch ELSE epoch
    /\ hasCounts' = (hasCounts \/ due)
    /\ outcome' = IF hasCounts' /\ Descriptor(pos).file \in CountKeys
                  THEN "value" ELSE "fallback"
    /\ EndCall(IF due THEN 1 ELSE 0, FALSE, IF hasCounts' THEN {epoch'} ELSE {})

Next == GetStatRaises \/ GetStat

\* gmond keeps calling the callbacks on its timer.
Spec == Init /\ [][Next]_vars /\ WF_vars(Next)

-----------------------------------------------------------------------------
TypeOK ==
    /\ ntimes \in 0 .. N - 1
    /\ pos \in 1 .. N
    /\ epoch \in {0, 1}
    /\ hasCounts \in BOOLEAN
    /\ outcome \in Outcomes
    /\ served \subseteq {0, 1}
    /\ refreshes \in 0 .. N
    /\ lastRound \in [refreshes : 0 .. N, failed : BOOLEAN, epochs : SUBSET {0, 1}]

\* The throttle of get_stat: every file is re-read at most once per round of
\* the scheduler, and exactly once in a round in which no call raised, also
\* after earlier failures have moved the refresh to another descriptor.
OneRefreshPerRound ==
    /\ lastRound.refreshes <= 1
    /\ ~lastRound.failed => lastRound.refreshes = 1

\* get_stat's except clause (a warning and 0) is for an unknown key; no
\* call reaches it, because a call that finds no refresh in gfarm_counts
\* runs one and every descriptor's file is a key get_stats() writes.
NoLookupFallback == outcome # "fallback"

\* Spec (PollCycleGate): the refresh runs at the start of each round, so the
\* values the scheduler reads in one round come from one refresh.
RoundFromOneRefresh == Cardinality(lastRound.epochs) <= 1

=============================================================================
