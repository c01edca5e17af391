----------------------------- MODULE IostatModule -----------------------------
(***************************************************************************)
(* util/ganglia/gfarm_iostat.py as gmond runs it: the get_stat callback    *)
(* (module PollGate) calls the real get_stats() (module IostatCollector),  *)
(* while the gfarm daemons write the counter files.  metric_init's         *)
(* list_files() gives both the descriptors and the directories get_stats() *)
(* reads, and the descriptions table gives the counter labels.             *)
(*                                                                         *)
(* A get_stat call whose turn it is to refresh is no longer one step: it   *)
(* starts get_stats(), whose listing and reads interleave with the         *)
(* producers, and it returns when get_stats() returns or raises.  Whether  *)
(* a refresh raises is now decided by the files, not chosen freely.        *)
(***************************************************************************)
EXTENDS Integers, Sequences

LOCAL INSTANCE SequencesExt

CONSTANTS
    Server, Listing, ServerEntries, Group,
    Ents, RowMax0, MaxRows, MaxVal, MaxGen, RowsAllWritten, SameSecondRestart,
    StartedEmpty

\* PollGate takes a completed refresh to fill gfarm_counts, which holds only
\* once a file has been read (IostatCollector's labels): the composition
\* starts from a metric_init that read one.
ASSUME StartedEmpty = FALSE

VARIABLES
    \* get_stats() and the files (IostatCollector)
    file, filestats, counts, phase, rd, pend, news, labels, ledger,
    \* get_stat and the scheduler (PollGate)
    ntimes, pos, epoch, outcome, served, refreshes, failed, lastRound

colVars == <<filestats, counts, phase, rd, pend, news, labels, ledger>>
gateVars == <<ntimes, pos, epoch, outcome, served, refreshes, failed, lastRound>>
vars == <<file, colVars, gateVars>>

\* get_stat's lookup finds a refresh in gfarm_counts exactly when it is not
\* the initial empty dict (with labels read at metric_init, a completed
\* refresh writes every key and label).
G == INSTANCE PollGate WITH CanFail <- TRUE, hasCounts <- (counts # <<>>)

C == INSTANCE IostatCollector
        WITH Items <- ToSet(G!LabelOrder), Dirs <- ToSet(G!ListFiles),
             DirOrder <- G!ListFiles

Init == C!Init /\ G!Init

\* get_stat(name) when ntimes % N # 0: the lookup alone.
Query ==
    /\ phase = "idle"
    /\ ntimes # 0
    /\ UNCHANGED <<file, colVars>>
    /\ G!GetStat

\* get_stat(name) when ntimes % N = 0 calls get_stats().
QueryRefresh ==
    /\ ntimes = 0
    /\ C!StartRefresh
    /\ UNCHANGED gateVars

\* Inside get_stats(): a directory listed or an entry read.
Refreshing ==
    /\ C!ListDir \/ \E e \in Ents : C!ReadEnt(e)
    /\ UNCHANGED gateVars

\* get_stats() returns: ntimes advances and the value is looked up.
RefreshDone == C!Finish /\ G!GetStat

\* get_stats() raises: the exception leaves get_stat before ntimes += 1.
RefreshRaised ==
    /\ C!DiffFail \/ \E e \in Ents : C!ReadFail(e)
    /\ G!GetStatRaises

Produce == C!ProducerNext /\ UNCHANGED <<colVars, gateVars>>

ModuleNext == Query \/ QueryRefresh \/ Refreshing \/ RefreshDone \/ RefreshRaised

Next == Produce \/ ModuleNext

(* gmond calls the callbacks on its timer and get_stats() runs to its end: *)
(* the module is weakly fair; a producer that created its file writes its  *)
(* header.                                                                 *)
Spec ==
    /\ Init /\ [][Next]_vars
    /\ WF_vars(ModuleNext)
    /\ \A d \in ToSet(G!ListFiles), e \in Ents :
         WF_vars(C!Setup(d, e) /\ UNCHANGED <<colVars, gateVars>>)

-----------------------------------------------------------------------------
TypeOK == C!TypeOK /\ G!TypeOK

\* PollGate's throttle where a refresh fails when the files make it fail:
\* each round refreshes at most once, exactly once when no call raised.
OneRefreshPerRound == G!OneRefreshPerRound

\* No call falls back to the 0 of get_stat's except clause: a call that
\* finds gfarm_counts empty refreshes, and every descriptor metric_init
\* registered has its key among those get_stats() writes.
NoLookupFallback == G!NoLookupFallback

\* Once the daemons stop changing their files, the retries of get_stat
\* (ntimes stays at the refresh point while get_stats() raises) make a
\* refresh complete: from then on the snapshots match the files and every
\* call returns a value of gfarm_counts.  It holds where the files end up
\* readable: with a file whose rows are not all written every refresh
\* raises for ever (run unwritten_rows_stall), so configurations that check
\* it have every row written.
EventuallyServesCurrent ==
    C!ProducersQuiet => <>[](C!CollectorView /\ outcome = "value")

=============================================================================
