----------------------------- MODULE GfiostatCli -----------------------------
(***************************************************************************)
(* util/ganglia/gfiostat.py: reads one counter file, then Iters times      *)
(* reads it again and, when the read gives a valid object, prints it, its  *)
(* sumup(0) and old.diff(stat), and keeps it as old.  The file's producer  *)
(* runs between the reads (module IostatProducer).                         *)
(*                                                                         *)
(* The reader of gfiostat.py differs from gfarm_iostat.py's: a failed      *)
(* open() is logged and leaves an invalid object (file = ''), and there is *)
(* no magic check.  Reading a file whose header is not written yet copies  *)
(* a short buffer with memmove: undefined, so the process faults, or the  *)
(* garbage header makes the array types of the next reads raise (their     *)
(* handler calls logging.execption, which does not exist, and that raises  *)
(* AttributeError out of __init__), or the object holds garbage (Junk).    *)
(* A Python exception anywhere ends the process (crashed, with the cause). *)
(***************************************************************************)
EXTENDS Integers

CONSTANTS
    Items, RowMax0, MaxRows, MaxVal, MaxGen, RowsAllWritten, SameSecondRestart,
    Iters      \* iterations of the loop (range(1, 100) in the code)

ASSUME Iters \in Nat \ {0}

F == INSTANCE IostatFile

P == INSTANCE IostatProducer

VARIABLES
    cf,      \* the counter file
    old,     \* the object the last valid read gave (or the first read)
    i,       \* iterations done
    pc,      \* "loop", "done" or "crashed"
    cause,   \* why the process ended, when it crashed
    out      \* history: the last snapshot pair whose diff was printed

vars == <<cf, old, i, pc, cause, out>>

Causes == {"none", "read", "handler", "rows", "old_invalid", "junk"}

\* The outcomes of a read: the object a failed open() leaves, garbage read
\* from a file whose header is not written, the process faulting inside the
\* read, an exception raised inside the try of the reads, or a snapshot.
Invalid == [k |-> "invalid"]

Junk == [k |-> "junk"]

Died == [k |-> "died"]

ReadError == [k |-> "read_error"]

NoOut == [k |-> "none"]

Snap(f) == [k |-> "snap", start |-> f.start, rowmax |-> f.rowmax, row |-> f.row,
            vals |-> f.vals, gen |-> f.gen]

\* gfarm_iostat(infile): what a read of file f can give.
Reads(f) ==
    CASE f.st = "absent" -> {Invalid}
      [] f.st = "raw"    -> {Died, ReadError, Junk}
      [] f.st = "ok"     -> {Snap(f)}

\* isvalid(): false only for the object a failed open() leaves.
IsValid(o) == o # Invalid

\* gfiostat.py's diff and diffitems are a copy of gfarm_iostat.py's, with
\* the same getrow: the operators of IostatFile.
CliDiffRaises(o, n) == F!DiffRaises(o, n)

CliDiff(o, n) == F!Diff(o, n)

\* The except clause of the reads: logging.execption('sread') raises
\* AttributeError before fd.close() and return.
ReadErrorCause == "handler"

\* print stat and stat.sumup(0): __str__ and sumup unpack getrow(j) for
\* every j < s_rowmax.
StrRaises(s) == F!SumupRaises(s, 0)

Init ==
    /\ cf \in P!FileInit
    /\ \E o \in Reads(cf) :
         CASE o = Died      -> old = Invalid /\ pc = "crashed" /\ cause = "read"
           [] o = ReadError -> old = Invalid /\ pc = "crashed"
                               /\ cause = ReadErrorCause
           [] OTHER         -> old = o /\ pc = "loop" /\ cause = "none"
    /\ i = 0
    /\ out = NoOut

\* The producer writes the file between two reads.
Produce ==
    /\ pc = "loop"
    /\ \E g \in P!CreateNext(cf) \cup P!RestartNext(cf) \cup P!SetupNext(cf)
                \cup P!RemoveNext(cf) \cup P!AllocRowNext(cf)
                \cup P!GrowNext(cf) \cup P!IncNext(cf) :
         cf' = g
    /\ UNCHANGED <<old, i, pc, cause, out>>

Crash(c) == pc' = "crashed" /\ cause' = c /\ UNCHANGED <<old, out>>

\* One iteration of the loop.
Poll ==
    /\ pc = "loop"
    /\ i' = i + 1
    /\ \E stat \in Reads(cf) :
         CASE stat = Died -> Crash("read")
           [] stat = ReadError -> Crash(ReadErrorCause)
           [] ~IsValid(stat) ->
                \* isvalid() is false: nothing printed, old kept
                /\ pc' = IF i + 1 = Iters THEN "done" ELSE "loop"
                /\ UNCHANGED <<old, cause, out>>
           [] stat = Junk \/ old = Junk ->
                \* garbage printed, or the process dies on it
                \/ Crash("junk")
                \/ ~IsValid(old) /\ Crash("old_invalid")
                \/ /\ IsValid(old)
                   /\ old' = stat /\ out' = NoOut
                   /\ pc' = IF i + 1 = Iters THEN "done" ELSE "loop"
                   /\ UNCHANGED cause
           [] OTHER ->
                IF StrRaises(stat) THEN Crash("rows")
                ELSE IF ~IsValid(old) THEN Crash("old_invalid")
                ELSE IF CliDiffRaises(old, stat) THEN Crash("rows")
                ELSE /\ out' = [k |-> "diff", old |-> old, new |-> stat]
                     /\ old' = stat
                     /\ pc' = IF i + 1 = Iters THEN "done" ELSE "loop"
                     /\ UNCHANGED cause
    /\ UNCHANGED cf

Next == Produce \/ Poll

Spec == Init /\ [][Next]_vars

-----------------------------------------------------------------------------
\* What the producer added between the two reads: the growth of the total
\* within one incarnation, or the whole total of a new one.
Increments(o, n) ==
    IF n.gen = o.gen THEN [l \in Items |-> F!Total(n)[l] - F!Total(o)[l]]
                     ELSE F!Total(n)

\* The diff= line gfiostat prints equals what the producer added since the
\* previous valid read, across ring growth and producer restarts.
DiffShowsIncrements ==
    out # NoOut => CliDiff(out.old, out.new) = Increments(out.old, out.new)

\* The isvalid() guard lets the inspector skip reads of a missing file; a
\* file missing at the first read must not end the process later.
NoCrashOnInvalidOld == cause # "old_invalid"

\* gfarm_iostat.__init__ wraps the reads in a try whose handler logs and
\* returns an invalid object, as for a failed open(): a file that cannot be
\* read must be skipped like a missing one, not end the inspector.
NoCrashOnReadError == cause # "handler"

=============================================================================
