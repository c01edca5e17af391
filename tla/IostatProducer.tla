---------------------------- MODULE IostatProducer ----------------------------
(***************************************************************************)
(* The life of one counter file as the gfarm daemons (gfmd, gfsd) write    *)
(* it.  The daemons are not in this repository: this is the file lifecycle *)
(* the readers of util/ganglia expect.  A file is a record                 *)
(*   st     : "absent", "raw" (created, header not written yet) or "ok"    *)
(*   start, rowmax, row, vals : the header fields and rows of a snapshot   *)
(*            (see IostatFile)                                             *)
(*   gen    : history, the incarnation number                              *)
(* Each operator XNext(f) is the set of records step X can leave f in:     *)
(* empty where the step is not possible.                                   *)
(***************************************************************************)
EXTENDS Integers, Functions, TLC

CONSTANTS
    Items,             \* the counter columns
    RowMax0,           \* s_rowmax a producer gives a new file
    MaxRows,           \* bound on s_rowmax after the ring grows
    MaxVal,            \* bound on one counter slot
    MaxGen,            \* bound on the incarnations of one file
    RowsAllWritten,    \* producers declare all rows written (s_row = s_rowmax)
    SameSecondRestart  \* a new incarnation may start in the second its
                       \* predecessor started

ASSUME /\ RowMax0 \in Nat \ {0} /\ MaxRows \in Nat /\ RowMax0 <= MaxRows
       /\ MaxVal \in Nat /\ MaxGen \in Nat
       /\ RowsAllWritten \in BOOLEAN /\ SameSecondRestart \in BOOLEAN

States == {"absent", "raw", "ok"}

Row == [Items -> 0 .. MaxVal]

ZeroRow == [l \in Items |-> 0]

\* A file that is gone or not initialised: no row of it can be read; only
\* the start second and incarnation number of its last header matter.
Blank(f, st) == [f EXCEPT !.st = st, !.rowmax = 0, !.row = 0, !.vals = <<>>]

\* s_start_sec of the next incarnation: seconds only move forward, and a
\* new incarnation starts in a later second than the one it replaces
\* unless SameSecondRestart.
NextStarts(f) == {f.start + 1} \cup (IF SameSecondRestart THEN {f.start} ELSE {})

\* A freshly initialised file started in second t.
Fresh(f, t) == [f EXCEPT !.st = "ok", !.start = t, !.gen = f.gen + 1,
                         !.rowmax = RowMax0,
                         !.row = IF RowsAllWritten THEN RowMax0 ELSE 0,
                         !.vals = [i \in 0 .. RowMax0 - 1 |-> ZeroRow]]

\* The files a reader can find when it starts.
FileInit ==
    [st: {"absent", "raw"}, start: {0}, gen: {0}, rowmax: {0}, row: {0},
     vals: {<<>>}]
    \cup
    [st: {"ok"}, start: {0}, gen: {1}, rowmax: {RowMax0},
     row: IF RowsAllWritten THEN {RowMax0} ELSE 0 .. RowMax0,
     vals: [0 .. RowMax0 - 1 -> Row]]

\* The file is created (or re-created on a restart) before its header is
\* written: until then it fails the magic check.
CreateNext(f) ==
    IF f.st = "absent" /\ f.gen < MaxGen THEN {Blank(f, "raw")} ELSE {}

RestartNext(f) ==
    IF f.st = "ok" /\ f.gen < MaxGen THEN {Blank(f, "raw")} ELSE {}

\* The producer process writes the header: magic, s_start_sec and zeroed
\* rows.
SetupNext(f) ==
    IF f.st = "raw" THEN {Fresh(f, t) : t \in NextStarts(f)} ELSE {}

RemoveNext(f) == IF f.st # "absent" THEN {Blank(f, "absent")} ELSE {}

AllocRowNext(f) ==
    IF f.st = "ok" /\ f.row < f.rowmax THEN {[f EXCEPT !.row = @ + 1]} ELSE {}

\* The ring gets one more, zeroed, row.
GrowNext(f) ==
    IF f.st = "ok" /\ f.rowmax < MaxRows
    THEN LET r == f.rowmax + 1 IN
         {[f EXCEPT !.rowmax = r,
                    !.row = IF RowsAllWritten THEN r ELSE @,
                    !.vals = @ @@ ((r - 1) :> ZeroRow)]}
    ELSE {}

IncNext(f) ==
    IF f.st = "ok"
    THEN {[f EXCEPT !.vals[i][l] = @ + 1] :
            <<i, l>> \in {<<i, l>> \in (0 .. f.row - 1) \X Items :
                            f.vals[i][l] < MaxVal}}
    ELSE {}

\* TypeOK of one file.
FileOK(f) ==
    /\ f.st \in States
    /\ f.gen \in 0 .. MaxGen
    /\ f.row \in 0 .. f.rowmax
    /\ f.rowmax \in 0 .. MaxRows

=============================================================================
