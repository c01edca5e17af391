----------------------------- MODULE IostatFile -----------------------------
(***************************************************************************)
(* One gfarm iostat counter file as parsed by class gfarm_iostat of        *)
(* util/ganglia/gfarm_iostat.py, and the per-directory aggregate of class  *)
(* dir_iostat.  Pure operators: no VARIABLES.                              *)
(*                                                                         *)
(* A snapshot (the fields of a gfarm_iostat object after __init__ returns) *)
(* is a record                                                             *)
(*   start  : s_start_sec of the header                                    *)
(*   rowmax : s_rowmax, the number of row slots read into aitems           *)
(*   row    : s_row, the bound getrow() checks                             *)
(*   vals   : [0 .. rowmax-1 -> [Items -> Nat]], the counter slots of each *)
(*            row (the leading marker slot is never used in arithmetic)    *)
(*   gen    : a history field, not in the file: which incarnation of the   *)
(*            producer wrote it.  No operator of the code reads it.        *)
(* Rows are taken as laid out with stride s_ncolumn = s_nitem + 1, the     *)
(* only stride the producer writes, so getrow(i) returns exactly vals[i].  *)
(*                                                                         *)
(* Python evaluation can raise where the code unpacks the None that        *)
(* getrow() returns for an index at or past s_row.  Every operator F that  *)
(* can raise has a companion FRaises saying when it does.                  *)
(***************************************************************************)
EXTENDS Integers, FiniteSets, Functions

CONSTANT Items      \* the column specs of the file (s_nitem of them)

ASSUME Items # {}

\* newvals(): a zero per item.
ZeroVals == [l \in Items |-> 0]

\* Elementwise sum of two value vectors: map(lambda x,y: x+y, t, v).
AddVals(a, b) == [l \in Items |-> a[l] + b[l]]

\* Elementwise sum of F(x) over a finite set of x.
SumVals(S, F(_)) ==
    [l \in Items |-> SumFunctionOnSet([x \in S |-> F(x)[l]], S)]

\* getrow(row): no such row when row >= s_row, else the row's counters.
HasRow(s, i) == i < s.row

\* sumup(inx): counters of rows inx .. s_rowmax-1 added up.  The loop
\* unpacks getrow(j) for every such j, so it raises when one is missing.
SumupRaises(s, inx) == \E j \in inx .. s.rowmax - 1 : ~HasRow(s, j)

Sumup(s, inx) == SumVals(inx .. s.rowmax - 1, LAMBDA j : s.vals[j])

\* Faulty variant: the operands of diffitems swapped.
DiffItemsSwapped(o, n) == [l \in Items |-> o[l] - n[l]]

\* diffitems(o, n): n - o, elementwise, with no clamping at zero.
DiffItems(o, n) == [l \in Items |-> n[l] - o[l]]

Restarted(old, new) == new.start > old.start

Grown(old, new) == new.rowmax > old.rowmax

Upto(old, new) == IF Grown(old, new) THEN old.rowmax ELSE new.rowmax

\* Faulty variant: the rows a grown ring added are not counted.
ExtraDropped(old, new) == ZeroVals

Extra(old, new) == IF Grown(old, new) THEN Sumup(new, old.rowmax) ELSE ZeroVals

\* Faulty variant: the row loop runs one row past upto.
DiffRaisesPastUpto(old, new) ==
    IF Restarted(old, new)
    THEN SumupRaises(new, 0)
    ELSE \/ Grown(old, new) /\ SumupRaises(new, old.rowmax)
         \/ \E i \in 0 .. Upto(old, new) : ~HasRow(old, i) \/ ~HasRow(new, i)

DiffRaises(old, new) ==
    IF Restarted(old, new)
    THEN SumupRaises(new, 0)
    ELSE \/ Grown(old, new) /\ SumupRaises(new, old.rowmax)
         \/ \E i \in 0 .. Upto(old, new) - 1 : ~HasRow(old, i) \/ ~HasRow(new, i)

Diff(old, new) ==
    IF Restarted(old, new)
    THEN Sumup(new, 0)
    ELSE AddVals(Extra(old, new),
                 SumVals(0 .. Upto(old, new) - 1,
                         LAMBDA i : DiffItems(old.vals[i], new.vals[i])))

(***************************************************************************)
(* dir_iostat: a directory snapshot is a function from the entries         *)
(* os.listdir() returned to their snapshots.                               *)
(***************************************************************************)

\* dir_iostat.sumup(): every entity's sumup(0), added up.
DirSumupRaises(ds) == \E e \in DOMAIN ds : SumupRaises(ds[e], 0)

DirSumup(ds) == SumVals(DOMAIN ds, LAMBDA e : Sumup(ds[e], 0))

\* dir_iostat.diff(news): an entity seen before is differenced against its
\* old snapshot, a new one counts whole; entities gone from news add nothing.
EntDiffRaises(olds, news, e) ==
    IF e \in DOMAIN olds THEN DiffRaises(olds[e], news[e])
                         ELSE SumupRaises(news[e], 0)

EntDiff(olds, news, e) ==
    IF e \in DOMAIN olds THEN Diff(olds[e], news[e]) ELSE Sumup(news[e], 0)

DirDiffRaises(olds, news) == \E e \in DOMAIN news : EntDiffRaises(olds, news, e)

DirDiff(olds, news) == SumVals(DOMAIN news, LAMBDA e : EntDiff(olds, news, e))

\* The sum of every counter of every row: the reference total of a snapshot.
Total(s) == SumVals(DOMAIN s.vals, LAMBDA i : s.vals[i])

=============================================================================
