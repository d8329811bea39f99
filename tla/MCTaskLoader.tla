----------------------------- MODULE MCTaskLoader -----------------------------
(***************************************************************************)
(* Pairs of CSV files for TLC: every way three rows can depend on one      *)
(* another, written plainly; and a few tables written in several styles,   *)
(* and spoiled in several ways.                                            *)
(***************************************************************************)
EXTENDS TaskLoader

MCTaskIds == 1 .. 3
MCAddresses == {0, 64}

Row(id, executions, deps) ==
    [id |-> id, executions |-> executions, deps |-> deps]

(* Row of ops.csv: the task, seq_idx and the operation.                    *)
C(id, seq, cycles) == [id |-> id, seq |-> seq, type |-> "Compute",
                       cycles |-> cycles, address |-> 0]
M(id, seq, address) == [id |-> id, seq |-> seq, type |-> "Memory",
                        cycles |-> 0, address |-> address]

-----------------------------------------------------------------------------
(* WRITING                                                                 *)
TaskHeader == <<"id", "name", "executions", "deps">>
OpHeader == <<"task_id", "seq_idx", "type", "cycles", "address", "rw">>

Words(names) == [k \in DOMAIN names |-> <<Word(names[k])>>]

(* Cells, before a style is applied.                                       *)
TaskCells(row_) ==
    <<<<Num(row_.id)>>, <<Word("task")>>, <<Num(row_.executions)>>,
      FlattenSeq([k \in DOMAIN row_.deps |->
                     IF k = 1 THEN <<Num(row_.deps[k])>>
                     ELSE <<Semicolon, Num(row_.deps[k])>>])>>

OpCells(op) ==
    <<<<Num(op.id)>>, <<Num(op.seq)>>>>
    \o IF op.type = "Compute"
       THEN <<<<Word("compute")>>, <<Num(op.cycles)>>, <<>>, <<>>>>
       ELSE <<<<Word("mem")>>, <<Num(0)>>,
              IF op.address = 0 THEN <<>> ELSE <<Hex(op.address)>>, <<Word("R")>>>>

Line(cells) ==
    FlattenSeq([k \in DOMAIN cells |->
                   IF k = 1 THEN cells[k] ELSE <<Comma>> \o cells[k]])

(* A style changes the cells of a line, and says what stands between lines. *)
Plain(cells) == cells
Quoted(cells) == [k \in DOMAIN cells |-> <<Quote>> \o cells[k] \o <<Quote>>]
Named(cells) ==   \* a note, of a column that is not read, with a comma
    IF cells[1][1][1] = "word" THEN Append(cells, <<Word("note")>>)
    ELSE Append(cells, <<Quote, Word("a"), Comma, Blank, Word("b"), Quote>>)
Spaced(cells) == [k \in DOMAIN cells |-> <<Blank>> \o cells[k] \o <<Blank, Blank>>]
Reversed(cells) == Reverse(cells)
Doubled(cells) == <<<<Word("id")>>>> \o cells   \* an "id" that does not count

Styled(style, cells) ==
    CASE style = "plain" -> Plain(cells)
      [] style = "quoted" -> Quoted(cells)
      [] style = "named" -> Named(cells)
      [] style = "spaced" -> Spaced(cells)
      [] style = "reversed" -> Reversed(cells)
      [] style = "doubled" -> Doubled(cells)

Styles == {"plain", "quoted", "named", "spaced", "reversed", "doubled"}

FileOf(style, header, rows) ==
    LET gap == IF style = "spaced" THEN <<<<>>, <<Blank>>>> ELSE <<>>
    IN  <<Line(Styled(style, Words(header)))>>
        \o FlattenSeq([k \in DOMAIN rows |->
                          Append(gap, Line(Styled(style, rows[k])))])

Written(style, table) ==
    <<FileOf(style, TaskHeader,
             [k \in DOMAIN table.tasks |-> TaskCells(table.tasks[k])]),
      FileOf(style, OpHeader,
             [k \in DOMAIN table.ops |-> OpCells(table.ops[k])])>>

-----------------------------------------------------------------------------
(* TABLES                                                                  *)
Table(tasks, ops) == [tasks |-> tasks, ops |-> ops]

DepLists == BoundedSeq(MCTaskIds, 2)

Graphs ==
    {Table([r \in 1 .. 3 |-> Row(ids[r], 1, d[r])], <<>>) :
        ids \in {<<1, 2, 3>>, <<3, 1, 3>>}, d \in [1 .. 3 -> DepLists]}

(* Two tasks, the operations of the second out of order, with gaps in      *)
(* seq_idx, two of them with the same, one that takes a negative number of *)
(* cycles, and one of a task without a row.                                *)
Tables ==
    {Table(<<Row(2, 1, <<>>), Row(ids, 2, <<2, 1, 3>>)>>, ops) :
        ids \in {1, 2},
        ops \in {<<>>,
                 <<C(1, 2, 7), M(1, 0, 64), C(2, 0, 5), C(1, 1, -6)>>,
                 <<M(2, 9, 0), C(2, 4, 8), C(3, 0, 1), M(2, -1, 64)>>,
                 <<C(1, 1, 4), C(1, 0, 5), C(1, 1, 6), C(2, 1, 0)>>}}

Examples == {[files |-> Written(s, t), table |-> t] : s \in Styles, t \in Tables}

(* One line too short or too long, a quote that is not closed, a missing   *)
(* column, a word for a number, an unknown type, a mem without rw, nothing *)
(* at all: each in one of the two files of a good pair.                    *)
SpoiledTasks(t) ==
    {<<>>,
     [t EXCEPT ![2] = @ \o <<Comma>>],
     [t EXCEPT ![2] = SubSeq(@, 3, Len(@))],
     [t EXCEPT ![2] = <<Quote>> \o @],
     [t EXCEPT ![1][7] = Word("needs")],
     [t EXCEPT ![2][1] = Word("one")],
     [t EXCEPT ![2][5] = Word("many")],
     Append(t, Line(TaskCells(Row(1, 1, <<1>>))) \o <<Semicolon, Word("x")>>)}

SpoiledOps(o) ==
    {<<>>,
     [o EXCEPT ![1][9] = Word("where")],
     [o EXCEPT ![2][1] = Word("one")],
     [o EXCEPT ![2][3] = Word("first")],
     Append(o, <<Num(1), Comma, Num(0), Comma, Word("add"), Comma, Num(1),
                 Comma, Comma>>),
     Append(o, <<Num(1), Comma, Num(0), Comma, Word("mem"), Comma, Num(0),
                 Comma, Hex(64), Comma>>),
     Append(o, <<Num(1), Comma, Num(0), Comma, Word("compute"), Comma, Num(1)>>),
     Append(o, <<Num(1), Comma, Num(0), Comma, Word("compute"), Comma, Comma,
                 Comma>>),
     Append(o, <<Num(1), Comma, Num(0), Comma, Word("mem"), Comma, Num(0),
                 Comma, Word("x"), Comma, Word("R")>>)}

Good == Written("plain", Table(<<Row(1, 1, <<>>), Row(2, 1, <<1>>)>>,
                               <<C(1, 0, 1), M(2, 0, 64)>>))

Spoiled ==
    {<<t, Good[2]>> : t \in SpoiledTasks(Good[1])}
        \cup {<<Good[1], o>> : o \in SpoiledOps(Good[2])}

MCFiles ==
    {Written("plain", t) : t \in Graphs}
        \cup {e.files : e \in Examples}
        \cup Spoiled

-----------------------------------------------------------------------------
(* Whatever the style a table is written in, its rows are the rows loaded, *)
(* and every task has its operations, each once, in an order in which      *)
(* seq_idx does not decrease.  What is loaded from any file of the run is  *)
(* a workload the simulator is specified for.                              *)
LoadedAsWritten ==
    outcome \in Outcomes =>
        /\ Loaded => work \in Workload
        /\ \A e \in {x \in Examples : x.files = <<tasksFile, opsFile>>} :
               /\ Loaded
               /\ work.tasks = e.table.tasks
               /\ \A id \in Ids :
                     LET mine == {n \in DOMAIN e.table.ops : e.table.ops[n].id = id}
                         is(k, n) == \A f \in {"type", "cycles", "address"} :
                                         work.ops[id][k][f] = e.table.ops[n][f]
                         seqOf(k) == e.table.ops[CHOOSE n \in mine : is(k, n)].seq
                     IN  /\ Len(work.ops[id]) = Cardinality(mine)
                         /\ \A n \in mine : \E k \in DOMAIN work.ops[id] : is(k, n)
                         /\ \A j, k \in DOMAIN work.ops[id] :
                               j < k => seqOf(j) <= seqOf(k)

(* Each pair of Spoiled breaks one rule that loadFromCSV() checks, and it  *)
(* throws: a file is empty, has a line of another length than its header   *)
(* (so a quote that is left open before a comma is found) or lacks a       *)
(* column that is read; an id, a dependency, a seq_idx, the executions or  *)
(* the cycles are not a number, or an address is none; the type is unknown *)
(* or a mem has no rw.  The README has rules it does not check: that ids   *)
(* are unique (README.md:134), seq_idx has no gaps (:163) and a mem has an *)
(* address (:166).  Such files are loaded, and LoadedAsWritten says how.   *)
SpoiledIsRejected ==
    <<tasksFile, opsFile>> \in Spoiled => ~Loaded
=============================================================================
