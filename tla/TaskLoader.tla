------------------------------- MODULE TaskLoader -------------------------------
(***************************************************************************)
(* TaskGraph::loadFromCSV(): from two CSV files to the workload, then the  *)
(* search for cycles with which buildDAG() begins.  An exception rejects   *)
(* the files.                                                              *)
(*                                                                         *)
(* A field is converted by stoi() or stoull() if it begins with a number   *)
(* or an address, whatever follows.                                        *)
(***************************************************************************)
EXTENDS CycleDetection, CSVReader

CONSTANT Files   \* pairs of a tasks file and an ops file

VARIABLES
    tasksFile,
    opsFile,
    csv        \* what parseCSV() returned last

loaderVars == <<tasksFile, opsFile, csv>>

BeginsWith(field, kind) == field # <<>> /\ field[1][1] = kind

Stoi(field) == field[1][2]

(* What parseDependencies() finds between the semicolons.                  *)
Pieces(field) ==
    LET parts == Parts(field, LAMBDA k : field[k] = Semicolon)
    IN  Kept([n \in DOMAIN parts |-> Trim(parts[n])],
             LAMBDA piece : piece # <<>>)

(* parseCSV() throws on a file without a line.                             *)
Readable(file) == file # <<>> /\ Rectangular(ParseCSV(file))

(* The fields of a column of a table, if it has the column, and what those *)
(* of one kind convert to.                                                 *)
ColumnOf(table, name) ==
    IF HasColumn(table, name)
    THEN {Column(table, fields, name) : fields \in ToSet(table.rows)} ELSE {}

NumbersOf(fields, kind) == {Stoi(f) : f \in {g \in fields : BeginsWith(g, kind)}}

(* The ids and the addresses of the files that can be read are among those *)
(* of the constants.                                                       *)
ASSUME FilesAssumption ==
    /\ Files \subseteq Seq(Seq(Token)) \X Seq(Seq(Token))
    /\ 0 \in Addresses
    /\ \A f \in Files :
          /\ Readable(f[1]) =>
                LET table == ParseCSV(f[1])
                    pieces == UNION {ToSet(Pieces(deps)) : deps \in ColumnOf(table, "deps")}
                IN  /\ NumbersOf(ColumnOf(table, "id"), "number") \subseteq TaskIds
                    /\ NumbersOf(pieces, "number") \subseteq TaskIds
          /\ Readable(f[2]) =>
                LET table == ParseCSV(f[2])
                IN  NumbersOf(ColumnOf(table, "address"), "hex") \subseteq Addresses

Cell(fields, name) == Column(csv, fields, name)

(* row.at() throws if there is no such column.                             *)
HasNumber(fields, name) ==
    HasColumn(csv, name) /\ BeginsWith(Cell(fields, name), "number")

TaskRowConverts(fields) ==
    /\ HasNumber(fields, "id") /\ HasNumber(fields, "executions")
    /\ HasColumn(csv, "name") /\ HasColumn(csv, "deps")
    /\ \A piece \in ToSet(Pieces(Cell(fields, "deps"))) : BeginsWith(piece, "number")

TaskOf(fields) ==
    LET deps == Pieces(Cell(fields, "deps"))
    IN  [id |-> Stoi(Cell(fields, "id")),
         executions |-> Stoi(Cell(fields, "executions")),
         deps |-> [k \in DOMAIN deps |-> Stoi(deps[k])]]

IsCompute(fields) == Cell(fields, "type") = <<Word("compute")>>

(* The columns of the other type of operation are not looked at.           *)
OpRowConverts(fields) ==
    /\ HasNumber(fields, "task_id") /\ HasNumber(fields, "seq_idx")
    /\ HasColumn(csv, "type")
    /\ \/ IsCompute(fields) /\ HasNumber(fields, "cycles")
       \/ /\ Cell(fields, "type") = <<Word("mem")>>
          /\ HasColumn(csv, "address") /\ HasColumn(csv, "rw")
          /\ \/ Cell(fields, "address") = <<>>
             \/ BeginsWith(Cell(fields, "address"), "hex")
          /\ Cell(fields, "rw") \in {<<Word(w)>> : w \in {"R", "r", "W", "w"}}

OpOf(fields) ==
    IF IsCompute(fields)
    THEN [type |-> "Compute", cycles |-> Stoi(Cell(fields, "cycles")), address |-> 0]
    ELSE [type |-> "Memory", cycles |-> 0,
          address |-> IF Cell(fields, "address") = <<>> THEN 0
                      ELSE Stoi(Cell(fields, "address"))]

(* taskOpsMap[id], empty if no row has the id.                             *)
OpsRowsOf(id) ==
    Kept(csv.rows, LAMBDA fields : Stoi(Cell(fields, "task_id")) = id)

(* Mutant of Arrangements: the operations stay in the order of the file.   *)
FileOrder(rows) == {[k \in DOMAIN rows |-> OpOf(rows[k])]}

(* std::sort() by seq_idx is not stable: operations with the same seq_idx  *)
(* may come out in any order.                                              *)
Arrangements(rows) ==
    LET seqIdx(k) == Stoi(Cell(rows[k], "seq_idx"))
        sorted == {p \in SetToSeqs(DOMAIN rows) :
                      \A j, k \in DOMAIN p : j < k => seqIdx(p[j]) <= seqIdx(p[k])}
    IN  {[k \in DOMAIN p |-> OpOf(rows[p[k]])] : p \in sorted}

-----------------------------------------------------------------------------
LoaderInit ==
    /\ \E f \in Files : tasksFile = f[1] /\ opsFile = f[2]
    /\ csv = [headers |-> <<>>, rows |-> <<>>]
    /\ work = [tasks |-> <<>>, ops |-> [id \in TaskIds |-> <<>>]]
    /\ row = 1
    /\ state = <<>>
    /\ path = <<>>
    /\ outcome = "reading tasks"

Parse(file) ==
    /\ Readable(file)
    /\ csv' = ParseCSV(file)
    /\ UNCHANGED <<work, state>>

AllConvert(RowConverts(_)) == \A fields \in ToSet(csv.rows) : RowConverts(fields)

MakeTasks ==
    /\ AllConvert(TaskRowConverts)
    /\ work' = [work EXCEPT !.tasks = [k \in DOMAIN csv.rows |-> TaskOf(csv.rows[k])]]
    /\ UNCHANGED <<csv, state>>

(* Operations of a task that has no row are dropped; rows with the same id *)
(* share theirs.  Then every task is unvisited.                            *)
MakeOps ==
    /\ AllConvert(OpRowConverts)
    /\ LET choices == [id \in Ids |-> Arrangements(OpsRowsOf(id))]
       IN  \E ops \in [Ids -> UNION {choices[id] : id \in Ids}] :
              /\ \A id \in Ids : ops[id] \in choices[id]
              /\ work' = [work EXCEPT !.ops =
                             [id \in TaskIds |-> IF id \in Ids THEN ops[id] ELSE <<>>]]
    /\ state' = [id \in Ids |-> 0]
    /\ UNCHANGED csv

(* The statements of loadFromCSV() in their order.                         *)
LoadFromCSV ==
    /\ \/ outcome = "reading tasks" /\ Parse(tasksFile) /\ outcome' = "making tasks"
       \/ outcome = "making tasks" /\ MakeTasks /\ outcome' = "reading ops"
       \/ outcome = "reading ops" /\ Parse(opsFile) /\ outcome' = "making ops"
       \/ outcome = "making ops" /\ MakeOps /\ outcome' = "searching"
    /\ UNCHANGED <<row, path, tasksFile, opsFile>>

Reject ==
    /\ \/ outcome = "reading tasks" /\ ~Readable(tasksFile)
       \/ outcome = "making tasks" /\ ~AllConvert(TaskRowConverts)
       \/ outcome = "reading ops" /\ ~Readable(opsFile)
       \/ outcome = "making ops" /\ ~AllConvert(OpRowConverts)
    /\ outcome' = "rejected"
    /\ UNCHANGED <<work, row, state, path, loaderVars>>

Returned == outcome \in Outcomes /\ UNCHANGED <<vars, loaderVars>>

LoaderNext ==
    \/ LoadFromCSV
    \/ Reject
    \/ Search /\ UNCHANGED loaderVars
    \/ Returned

LoaderSpec ==
    /\ LoaderInit /\ [][LoaderNext]_<<vars, loaderVars>>
    /\ WF_vars(Search)

Loaded == outcome \in {"searching", "cycle", "acyclic"}
=============================================================================
