----------------------------- MODULE GraphInput -----------------------------
(***************************************************************************)
(* Graph::initFromFile and addEdge: a file is a sequence of lines, and may *)
(* lack the newline after the last one.  A line is a comment or a row of   *)
(* numbers.  One action is one iteration of the loop over the lines.       *)
(***************************************************************************)
EXTENDS Integers, SequencesExt

CONSTANTS Files,    \* records [lines, newline]
          Garbage   \* what an uninitialized int of initFromFile may hold

Comment == [comment |-> TRUE, nums |-> << >>]
Row(nums) == [comment |-> FALSE, nums |-> nums]

ASSUME FilesAssumption ==
  /\ Garbage \subseteq Int /\ Garbage # {}
  /\ \A f \in Files :
       /\ f.newline \in BOOLEAN
       /\ f.lines \in Seq([comment : BOOLEAN, nums : Seq(Int)])

VARIABLES file,
          line,       \* the number of the next line
          pc,         \* of main and the functions it calls
          firstRow,
          nodeNo, edgeNo, maxdeg,
          adjList     \* the lists of neighbours, with the repeated ones

graphVars == <<file, line, firstRow, nodeNo, edgeNo, maxdeg, adjList>>

InputInit ==
  /\ file \in Files
  /\ line = 1
  /\ pc = "read"
  /\ firstRow = TRUE
  /\ nodeNo = -1 /\ edgeNo = 0 /\ maxdeg = -1
  /\ adjList = << >>

-----------------------------------------------------------------------------
EMPTY_KEY == -1           \* 0xFFFFFFFF
INVAL_KEY == -286331154   \* 0xEEEEEEEE

\* Two numbers mark the slots of a hash table; no line of initFromFile
\* keeps them from being vertices.
ReservedKeys == {EMPTY_KEY, INVAL_KEY}

(***************************************************************************)
(* After the last line, hashSet moves each list into a hash table, which   *)
(* keeps one of each neighbour; for_each visits these but for the reserved *)
(* keys, which it takes for slots without a neighbour.                     *)
(***************************************************************************)
adj == [v \in DOMAIN adjList |-> ToSet(adjList[v]) \ ReservedKeys]

(***************************************************************************)
(* size() of the hashed neighbours of v.  The insertion of EMPTY_KEY fills *)
(* no slot and is counted each time (until the table is rebuilt, which     *)
(* takes more than HS_BUCKET_SIZE neighbours).                             *)
(***************************************************************************)
HashedSize(v) ==
  Cardinality(ToSet(adjList[v]) \ {EMPTY_KEY})
    + Cardinality({i \in DOMAIN adjList[v] : adjList[v][i] = EMPTY_KEY})

\* The precondition of the hash tables: the graph has no reserved vertex.
Unreserved == DOMAIN adjList \intersect ReservedKeys = {}

-----------------------------------------------------------------------------
\* After getline, eof() holds on the last line too if it has no newline.
Eof ==
  \/ line > Len(file.lines)
  \/ line = Len(file.lines) /\ ~file.newline

current == file.lines[line]

\* ss >> leaves the variable alone when no number is left.
Number(n) == IF n <= Len(current.nums) THEN {current.nums[n]} ELSE Garbage

\* Mutant of IsHeader: rows of three numbers are never edges.
IsHeaderAnywhere == Len(current.nums) >= 3

\* A first row of three numbers holds the number of vertices.
IsHeader == firstRow /\ Len(current.nums) >= 3 /\ current.nums[3] # -1

\* The lists of addEdge before the edge is added.
Created(v, w) == [u \in DOMAIN adjList \union {v, w} |->
                    IF u \in DOMAIN adjList THEN adjList[u] ELSE << >>]

\* Mutant of addEdge: maxdeg is not raised by the second vertex.
addEdgeFirstDegree(v, w) ==
  LET L == Created(v, w) IN
  IF v = w
  THEN adjList' = L /\ UNCHANGED <<edgeNo, maxdeg>>
  ELSE /\ adjList' = [L EXCEPT ![v] = Append(@, w), ![w] = Append(@, v)]
       /\ edgeNo' = edgeNo + 2
       /\ maxdeg' = Max({maxdeg, Len(L[v]) + 1})

addEdge(v, w) ==
  LET L == Created(v, w) IN
  IF v = w
  THEN adjList' = L /\ UNCHANGED <<edgeNo, maxdeg>>
  ELSE /\ adjList' = [L EXCEPT ![v] = Append(@, w), ![w] = Append(@, v)]
       /\ edgeNo' = edgeNo + 2
       /\ maxdeg' = Max({maxdeg, Len(L[v]) + 1, Len(L[w]) + 1})

ReadLine ==
  /\ pc = "read" /\ ~Eof
  /\ line' = line + 1
  /\ IF current.comment
     THEN UNCHANGED <<firstRow, nodeNo, edgeNo, maxdeg, adjList>>
     ELSE /\ firstRow' = FALSE
          /\ IF IsHeader
             THEN nodeNo' = current.nums[1] /\ UNCHANGED <<edgeNo, maxdeg, adjList>>
             ELSE /\ \E v \in Number(1), w \in Number(2) : addEdge(v, w)
                  /\ UNCHANGED nodeNo
  /\ UNCHANGED <<file, pc>>

\* `if(nodeNo = -1)` assigns: the number of the first row is always replaced.
EndOfFile ==
  /\ pc = "read" /\ Eof
  /\ nodeNo' = Cardinality(DOMAIN adjList)
  /\ pc' = "ready"
  /\ UNCHANGED <<file, line, firstRow, edgeNo, maxdeg, adjList>>

InputNext == ReadLine \/ EndOfFile

-----------------------------------------------------------------------------
(***************************************************************************)
(* The graph a file describes, by README.md: one edge per line, given by   *)
(* the two vertices it connects, and optionally a first row of three       *)
(* numbers, the first of which is the number of vertices.  Comments stand  *)
(* between them.                                                           *)
(***************************************************************************)
Rows == {i \in DOMAIN file.lines : ~file.lines[i].comment}

EdgeRows == {i \in Rows : Len(file.lines[i].nums) < 3 \/ \E j \in Rows : j < i}

HeaderRows == Rows \ EdgeRows

Ends(i) == {file.lines[i].nums[1], file.lines[i].nums[2]}

DescribedAdj ==
  [v \in UNION {Ends(i) : i \in EdgeRows} |->
     (UNION {Ends(i) : i \in {j \in EdgeRows : v \in Ends(j)}}) \ {v}]

\* The rows are complete: two vertices for each edge, and a number of edges
\* in the first row, if it has three numbers.
WellFormed ==
  /\ \A i \in EdgeRows : Len(file.lines[i].nums) >= 2
  /\ \A i \in HeaderRows : file.lines[i].nums[3] \in Nat

\* The file has the format described, with the right numbers in the first row.
Conforming ==
  /\ WellFormed
  /\ \A i \in HeaderRows :
       /\ file.lines[i].nums[1] >= Cardinality(DOMAIN DescribedAdj)
       /\ file.lines[i].nums[3] = Cardinality(EdgeRows)

(***************************************************************************)
(* Where the code departs from the format: conditions of the properties    *)
(* that hold.                                                              *)
(***************************************************************************)
\* A newline ends the last row.
LastRowEnds == Len(file.lines) \in Rows => file.newline

\* The vertices counted by the first row are those with a row.
HeaderAgrees ==
  \A i \in HeaderRows : file.lines[i].nums[1] = Cardinality(DOMAIN DescribedAdj)

-----------------------------------------------------------------------------
(***************************************************************************)
(* The graph that is read is the one the file describes, whatever comments,*)
(* repeated or reversed rows, loops and header it has, if its last row is  *)
(* ended by a newline and no vertex is a reserved key; edgeNo is twice its *)
(* number of rows that are no loops, and nodeNo the number of vertices of  *)
(* the first row, if all of them have a row.                               *)
(***************************************************************************)
GraphAsDescribed ==
  pc # "read" /\ WellFormed /\ LastRowEnds /\ Unreserved =>
    /\ adj = DescribedAdj
    /\ edgeNo = 2 * Cardinality({i \in EdgeRows : Cardinality(Ends(i)) = 2})
    /\ HeaderAgrees => \A i \in HeaderRows : nodeNo = file.lines[i].nums[1]

(***************************************************************************)
(* What the enumeration and the buckets of degeneracyOrdering rely on, for *)
(* every file, also one with incomplete rows, whose uninitialized numbers  *)
(* become vertices: as long as none of them is a reserved key, the graph   *)
(* is symmetric and without loops, its sets have the size they tell, and   *)
(* no size exceeds maxdeg once there is an edge.                           *)
(***************************************************************************)
GraphSane ==
  Unreserved =>
    \A v \in DOMAIN adj :
      /\ \A w \in adj[v] : w # v /\ w \in DOMAIN adj /\ v \in adj[w]
      /\ HashedSize(v) = Cardinality(adj[v])
      /\ adj[v] # {} => HashedSize(v) <= maxdeg
=============================================================================
