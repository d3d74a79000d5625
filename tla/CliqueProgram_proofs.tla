------------------------ MODULE CliqueProgram_proofs ------------------------
(***************************************************************************)
(* The program from file to output, for every file, every number of        *)
(* threads and every order in which buckets are iterated over: the graph   *)
(* that is read is the one the file describes, the degeneracy ordering is  *)
(* one, and the output counts the maximal cliques of that graph.  The      *)
(* hypotheses are those of the properties: no vertex is a reserved key,    *)
(* and, for what a file describes, a newline ends its last row.            *)
(***************************************************************************)
EXTENDS CliqueProgram, SumTheorems, FunctionTheorems

-----------------------------------------------------------------------------
(***************************************************************************)
(* Reading the file.                                                       *)
(***************************************************************************)
\* The lists of neighbours L, the longest of which has m elements.
ListsOK(L, m) ==
  /\ IsFiniteSet(DOMAIN L)
  /\ \A v \in DOMAIN L : L[v] \in Seq(Int)
  /\ \A v \in DOMAIN L : \A w \in ToSet(L[v]) : w # v /\ w \in DOMAIN L /\ v \in ToSet(L[w])
  /\ m \in Int /\ m >= -1
  /\ \A v \in DOMAIN L : L[v] # << >> => Len(L[v]) <= m

\* The rows of the file read so far that are edges.
EdgeRowsRead == {i \in EdgeRows : i < line}

\* Ends, of a given file.
EndsIn(F, i) == {F.lines[i].nums[1], F.lines[i].nums[2]}

\* The lists L are those of the rows D of file F, of which e / 2 are no loops.
AsRead(F, D, L, e) ==
  /\ DOMAIN L = UNION {EndsIn(F, i) : i \in D}
  /\ \A v \in DOMAIN L :
       ToSet(L[v]) = (UNION {EndsIn(F, i) : i \in {j \in D : v \in EndsIn(F, j)}}) \ {v}
  /\ e = 2 * Cardinality({i \in D : Cardinality(EndsIn(F, i)) = 2})

\* The lists are those of the rows read so far.
ListsAsRead == AsRead(file, EdgeRowsRead, adjList, edgeNo)

InputInv ==
  /\ file \in Files
  /\ line \in 1..(Len(file.lines) + 1)
  /\ firstRow <=> \A i \in Rows : i >= line
  /\ ListsOK(adjList, maxdeg)
  /\ WellFormed => ListsAsRead
  /\ pc # "read" => /\ nodeNo = Cardinality(DOMAIN adjList)
                    /\ LastRowEnds => EdgeRowsRead = EdgeRows

-----------------------------------------------------------------------------
\* The elements of a list with one more.
LEMMA AppendFacts ==
  ASSUME NEW s \in Seq(Int), NEW x \in Int
  PROVE  /\ Append(s, x) \in Seq(Int) /\ Append(s, x) # << >>
         /\ Len(Append(s, x)) = Len(s) + 1 /\ Len(s) \in Nat
         /\ ToSet(Append(s, x)) = ToSet(s) \union {x}
  <1> DEFINE t == Append(s, x)
  <1>1. /\ t \in Seq(Int) /\ Len(t) = Len(s) + 1 /\ Len(s) \in Nat
        /\ DOMAIN t = 1..(Len(s) + 1) /\ DOMAIN s = 1..Len(s) /\ t[Len(s) + 1] = x
        /\ \A i \in 1..Len(s) : t[i] = s[i]
    OBVIOUS
  <1> HIDE DEF t
  <1>2. t # << >>
    BY <1>1
  <1>3. \A y : y \in ToSet(t) <=> \E i \in 1..(Len(s) + 1) : t[i] = y
    BY <1>1 DEF ToSet
  <1>4. \A y : y \in ToSet(s) <=> \E i \in 1..Len(s) : s[i] = y
    BY <1>1 DEF ToSet
  <1>5. \A i : i \in 1..(Len(s) + 1) <=> i \in 1..Len(s) \/ i = Len(s) + 1
    BY <1>1
  <1>6. \A y : y \in ToSet(t) <=> y \in ToSet(s) \union {x}
    BY <1>1, <1>3, <1>4, <1>5
  <1>7. ToSet(t) = ToSet(s) \union {x}
    BY <1>6
  <1> QED BY <1>1, <1>2, <1>7 DEF t

\* A list has no more elements than its length.
LEMMA ListSize ==
  ASSUME NEW s \in Seq(Int)
  PROVE  /\ IsFiniteSet(ToSet(s)) /\ ToSet(s) \subseteq Int
         /\ Cardinality(ToSet(s)) \in Nat /\ Cardinality(ToSet(s)) <= Len(s) /\ Len(s) \in Nat
         /\ ToSet(s) # {} <=> s # << >>
  <1>1. Len(s) \in Nat /\ DOMAIN s = 1..Len(s) /\ s \in [1..Len(s) -> Int]
    OBVIOUS
  <1>2. \A y : y \in ToSet(s) <=> \E i \in 1..Len(s) : s[i] = y
    BY <1>1 DEF ToSet
  <1>3. IsFiniteSet(1..Len(s)) /\ Cardinality(1..Len(s)) = Len(s)
    BY <1>1, FS_Interval
  <1>4. s \in Surjection(1..Len(s), ToSet(s))
    BY <1>1, <1>2 DEF Surjection
  <1>5. IsFiniteSet(ToSet(s)) /\ Cardinality(ToSet(s)) <= Len(s)
    BY <1>3, <1>4, FS_Surjection
  <1>6. Cardinality(ToSet(s)) \in Nat
    BY <1>5, FS_CardinalityType
  <1>7. ToSet(s) \subseteq Int
    BY <1>1, <1>2
  <1>8. ToSet(s) # {} <=> s # << >>
    <2>1. s # << >> <=> Len(s) # 0
      BY <1>1
    <2>2. ToSet(s) # {} <=> \E i \in 1..Len(s) : TRUE
      BY <1>2
    <2>3. (\E i \in 1..Len(s) : TRUE) <=> Len(s) # 0
      BY <1>1
    <2> QED BY <2>1, <2>2, <2>3
  <1> QED BY <1>5, <1>6, <1>7, <1>8, <1>1

-----------------------------------------------------------------------------
(***************************************************************************)
(* addEdge.  L2 are the lists after the edge of v and w was added to L.    *)
(***************************************************************************)
OldList(L, u) == IF u \in DOMAIN L THEN L[u] ELSE << >>

\* The neighbour that the edge of v and w gives to u.
NewNbr(u, v, w) == IF v = w THEN {} ELSE IF u = v THEN {w} ELSE IF u = w THEN {v} ELSE {}

EdgeAdded(L, L2, v, w) ==
  /\ DOMAIN L2 = DOMAIN L \union {v, w}
  /\ \A u \in DOMAIN L2 :
       /\ OldList(L, u) \in Seq(Int) /\ L2[u] \in Seq(Int)
       /\ ToSet(L2[u]) = ToSet(OldList(L, u)) \union NewNbr(u, v, w)
       /\ NewNbr(u, v, w) = {} => L2[u] = OldList(L, u)
       /\ NewNbr(u, v, w) # {} => Len(L2[u]) = Len(OldList(L, u)) + 1

\* The largest of three numbers.
LEMMA MaxOfThree ==
  ASSUME NEW a \in Int, NEW b \in Int, NEW c \in Int
  PROVE  /\ Max({a, b, c}) \in Int
         /\ Max({a, b, c}) >= a /\ Max({a, b, c}) >= b /\ Max({a, b, c}) >= c
  <1>1. \E x \in {a, b, c} : \A y \in {a, b, c} : x >= y
    <2>1. CASE a >= b /\ a >= c
      BY <2>1
    <2>2. CASE b >= a /\ b >= c
      BY <2>2
    <2>3. CASE c >= a /\ c >= b
      BY <2>3
    <2> QED BY <2>1, <2>2, <2>3
  <1>2. Max({a, b, c}) \in {a, b, c} /\ \A y \in {a, b, c} : Max({a, b, c}) >= y
    BY <1>1 DEF Max
  <1> QED BY <1>2

\* What addEdge does to the lists.
LEMMA AddEdgeFacts ==
  ASSUME ListsOK(adjList, maxdeg), NEW v \in Int, NEW w \in Int, addEdge(v, w)
  PROVE  /\ EdgeAdded(adjList, adjList', v, w)
         /\ edgeNo' = IF v = w THEN edgeNo ELSE edgeNo + 2
         /\ maxdeg' \in Int /\ maxdeg' >= maxdeg
         /\ v # w => \A u \in {v, w} : Len(OldList(adjList, u)) + 1 <= maxdeg'
  <1> DEFINE L == Created(v, w)
  <1>1. DOMAIN L = DOMAIN adjList \union {v, w} /\ \A u \in DOMAIN L : L[u] = OldList(adjList, u)
    BY DEF Created, OldList
  <1>2. \A u : OldList(adjList, u) \in Seq(Int)
    BY DEF ListsOK, OldList
  <1>3. maxdeg \in Int
    BY DEF ListsOK
  <1>4. /\ v = w => adjList' = L /\ edgeNo' = edgeNo /\ maxdeg' = maxdeg
        /\ v # w => /\ adjList' = [L EXCEPT ![v] = Append(@, w), ![w] = Append(@, v)]
                    /\ edgeNo' = edgeNo + 2
                    /\ maxdeg' = Max({maxdeg, Len(L[v]) + 1, Len(L[w]) + 1})
    BY DEF addEdge
  <1> HIDE DEF L
  <1>5. CASE v = w
    <2>1. \A u : NewNbr(u, v, w) = {}
      BY <1>5 DEF NewNbr
    <2>2. EdgeAdded(adjList, adjList', v, w)
      BY <1>1, <1>2, <1>4, <1>5, <2>1 DEF EdgeAdded
    <2> QED BY <1>3, <1>4, <1>5, <2>2
  <1>6. CASE v # w
    <2>1. adjList' = [L EXCEPT ![v] = Append(@, w), ![w] = Append(@, v)]
      BY <1>4, <1>6
    <2>2. /\ DOMAIN adjList' = DOMAIN L
          /\ adjList'[v] = Append(L[v], w) /\ adjList'[w] = Append(L[w], v)
          /\ \A u \in DOMAIN L : u # v /\ u # w => adjList'[u] = L[u]
      BY <1>1, <1>6, <2>1
    <2>3. NewNbr(v, v, w) = {w} /\ NewNbr(w, v, w) = {v}
          /\ \A u : u # v /\ u # w => NewNbr(u, v, w) = {}
      BY <1>6 DEF NewNbr
    <2>4. /\ Append(L[v], w) \in Seq(Int) /\ Len(Append(L[v], w)) = Len(L[v]) + 1
          /\ Len(L[v]) \in Nat /\ ToSet(Append(L[v], w)) = ToSet(L[v]) \union {w}
      <3>1. L[v] \in Seq(Int)
        BY <1>1, <1>2
      <3> QED BY <3>1, AppendFacts
    <2>5. /\ Append(L[w], v) \in Seq(Int) /\ Len(Append(L[w], v)) = Len(L[w]) + 1
          /\ Len(L[w]) \in Nat /\ ToSet(Append(L[w], v)) = ToSet(L[w]) \union {v}
      <3>1. L[w] \in Seq(Int)
        BY <1>1, <1>2
      <3> QED BY <3>1, AppendFacts
    <2>6. ASSUME NEW u \in DOMAIN adjList'
          PROVE  /\ OldList(adjList, u) \in Seq(Int) /\ adjList'[u] \in Seq(Int)
                 /\ ToSet(adjList'[u]) = ToSet(OldList(adjList, u)) \union NewNbr(u, v, w)
                 /\ NewNbr(u, v, w) = {} => adjList'[u] = OldList(adjList, u)
                 /\ NewNbr(u, v, w) # {} => Len(adjList'[u]) = Len(OldList(adjList, u)) + 1
      <3>1. CASE u = v
        BY <1>1, <1>2, <2>2, <2>3, <2>4, <3>1
      <3>2. CASE u = w
        BY <1>1, <1>2, <2>2, <2>3, <2>5, <3>2
      <3>3. CASE u # v /\ u # w
        BY <1>1, <1>2, <2>2, <2>3, <3>3
      <3> QED BY <3>1, <3>2, <3>3
    <2>7. EdgeAdded(adjList, adjList', v, w)
      BY <1>1, <2>2, <2>6 DEF EdgeAdded
    <2>8. /\ maxdeg' \in Int /\ maxdeg' >= maxdeg
          /\ maxdeg' >= Len(L[v]) + 1 /\ maxdeg' >= Len(L[w]) + 1
      <3> DEFINE a == Len(L[v]) + 1
                 b == Len(L[w]) + 1
      <3>1. a \in Int /\ b \in Int /\ maxdeg' = Max({maxdeg, a, b})
        BY <1>4, <1>6, <2>4, <2>5
      <3> HIDE DEF a, b
      <3>2. maxdeg' \in Int /\ maxdeg' >= maxdeg /\ maxdeg' >= a /\ maxdeg' >= b
        BY <1>3, <3>1, MaxOfThree
      <3> QED BY <3>2 DEF a, b
    <2>9. L[v] = OldList(adjList, v) /\ L[w] = OldList(adjList, w)
      BY <1>1
    <2>10. \A u \in {v, w} : Len(OldList(adjList, u)) + 1 <= maxdeg'
      BY <2>4, <2>5, <2>8, <2>9
    <2> QED BY <1>4, <1>6, <2>7, <2>8, <2>10
  <1> QED BY <1>5, <1>6

\* addEdge keeps the lists symmetric, without loops, and within maxdeg.
LEMMA AddEdgeKeeps ==
  ASSUME NEW L, NEW m, ListsOK(L, m), NEW L2, NEW m2 \in Int, m2 >= m, NEW v, NEW w,
         EdgeAdded(L, L2, v, w),
         v # w => \A u \in {v, w} : Len(OldList(L, u)) + 1 <= m2
  PROVE  ListsOK(L2, m2)
  <1>1. /\ IsFiniteSet(DOMAIN L) /\ m \in Int /\ m >= -1
        /\ \A u \in DOMAIN L : L[u] # << >> => Len(L[u]) <= m
        /\ \A u \in DOMAIN L : \A x \in ToSet(L[u]) : x # u /\ x \in DOMAIN L /\ u \in ToSet(L[x])
    BY DEF ListsOK
  <1>2. /\ DOMAIN L2 = DOMAIN L \union {v, w}
        /\ \A u \in DOMAIN L2 :
             /\ OldList(L, u) \in Seq(Int) /\ L2[u] \in Seq(Int)
             /\ ToSet(L2[u]) = ToSet(OldList(L, u)) \union NewNbr(u, v, w)
             /\ NewNbr(u, v, w) = {} => L2[u] = OldList(L, u)
             /\ NewNbr(u, v, w) # {} => Len(L2[u]) = Len(OldList(L, u)) + 1
    BY DEF EdgeAdded
  <1>3. IsFiniteSet(DOMAIN L2)
    <2>1. IsFiniteSet(DOMAIN L \union {v})
      BY <1>1, FS_AddElement
    <2>2. IsFiniteSet((DOMAIN L \union {v}) \union {w})
      BY <2>1, FS_AddElement
    <2>3. DOMAIN L2 = (DOMAIN L \union {v}) \union {w}
      BY <1>2
    <2> QED BY <2>2, <2>3
  <1>4. \A u : ToSet(OldList(L, u)) = IF u \in DOMAIN L THEN ToSet(L[u]) ELSE {}
    <2>1. ToSet(<< >>) = {}
      BY DEF ToSet
    <2> QED BY <2>1 DEF OldList
  <1>5. ASSUME NEW u \in DOMAIN L2, NEW x \in ToSet(L2[u])
        PROVE  x # u /\ x \in DOMAIN L2 /\ u \in ToSet(L2[x])
    <2>1. CASE x \in ToSet(OldList(L, u))
      <3>1. u \in DOMAIN L /\ x \in ToSet(L[u])
        BY <1>4, <2>1
      <3>2. x # u /\ x \in DOMAIN L /\ u \in ToSet(L[x])
        BY <1>1, <3>1
      <3> QED BY <1>2, <1>4, <3>2
    <2>2. CASE x \in NewNbr(u, v, w)
      <3>1. v # w /\ ((u = v /\ x = w) \/ (u = w /\ x = v))
        BY <2>2 DEF NewNbr
      <3>2. u \in NewNbr(x, v, w) /\ x \in DOMAIN L2 /\ x # u
        BY <1>2, <3>1 DEF NewNbr
      <3> QED BY <1>2, <3>2
    <2> QED BY <1>2, <2>1, <2>2
  <1>6. ASSUME NEW u \in DOMAIN L2, L2[u] # << >>
        PROVE  Len(L2[u]) <= m2
    <2>1. CASE NewNbr(u, v, w) = {}
      <3>1. L2[u] = OldList(L, u) /\ u \in DOMAIN L /\ L2[u] = L[u]
        BY <1>2, <1>6, <2>1 DEF OldList
      <3>2. Len(L[u]) <= m /\ Len(L[u]) \in Nat
        BY <1>1, <1>2, <1>6, <3>1
      <3> QED BY <1>1, <3>1, <3>2
    <2>2. CASE NewNbr(u, v, w) # {}
      <3>1. v # w /\ u \in {v, w}
        BY <2>2 DEF NewNbr
      <3> QED BY <1>2, <2>2, <3>1
    <2> QED BY <2>1, <2>2
  <1>7. m2 >= -1
    BY <1>1
  <1> QED BY <1>2, <1>3, <1>5, <1>6, <1>7 DEF ListsOK

-----------------------------------------------------------------------------
(***************************************************************************)
(* The rows of a file.                                                     *)
(***************************************************************************)
\* The lines of a file are rows of numbers.
LEMMA FileFacts ==
  ASSUME NEW f \in Files
  PROVE  /\ f.lines \in Seq([comment : BOOLEAN, nums : Seq(Int)])
         /\ Len(f.lines) \in Nat /\ DOMAIN f.lines = 1..Len(f.lines)
         /\ f.newline \in BOOLEAN
         /\ \A i \in 1..Len(f.lines) : /\ f.lines[i].comment \in BOOLEAN
                                       /\ f.lines[i].nums \in Seq(Int)
                                       /\ Len(f.lines[i].nums) \in Nat
  <1>1. f.lines \in Seq([comment : BOOLEAN, nums : Seq(Int)]) /\ f.newline \in BOOLEAN
    BY FilesAssumption
  <1>2. Len(f.lines) \in Nat /\ DOMAIN f.lines = 1..Len(f.lines)
        /\ \A i \in 1..Len(f.lines) : f.lines[i] \in [comment : BOOLEAN, nums : Seq(Int)]
    <2> DEFINE s == f.lines
               T == [comment : BOOLEAN, nums : Seq(Int)]
    <2>1. s \in Seq(T)
      BY <1>1
    <2> HIDE DEF s, T
    <2>2. Len(s) \in Nat /\ DOMAIN s = 1..Len(s) /\ \A i \in 1..Len(s) : s[i] \in T
      BY <2>1
    <2> QED BY <2>2 DEF s, T
  <1> QED BY <1>1, <1>2

\* The rows are numbers of lines; the rows read so far are finitely many.
LEMMA RowsFacts ==
  ASSUME file \in Files, line \in 1..(Len(file.lines) + 1)
  PROVE  /\ EdgeRows \subseteq Rows /\ Rows \subseteq 1..Len(file.lines)
         /\ Len(file.lines) \in Nat /\ line \in Nat
         /\ IsFiniteSet(EdgeRowsRead)
  <1>1. Len(file.lines) \in Nat /\ DOMAIN file.lines = 1..Len(file.lines)
    BY FileFacts
  <1>2. EdgeRows \subseteq Rows /\ Rows \subseteq 1..Len(file.lines)
    BY <1>1 DEF EdgeRows, Rows
  <1>3. IsFiniteSet(1..Len(file.lines))
    BY <1>1, FS_Interval
  <1>4. EdgeRowsRead \in SUBSET (1..Len(file.lines))
    BY <1>2 DEF EdgeRowsRead
  <1>5. IsFiniteSet(EdgeRowsRead)
    BY <1>3, <1>4, FS_Subset
  <1> QED BY <1>1, <1>2, <1>5

\* What a line is that is read.
LEMMA LineRead ==
  ASSUME file \in Files, line \in 1..(Len(file.lines) + 1), ~Eof
  PROVE  /\ line \in 1..Len(file.lines) /\ line + 1 \in 1..(Len(file.lines) + 1)
         /\ line \in Rows <=> ~current.comment
         /\ current.nums \in Seq(Int) /\ Len(current.nums) \in Nat
  <1>1. /\ Len(file.lines) \in Nat /\ DOMAIN file.lines = 1..Len(file.lines)
        /\ file.newline \in BOOLEAN
        /\ \A i \in 1..Len(file.lines) : /\ file.lines[i].comment \in BOOLEAN
                                         /\ file.lines[i].nums \in Seq(Int)
                                         /\ Len(file.lines[i].nums) \in Nat
    BY FileFacts
  <1>2. line <= Len(file.lines) /\ (line = Len(file.lines) => file.newline)
    BY <1>1 DEF Eof
  <1>3. line \in 1..Len(file.lines) /\ line + 1 \in 1..(Len(file.lines) + 1)
    BY <1>1, <1>2
  <1>4. line \in Rows <=> ~current.comment
    BY <1>1, <1>3 DEF Rows, current
  <1> QED BY <1>1, <1>3, <1>4 DEF current

\* At the end of the file all rows have been read, if a newline ends the last.
LEMMA AllRead ==
  ASSUME file \in Files, line \in 1..(Len(file.lines) + 1), Eof, LastRowEnds
  PROVE  EdgeRowsRead = EdgeRows
  <1>1. Len(file.lines) \in Nat /\ DOMAIN file.lines = 1..Len(file.lines)
    BY FileFacts
  <1>2. \A i \in Rows : i \in 1..Len(file.lines) /\ (i < Len(file.lines) \/ file.newline)
    BY <1>1 DEF Rows, LastRowEnds
  <1>3. \A i \in Rows : i < line
    BY <1>1, <1>2 DEF Eof
  <1>4. EdgeRows \subseteq Rows
    BY DEF EdgeRows
  <1> QED BY <1>3, <1>4 DEF EdgeRowsRead

\* The graph of one more row.
RowAdded(l, v, w) ==
  /\ Ends(l) = {v, w} /\ EdgeAdded(adjList, adjList', v, w)
  /\ edgeNo' = IF v = w THEN edgeNo ELSE edgeNo + 2

\* An edge row adds its edge to the lists read so far.
LEMMA RowKeeps ==
  ASSUME ListsAsRead, NEW D, D = EdgeRowsRead, IsFiniteSet(D),
         NEW l, l \notin D, NEW v \in Int, NEW w \in Int, RowAdded(l, v, w)
  PROVE  AsRead(file, D \union {l}, adjList', edgeNo')
  <1> DEFINE D2 == D \union {l}
             Two(S) == {i \in S : Cardinality(Ends(i)) = 2}
             Of(S, u) == UNION {Ends(i) : i \in {j \in S : u \in Ends(j)}}
  <1>1. /\ DOMAIN adjList = UNION {Ends(i) : i \in D}
        /\ \A u \in DOMAIN adjList : ToSet(adjList[u]) = Of(D, u) \ {u}
        /\ edgeNo = 2 * Cardinality(Two(D))
    BY DEF ListsAsRead, AsRead, EndsIn, Ends
  <1>2. /\ DOMAIN adjList' = DOMAIN adjList \union {v, w}
        /\ \A u \in DOMAIN adjList' :
             ToSet(adjList'[u]) = ToSet(OldList(adjList, u)) \union NewNbr(u, v, w)
        /\ Ends(l) = {v, w} /\ edgeNo' = IF v = w THEN edgeNo ELSE edgeNo + 2
    BY DEF RowAdded, EdgeAdded
  <1>3. DOMAIN adjList' = UNION {Ends(i) : i \in D2}
    <2>1. \A u : u \in UNION {Ends(i) : i \in D2} <=> u \in UNION {Ends(i) : i \in D} \/ u \in Ends(l)
      OBVIOUS
    <2> QED BY <1>1, <1>2, <2>1
  <1>4. ASSUME NEW u \in DOMAIN adjList'
        PROVE  ToSet(adjList'[u]) = Of(D2, u) \ {u}
    <2>1. \A x : x \in Of(D2, u) <=> x \in Of(D, u) \/ (u \in Ends(l) /\ x \in Ends(l))
      OBVIOUS
    <2>2. u \notin DOMAIN adjList => Of(D, u) = {}
      <3>1. u \notin DOMAIN adjList => \A i \in D : u \notin Ends(i)
        BY <1>1
      <3> QED BY <3>1
    <2>3. ToSet(OldList(adjList, u)) = Of(D, u) \ {u}
      <3>1. CASE u \in DOMAIN adjList
        BY <1>1, <3>1 DEF OldList
      <3>2. CASE u \notin DOMAIN adjList
        <4>1. ToSet(<< >>) = {}
          BY DEF ToSet
        <4> QED BY <2>2, <3>2, <4>1 DEF OldList
      <3> QED BY <3>1, <3>2
    <2>4. \A x : x \in NewNbr(u, v, w) <=> u \in Ends(l) /\ x \in Ends(l) /\ x # u
      BY <1>2 DEF NewNbr
    <2> HIDE DEF Of
    <2>5. ToSet(adjList'[u]) = ToSet(OldList(adjList, u)) \union NewNbr(u, v, w)
      BY <1>2
    <2>6. ASSUME NEW x
          PROVE  x \in ToSet(adjList'[u]) <=> x \in Of(D2, u) \ {u}
      <3>1. x \in ToSet(adjList'[u]) <=> x \in Of(D, u) \ {u} \/ x \in NewNbr(u, v, w)
        BY <2>3, <2>5
      <3>2. x \in NewNbr(u, v, w) <=> u \in Ends(l) /\ x \in Ends(l) /\ x # u
        BY <2>4
      <3>3. x \in Of(D2, u) <=> x \in Of(D, u) \/ (u \in Ends(l) /\ x \in Ends(l))
        BY <2>1
      <3> QED BY <3>1, <3>2, <3>3
    <2> QED BY <2>6
  <1>5. edgeNo' = 2 * Cardinality(Two(D2))
    <2>1. Cardinality(Ends(l)) = IF v = w THEN 1 ELSE 2
      <3>1. CASE v = w
        <4>1. Ends(l) = {v}
          BY <1>2, <3>1
        <4> QED BY <3>1, <4>1, FS_Singleton
      <3>2. CASE v # w
        <4>1. IsFiniteSet({v}) /\ Cardinality({v}) = 1
          BY FS_Singleton
        <4>2. Cardinality({v} \union {w}) = 1 + 1
          BY <3>2, <4>1, FS_AddElement
        <4>3. Ends(l) = {v} \union {w}
          BY <1>2
        <4> QED BY <3>2, <4>2, <4>3
      <3> QED BY <3>1, <3>2
    <2>2. Two(D) \in SUBSET D
      OBVIOUS
    <2>3. IsFiniteSet(Two(D)) /\ Cardinality(Two(D)) \in Nat
      BY <2>2, FS_Subset, FS_CardinalityType
    <2>4. l \notin Two(D)
      OBVIOUS
    <2>5. CASE v = w
      <3>1. Two(D2) = Two(D)
        BY <2>1, <2>5
      <3> QED BY <1>1, <1>2, <2>5, <3>1
    <2>6. CASE v # w
      <3>1. Two(D2) = Two(D) \union {l}
        BY <2>1, <2>6
      <3> HIDE DEF Two
      <3>2. Cardinality(Two(D2)) = Cardinality(Two(D)) + 1
        BY <2>3, <2>4, <3>1, FS_AddElement
      <3> QED BY <1>1, <1>2, <2>3, <2>6, <3>2
    <2> QED BY <2>5, <2>6
  <1> QED BY <1>3, <1>4, <1>5 DEF AsRead, EndsIn, Ends

-----------------------------------------------------------------------------
(***************************************************************************)
(* The steps that read.                                                    *)
(***************************************************************************)
\* What depends on the file alone stays while the file does.
LEMMA SameFile ==
  ASSUME file' = file
  PROVE  Rows' = Rows /\ EdgeRows' = EdgeRows /\ WellFormed' = WellFormed
         /\ LastRowEnds' = LastRowEnds /\ \A i : Ends(i)' = Ends(i)
  BY DEF Rows, EdgeRows, HeaderRows, WellFormed, LastRowEnds, Ends

\* ReadLine preserves the invariant.
LEMMA ReadLineKeeps ==
  ASSUME InputInv, ReadLine
  PROVE  InputInv'
  <1>1. /\ pc = "read" /\ ~Eof /\ line' = line + 1 /\ file' = file /\ pc' = pc
        /\ current.comment => UNCHANGED <<firstRow, nodeNo, edgeNo, maxdeg, adjList>>
        /\ ~current.comment =>
             /\ firstRow' = FALSE
             /\ IsHeader => UNCHANGED <<edgeNo, maxdeg, adjList>>
             /\ ~IsHeader => \E v \in Number(1), w \in Number(2) : addEdge(v, w)
    BY DEF ReadLine
  <1>2. /\ file \in Files /\ line \in 1..(Len(file.lines) + 1) /\ ListsOK(adjList, maxdeg)
        /\ firstRow <=> \A i \in Rows : i >= line
        /\ WellFormed => ListsAsRead
    BY DEF InputInv
  <1>3. /\ line \in 1..Len(file.lines) /\ line + 1 \in 1..(Len(file.lines) + 1)
        /\ line \in Rows <=> ~current.comment
        /\ current.nums \in Seq(Int) /\ Len(current.nums) \in Nat
    BY <1>1, <1>2, LineRead
  <1>4. /\ EdgeRows \subseteq Rows /\ Rows \subseteq 1..Len(file.lines)
        /\ Len(file.lines) \in Nat /\ line \in Nat /\ IsFiniteSet(EdgeRowsRead)
    BY <1>2, RowsFacts
  <1>5. /\ Rows' = Rows /\ EdgeRows' = EdgeRows /\ WellFormed' = WellFormed
        /\ LastRowEnds' = LastRowEnds /\ \A i : Ends(i)' = Ends(i)
    BY <1>1, SameFile
  <1>6. \A i \in Rows : i < line + 1 <=> i < line \/ i = line
    BY <1>4
  <1>7. EdgeRowsRead' = EdgeRowsRead \union ({line} \intersect EdgeRows)
    BY <1>1, <1>4, <1>5, <1>6 DEF EdgeRowsRead
  <1>8. file' \in Files /\ line' \in 1..(Len(file'.lines) + 1)
    BY <1>1, <1>2, <1>3
  <1>9. firstRow' <=> \A i \in Rows' : i >= line'
    <2>1. CASE current.comment
      <3>1. \A i \in Rows : i # line
        BY <1>3, <2>1
      <3>2. \A i \in Rows : i >= line <=> i >= line + 1
        BY <1>4, <3>1
      <3> QED BY <1>1, <1>2, <1>5, <2>1, <3>2
    <2>2. CASE ~current.comment
      <3>1. line \in Rows /\ ~(line >= line + 1)
        BY <1>3, <1>4, <2>2
      <3> QED BY <1>1, <1>5, <2>2, <3>1
    <2> QED BY <2>1, <2>2
  <1>10. pc' = "read"
    BY <1>1
  <1>11. ASSUME ListsOK(adjList', maxdeg'), WellFormed' => ListsAsRead'
         PROVE  InputInv'
    BY <1>8, <1>9, <1>10, <1>11 DEF InputInv
  <1>12. CASE current.comment \/ IsHeader
    <2>1. UNCHANGED <<edgeNo, maxdeg, adjList>>
      BY <1>1, <1>12
    <2>2. line \notin EdgeRows
      <3>1. CASE current.comment
        BY <1>3, <1>4, <3>1
      <3>2. CASE IsHeader
        <4>1. Len(file.lines[line].nums) >= 3 /\ \A i \in Rows : i >= line
          BY <1>2, <3>2 DEF IsHeader, current
        <4>2. ~(Len(file.lines[line].nums) < 3)
          BY <1>3, <4>1 DEF current
        <4>3. ~\E j \in Rows : j < line
          BY <1>4, <4>1
        <4> QED BY <4>2, <4>3 DEF EdgeRows
      <3> QED BY <1>12, <3>1, <3>2
    <2>3. EdgeRowsRead' = EdgeRowsRead
      BY <1>7, <2>2
    <2>4. WellFormed' => ListsAsRead'
      BY <1>1, <1>2, <1>5, <2>1, <2>3 DEF ListsAsRead
    <2> QED BY <1>2, <1>11, <2>1, <2>4
  <1>13. CASE ~current.comment /\ ~IsHeader
    <2>1. PICK v \in Number(1), w \in Number(2) : addEdge(v, w)
      BY <1>1, <1>13
    <2>2. v \in Int /\ w \in Int
      <3>1. current.nums \in Seq(Int)
        BY <1>3 DEF current
      <3>2. \A n \in {1, 2} : Number(n) \subseteq Int
        <4> TAKE n \in {1, 2}
        <4>1. CASE n <= Len(current.nums)
          <5>1. current.nums[n] \in Int
            BY <3>1, <4>1
          <5> QED BY <4>1, <5>1 DEF Number
        <4>2. CASE ~(n <= Len(current.nums))
          BY <4>2, FilesAssumption DEF Number
        <4> QED BY <4>1, <4>2
      <3> QED BY <2>1, <3>2
    <2>3. /\ EdgeAdded(adjList, adjList', v, w)
          /\ edgeNo' = IF v = w THEN edgeNo ELSE edgeNo + 2
          /\ maxdeg' \in Int /\ maxdeg' >= maxdeg
          /\ v # w => \A u \in {v, w} : Len(OldList(adjList, u)) + 1 <= maxdeg'
      BY <1>2, <2>1, <2>2, AddEdgeFacts
    <2>4. ListsOK(adjList', maxdeg')
      BY <1>2, <2>3, AddEdgeKeeps
    <2>5. ASSUME WellFormed PROVE ListsAsRead'
      <3>1. line \in Rows
        BY <1>3, <1>13
      <3>2. line \in EdgeRows
        <4>1. CASE \A i \in Rows : i >= line
          <5>1. Len(current.nums) >= 3 => current.nums[3] # -1
            <6>1. \A j \in Rows : ~(j < line)
              BY <1>4, <4>1
            <6>2. Len(current.nums) >= 3 => line \in HeaderRows
              BY <1>3, <3>1, <6>1 DEF HeaderRows, EdgeRows, current
            <6> QED BY <2>5, <6>2 DEF WellFormed, current
          <5>2. ~(Len(current.nums) >= 3)
            BY <1>2, <1>13, <4>1, <5>1 DEF IsHeader
          <5>3. Len(current.nums) < 3
            BY <1>3, <5>2
          <5> QED BY <3>1, <5>3 DEF EdgeRows, current
        <4>2. CASE \E i \in Rows : ~(i >= line)
          <5>1. \E i \in Rows : i < line
            BY <1>4, <4>2
          <5> QED BY <3>1, <5>1 DEF EdgeRows
        <4> QED BY <4>1, <4>2
      <3>3. Len(current.nums) >= 2
        BY <2>5, <3>2 DEF WellFormed, current
      <3>4. v = current.nums[1] /\ w = current.nums[2]
        BY <1>3, <2>1, <3>3 DEF Number
      <3>5. RowAdded(line, v, w)
        BY <2>3, <3>4 DEF RowAdded, Ends, current
      <3>6. line \notin EdgeRowsRead
        BY <1>4 DEF EdgeRowsRead
      <3>7. EdgeRowsRead' = EdgeRowsRead \union {line}
        BY <1>7, <3>2
      <3>8. AsRead(file, EdgeRowsRead \union {line}, adjList', edgeNo')
        BY <1>2, <1>4, <2>2, <2>5, <3>5, <3>6, RowKeeps
      <3> QED BY <1>1, <3>7, <3>8 DEF ListsAsRead
    <2> QED BY <1>5, <1>11, <2>4, <2>5
  <1> QED BY <1>12, <1>13

\* EndOfFile preserves the invariant.
LEMMA EndOfFileKeeps ==
  ASSUME InputInv, EndOfFile
  PROVE  InputInv'
  <1>1. /\ Eof /\ nodeNo' = Cardinality(DOMAIN adjList)
        /\ UNCHANGED <<file, line, firstRow, edgeNo, maxdeg, adjList>>
    BY DEF EndOfFile
  <1>2. LastRowEnds => EdgeRowsRead = EdgeRows
    BY <1>1, AllRead DEF InputInv
  <1>3. /\ Rows' = Rows /\ EdgeRows' = EdgeRows /\ WellFormed' = WellFormed
        /\ LastRowEnds' = LastRowEnds /\ \A i : Ends(i)' = Ends(i)
    BY <1>1, SameFile
  <1>4. EdgeRowsRead' = EdgeRowsRead
    BY <1>1, <1>3 DEF EdgeRowsRead
  <1>5. ListsAsRead => ListsAsRead'
    BY <1>1, <1>3, <1>4 DEF ListsAsRead
  <1> QED BY <1>1, <1>2, <1>3, <1>4, <1>5 DEF InputInv

\* After that the graph and the file stay as they are.
LEMMA InputStays ==
  ASSUME InputInv, UNCHANGED graphVars, pc # "read" \/ pc' = pc
  PROVE  InputInv'
  <1>1. UNCHANGED <<file, line, firstRow, nodeNo, edgeNo, maxdeg, adjList>>
    BY DEF graphVars
  <1>2. /\ Rows' = Rows /\ EdgeRows' = EdgeRows /\ WellFormed' = WellFormed
        /\ LastRowEnds' = LastRowEnds /\ \A i : Ends(i)' = Ends(i)
    BY <1>1, SameFile
  <1>3. EdgeRowsRead' = EdgeRowsRead
    BY <1>1, <1>2 DEF EdgeRowsRead
  <1>4. ListsAsRead => ListsAsRead'
    BY <1>1, <1>2, <1>3 DEF ListsAsRead
  <1> QED BY <1>1, <1>2, <1>3, <1>4 DEF InputInv

\* The invariant holds before the first line is read.
LEMMA InputStarts ==
  ASSUME InputInit
  PROVE  InputInv
  <1>1. /\ file \in Files /\ line = 1 /\ pc = "read" /\ firstRow = TRUE
        /\ edgeNo = 0 /\ maxdeg = -1 /\ adjList = << >>
    BY DEF InputInit
  <1>2. DOMAIN adjList = {}
    BY <1>1
  <1>3. Len(file.lines) \in Nat /\ 1 \in 1..(Len(file.lines) + 1)
    BY <1>1, FileFacts
  <1>4. EdgeRows \subseteq Rows /\ Rows \subseteq 1..Len(file.lines)
    BY <1>1, <1>3, RowsFacts
  <1>5. \A i \in Rows : i >= line
    BY <1>1, <1>3, <1>4
  <1>6. EdgeRowsRead = {}
    <2>1. \A i \in 1..Len(file.lines) : ~(i < 1)
      BY <1>3
    <2> QED BY <1>1, <1>4, <2>1 DEF EdgeRowsRead
  <1>7. ListsOK(adjList, maxdeg)
    BY <1>1, <1>2, FS_EmptySet DEF ListsOK
  <1>8. ListsAsRead
    <2>1. {i \in EdgeRowsRead : Cardinality(EndsIn(file, i)) = 2} = {}
      BY <1>6
    <2>2. edgeNo = 2 * Cardinality({})
      BY <1>1, FS_EmptySet
    <2>3. UNION {EndsIn(file, i) : i \in EdgeRowsRead} = {}
      BY <1>6
    <2> QED BY <1>2, <2>1, <2>2, <2>3 DEF ListsAsRead, AsRead
  <1> QED BY <1>1, <1>3, <1>5, <1>7, <1>8 DEF InputInv

\* Without a reserved vertex a hash table holds its whole list.
LEMMA HashedLists ==
  ASSUME ListsOK(adjList, maxdeg), Unreserved, NEW v \in DOMAIN adjList
  PROVE  adj[v] = ToSet(adjList[v]) /\ HashedSize(v) = Cardinality(adj[v])
  <1> DEFINE s == adjList[v]
             E == {i \in DOMAIN s : s[i] = EMPTY_KEY}
  <1>1. \A w \in ToSet(s) : w \in DOMAIN adjList
    BY DEF ListsOK
  <1>2. \A w \in ToSet(s) : w \notin ReservedKeys
    BY <1>1 DEF Unreserved
  <1>3. ToSet(s) \ ReservedKeys = ToSet(s) /\ ToSet(s) \ {EMPTY_KEY} = ToSet(s)
    BY <1>2 DEF ReservedKeys
  <1>4. E = {}
    <2>1. \A i \in DOMAIN s : s[i] \in ToSet(s)
      BY DEF ToSet
    <2> QED BY <1>2, <2>1 DEF ReservedKeys
  <1>5. adj[v] = ToSet(s)
    BY <1>3 DEF adj
  <1>6. Cardinality(ToSet(s)) \in Nat
    <2>1. s \in Seq(Int)
      BY DEF ListsOK
    <2> QED BY <2>1, ListSize
  <1>7. HashedSize(v) = Cardinality(ToSet(s)) + Cardinality(E)
    BY <1>3 DEF HashedSize
  <1> HIDE DEF s, E
  <1>8. HashedSize(v) = Cardinality(ToSet(s))
    BY <1>4, <1>6, <1>7, FS_EmptySet
  <1> QED BY <1>5, <1>8 DEF s

\* The invariant gives GraphSane: a list has no more elements than entries.
LEMMA SaneInv ==
  ASSUME InputInv
  PROVE  GraphSane
  <1> SUFFICES ASSUME Unreserved
               PROVE  \A v \in DOMAIN adj :
                        /\ \A w \in adj[v] : w # v /\ w \in DOMAIN adj /\ v \in adj[w]
                        /\ HashedSize(v) = Cardinality(adj[v])
                        /\ adj[v] # {} => HashedSize(v) <= maxdeg
    BY DEF GraphSane
  <1>1. ListsOK(adjList, maxdeg)
    BY DEF InputInv
  <1>2. /\ DOMAIN adj = DOMAIN adjList
        /\ \A v \in DOMAIN adjList : adj[v] = ToSet(adjList[v]) /\ HashedSize(v) = Cardinality(adj[v])
    <2>1. DOMAIN adj = DOMAIN adjList
      BY DEF adj
    <2> QED BY <1>1, <2>1, HashedLists
  <1>3. \A v \in DOMAIN adj : \A w \in adj[v] : w # v /\ w \in DOMAIN adj /\ v \in adj[w]
    BY <1>1, <1>2 DEF ListsOK
  <1>4. ASSUME NEW v \in DOMAIN adj, adj[v] # {} PROVE HashedSize(v) <= maxdeg
    <2> DEFINE s == adjList[v]
    <2>1. s \in Seq(Int) /\ adj[v] = ToSet(s) /\ (s # << >> => Len(s) <= maxdeg) /\ maxdeg \in Int
      BY <1>1, <1>2 DEF ListsOK
    <2>2. HashedSize(v) = Cardinality(ToSet(s))
      BY <1>2
    <2> HIDE DEF s
    <2>3. Cardinality(ToSet(s)) \in Nat /\ Cardinality(ToSet(s)) <= Len(s) /\ Len(s) \in Nat
          /\ (ToSet(s) # {} <=> s # << >>)
      BY <2>1, ListSize
    <2> QED BY <1>4, <2>1, <2>2, <2>3
  <1> QED BY <1>2, <1>3, <1>4

\* The invariant gives GraphAsDescribed: all rows have been read.
LEMMA DescribedInv ==
  ASSUME InputInv
  PROVE  GraphAsDescribed
  <1> SUFFICES ASSUME pc # "read", WellFormed, LastRowEnds, Unreserved
               PROVE  /\ adj = DescribedAdj
                      /\ edgeNo = 2 * Cardinality({i \in EdgeRows : Cardinality(Ends(i)) = 2})
                      /\ HeaderAgrees => \A i \in HeaderRows : nodeNo = file.lines[i].nums[1]
    BY DEF GraphAsDescribed
  <1>1. /\ ListsAsRead /\ EdgeRowsRead = EdgeRows /\ nodeNo = Cardinality(DOMAIN adjList)
        /\ ListsOK(adjList, maxdeg)
    BY DEF InputInv
  <1>2. /\ DOMAIN adjList = UNION {Ends(i) : i \in EdgeRows}
        /\ \A v \in DOMAIN adjList :
             ToSet(adjList[v]) = (UNION {Ends(i) : i \in {j \in EdgeRows : v \in Ends(j)}}) \ {v}
        /\ edgeNo = 2 * Cardinality({i \in EdgeRows : Cardinality(Ends(i)) = 2})
    BY <1>1 DEF ListsAsRead, AsRead, EndsIn, Ends
  <1>3. adj = [v \in DOMAIN adjList |-> ToSet(adjList[v])]
    <2>1. \A v \in DOMAIN adjList : adj[v] = ToSet(adjList[v])
      BY <1>1, HashedLists
    <2>2. adj = [v \in DOMAIN adjList |-> adj[v]]
      BY DEF adj
    <2> QED BY <2>1, <2>2
  <1>4. adj = DescribedAdj
    BY <1>2, <1>3 DEF DescribedAdj
  <1>5. DOMAIN DescribedAdj = DOMAIN adjList
    BY <1>2 DEF DescribedAdj
  <1>6. HeaderAgrees => \A i \in HeaderRows : nodeNo = file.lines[i].nums[1]
    BY <1>1, <1>5 DEF HeaderAgrees
  <1> QED BY <1>2, <1>4, <1>6

-----------------------------------------------------------------------------
(***************************************************************************)
(* The ordering.  A is the adjacency of a graph with vertices W, o the     *)
(* order of the vertices placed so far, and g the degeneracy found so far. *)
(***************************************************************************)
PlacedIn(o) == {o[k] : k \in DOMAIN o}
LeftOf(W, o) == W \ PlacedIn(o)
DegIn(A, S, v) == Cardinality(A[v] \intersect S)

\* The vertices that are not among the first k of o.
After(W, o, k) == W \ {o[j] : j \in 1..k}

\* No vertex so far has more than g neighbours after it, and some subgraph
\* has no smaller degree than g.
Ordered(A, W, o, g) ==
  /\ o \in Seq(W)
  /\ \A j, k \in DOMAIN o : o[j] = o[k] => j = k
  /\ g \in Nat
  /\ \A k \in DOMAIN o : DegIn(A, After(W, o, k), o[k]) <= g
  /\ g = 0 \/ \E S \in (SUBSET W) \ {{}} : \A v \in S : DegIn(A, S, v) >= g

\* The buckets B and the degrees N while the vertices L are left; a vertex
\* that was placed keeps its last degree.
Bucketed(A, W, L, B, N, m) ==
  /\ DOMAIN B = 0..m
  /\ \A d \in 0..m : B[d] = {v \in L : DegIn(A, L, v) = d}
  /\ N \in [W -> 0..m]
  /\ \A v \in L : N[v] = DegIn(A, L, v)

OrderInv ==
  /\ pc \in {"read", "ready", "assert", "order", "enumerate", "done"}
  /\ pc \in {"read", "ready", "assert"} => degen = -1
  /\ Unreserved /\ pc = "order" =>
       /\ Ordered(adj, V, ordering, degen)
       /\ Bucketed(adj, V, LeftOf(V, ordering), degArray, nodeDegrees, maxdeg)
  /\ Unreserved /\ pc \in {"enumerate", "done"} /\ degen # -1 =>
       Ordered(adj, V, ordering, degen) /\ Len(ordering) = Cardinality(V)

-----------------------------------------------------------------------------
\* A degree is a number, and no smaller among more vertices.
LEMMA DegreeFacts ==
  ASSUME NEW W, IsFiniteSet(W), NEW A, IsSimpleGraph(W, A), NEW v \in W,
         NEW T \in SUBSET W, NEW S \in SUBSET T
  PROVE  /\ IsFiniteSet(A[v] \intersect S)
         /\ DegIn(A, S, v) \in Nat /\ DegIn(A, T, v) \in Nat
         /\ DegIn(A, S, v) <= DegIn(A, T, v)
  <1> DEFINE a == A[v] \intersect S
             b == A[v] \intersect T
  <1>1. b \in SUBSET W /\ a \in SUBSET b
    OBVIOUS
  <1> HIDE DEF a, b
  <1>2. IsFiniteSet(b) /\ Cardinality(b) \in Nat
    BY <1>1, FS_Subset, FS_CardinalityType
  <1>3. IsFiniteSet(a) /\ Cardinality(a) \in Nat /\ Cardinality(a) <= Cardinality(b)
    BY <1>1, <1>2, FS_Subset, FS_CardinalityType
  <1> QED BY <1>2, <1>3 DEF DegIn, a, b

\* When a vertex leaves, its neighbours lose one in degree and no one else.
LEMMA DegreeAfter ==
  ASSUME NEW W, IsFiniteSet(W), NEW A, IsSimpleGraph(W, A),
         NEW L \in SUBSET W, NEW v \in L, NEW n \in L
  PROVE  /\ n \in A[v] => n # v /\ DegIn(A, L \ {v}, n) = DegIn(A, L, n) - 1
         /\ n \notin A[v] => DegIn(A, L \ {v}, n) = DegIn(A, L, n)
  <1> DEFINE a == A[n] \intersect L
  <1>1. v \in a <=> n \in A[v]
    BY DEF IsSimpleGraph
  <1>2. A[n] \intersect (L \ {v}) = a \ {v}
    OBVIOUS
  <1>3. IsFiniteSet(a)
    BY DegreeFacts
  <1>4. DegIn(A, L, n) = Cardinality(a) /\ DegIn(A, L \ {v}, n) = Cardinality(a \ {v})
    BY <1>2, Zenon DEF DegIn
  <1> HIDE DEF a
  <1>5. v \in a => Cardinality(a \ {v}) = Cardinality(a) - 1
    BY <1>3, FS_RemoveElement
  <1>6. v \notin a => a \ {v} = a
    OBVIOUS
  <1>7. n \in A[v] => n # v
    BY DEF IsSimpleGraph
  <1> QED BY <1>1, <1>4, <1>5, <1>6, <1>7

\* The buckets after v was placed: Lowered and the new degrees.
BucketAfter(B, N, R, v, d) ==
  (B[d] \ ({v} \union R)) \union {n \in R : N[n] = d + 1}

NeighboursMoved(A, W, L, B, N, v, B2, N2) ==
  /\ N2 = [n \in W |-> N[n] - (IF n \in A[v] \intersect L THEN 1 ELSE 0)]
  /\ B2 = [d \in DOMAIN B |-> BucketAfter(B, N, A[v] \intersect L, v, d)]

\* Lowered keeps the buckets exact for the vertices that are left.
LEMMA BucketStep ==
  ASSUME NEW W, IsFiniteSet(W), NEW A, IsSimpleGraph(W, A), NEW L \in SUBSET W, NEW v \in L,
         NEW m \in Int, NEW B, NEW N, Bucketed(A, W, L, B, N, m),
         NEW B2, NEW N2, NeighboursMoved(A, W, L, B, N, v, B2, N2)
  PROVE  Bucketed(A, W, L \ {v}, B2, N2, m)
  <1> DEFINE R == A[v] \intersect L
             M == L \ {v}
  <1>1. /\ DOMAIN B = 0..m /\ N \in [W -> 0..m]
        /\ \A d \in 0..m : B[d] = {n \in L : DegIn(A, L, n) = d}
        /\ \A n \in L : N[n] = DegIn(A, L, n)
    BY DEF Bucketed
  <1>2. /\ DOMAIN B2 = 0..m /\ DOMAIN N2 = W
        /\ \A d \in 0..m : B2[d] = BucketAfter(B, N, R, v, d)
        /\ \A n \in W : N2[n] = N[n] - (IF n \in R THEN 1 ELSE 0)
    BY <1>1 DEF NeighboursMoved
  <1>3. \A n \in L : /\ n \in R => n # v /\ DegIn(A, M, n) = N[n] - 1
                     /\ n \notin R => DegIn(A, M, n) = N[n]
    BY <1>1, DegreeAfter
  <1>4. \A n \in M : DegIn(A, M, n) \in Nat
    BY DegreeFacts
  <1>5. R \subseteq M
    BY <1>3
  <1> HIDE DEF R, M
  <1>6. M \subseteq L /\ L \subseteq W /\ v \notin M /\ \A n \in L : n = v \/ n \in M
    BY DEF M
  <1>7. \A n \in W : N2[n] \in 0..m
    <2> TAKE n \in W
    <2>1. N[n] \in 0..m
      BY <1>1
    <2>2. CASE n \in R
      BY <1>2, <1>3, <1>4, <1>5, <1>6, <2>1, <2>2
    <2>3. CASE n \notin R
      BY <1>2, <2>1, <2>3
    <2> QED BY <2>2, <2>3
  <1>8. \A n \in M : N2[n] = DegIn(A, M, n)
    <2> TAKE n \in M
    <2>1. N[n] \in 0..m /\ n \in L /\ n \in W
      BY <1>1, <1>6
    <2> QED BY <1>2, <1>3, <2>1
  <1>9. ASSUME NEW d \in 0..m
        PROVE  B2[d] = {n \in M : DegIn(A, M, n) = d}
    <2>1. \A n : n \in B2[d] <=> \/ n \in L /\ N[n] = d /\ n # v /\ n \notin R
                                 \/ n \in R /\ N[n] = d + 1
      BY <1>1, <1>2 DEF BucketAfter
    <2>2. \A n \in M : N[n] \in Int
      BY <1>1, <1>6
    <2>3. \A n \in R : N[n] = d + 1 <=> DegIn(A, M, n) = d
      BY <1>3, <1>5, <1>6, <2>2
    <2>4. \A n : n \in B2[d] <=> n \in M /\ DegIn(A, M, n) = d
      BY <1>3, <1>5, <1>6, <2>1, <2>3
    <2> QED BY <2>4
  <1>10. N2 \in [W -> 0..m]
    <2>1. N2 = [n \in W |-> N2[n]]
      BY DEF NeighboursMoved
    <2> QED BY <1>2, <1>7, <2>1
  <1>11. Bucketed(A, W, M, B2, N2, m)
    BY <1>2, <1>8, <1>9, <1>10 DEF Bucketed
  <1> QED BY <1>11 DEF M

\* The neighbours still in their buckets are those not yet placed.
LEMMA RemainingIsLeft ==
  ASSUME NEW W, NEW A, IsSimpleGraph(W, A), NEW L \in SUBSET W, NEW v \in W,
         NEW m \in Int, NEW B, NEW N, Bucketed(A, W, L, B, N, m)
  PROVE  \A n \in A[v] : n \in B[N[n]] <=> n \in L
  <1>1. /\ \A d \in 0..m : B[d] = {n \in L : DegIn(A, L, n) = d}
        /\ \A n \in W : N[n] \in 0..m
        /\ \A n \in L : N[n] = DegIn(A, L, n)
    BY DEF Bucketed
  <1>2. \A n \in A[v] : n \in W
    BY DEF IsSimpleGraph
  <1>3. \A n \in A[v] : n \in B[N[n]] <=> n \in L
    <2> TAKE n \in A[v]
    <2>1. N[n] \in 0..m
      BY <1>1, <1>2
    <2>2. B[N[n]] = {x \in L : DegIn(A, L, x) = N[n]}
      BY <1>1, <2>1
    <2> QED BY <1>1, <2>2
  <1> QED BY <1>3

\* Appending a vertex that is left takes it out of those that are left, and
\* changes nothing for those before it.
LEMMA AppendPlaced ==
  ASSUME NEW W, NEW o \in Seq(W), NEW v \in LeftOf(W, o),
         \A j, k \in DOMAIN o : o[j] = o[k] => j = k
  PROVE  LET o2 == Append(o, v)
         IN  /\ o2 \in Seq(W) /\ DOMAIN o2 = DOMAIN o \union {Len(o) + 1}
             /\ \A j, k \in DOMAIN o2 : o2[j] = o2[k] => j = k
             /\ \A k \in DOMAIN o : o2[k] = o[k] /\ After(W, o2, k) = After(W, o, k)
             /\ o2[Len(o) + 1] = v /\ After(W, o2, Len(o) + 1) = LeftOf(W, o) \ {v}
             /\ LeftOf(W, o2) = LeftOf(W, o) \ {v}
  <1> DEFINE o2 == Append(o, v)
             n == Len(o)
  <1>1. v \in W /\ \A k \in DOMAIN o : o[k] # v
    BY DEF LeftOf, PlacedIn
  <1>2. /\ o2 \in Seq(W) /\ n \in Nat /\ DOMAIN o = 1..n /\ DOMAIN o2 = 1..(n + 1)
        /\ \A k \in 1..n : o2[k] = o[k]
        /\ o2[n + 1] = v
    BY <1>1
  <1> HIDE DEF o2, n
  <1>3. 1..(n + 1) = (1..n) \union {n + 1} /\ n + 1 \notin 1..n
    BY <1>2
  <1>4. \A j, k \in DOMAIN o2 : o2[j] = o2[k] => j = k
    BY <1>1, <1>2, <1>3
  <1>5. \A k \in DOMAIN o : o2[k] = o[k] /\ After(W, o2, k) = After(W, o, k)
    <2> TAKE k \in DOMAIN o
    <2>1. \A j \in 1..k : j \in 1..n
      BY <1>2
    <2>2. \A j \in 1..k : o2[j] = o[j]
      BY <1>2, <2>1
    <2> QED BY <1>2, <2>2 DEF After
  <1>6. {o2[j] : j \in 1..(n + 1)} = {o[j] : j \in 1..n} \union {v}
    BY <1>2, <1>3
  <1>7. After(W, o2, n + 1) = LeftOf(W, o) \ {v} /\ LeftOf(W, o2) = LeftOf(W, o) \ {v}
    BY <1>2, <1>6 DEF After, LeftOf, PlacedIn
  <1> QED BY <1>2, <1>3, <1>4, <1>5, <1>7 DEF o2, n

\* Placing a vertex of the smallest degree i among those left.
LEMMA OrderedStep ==
  ASSUME NEW W, IsFiniteSet(W), NEW A, IsSimpleGraph(W, A), NEW o, NEW g,
         Ordered(A, W, o, g), NEW v \in LeftOf(W, o), NEW i \in Nat,
         i = DegIn(A, LeftOf(W, o), v),
         \A u \in LeftOf(W, o) : DegIn(A, LeftOf(W, o), u) >= i,
         NEW h, h = IF i > g THEN i ELSE g
  PROVE  Ordered(A, W, Append(o, v), h)
  <1> DEFINE L == LeftOf(W, o)
             o2 == Append(o, v)
             n == Len(o)
  <1>1. /\ o \in Seq(W) /\ \A j, k \in DOMAIN o : o[j] = o[k] => j = k
        /\ g \in Nat /\ \A k \in DOMAIN o : DegIn(A, After(W, o, k), o[k]) <= g
        /\ g = 0 \/ \E S \in (SUBSET W) \ {{}} : \A u \in S : DegIn(A, S, u) >= g
    BY DEF Ordered
  <1>2. /\ o2 \in Seq(W) /\ DOMAIN o2 = DOMAIN o \union {n + 1}
        /\ \A j, k \in DOMAIN o2 : o2[j] = o2[k] => j = k
        /\ \A k \in DOMAIN o : o2[k] = o[k] /\ After(W, o2, k) = After(W, o, k)
        /\ o2[n + 1] = v /\ After(W, o2, n + 1) = L \ {v}
    BY <1>1, AppendPlaced
  <1>3. L \in SUBSET W /\ L \in (SUBSET W) \ {{}}
    BY DEF LeftOf
  <1>4. i = DegIn(A, L, v) /\ \A u \in L : DegIn(A, L, u) >= i
    OBVIOUS
  <1>5. v \notin A[v]
    BY <1>3 DEF IsSimpleGraph
  <1>6. DegIn(A, L \ {v}, v) = DegIn(A, L, v)
    BY <1>3, <1>5, DegreeAfter
  <1> HIDE DEF L, o2, n
  <1>7. h \in Nat /\ h >= i /\ h >= g /\ h \in {i, g}
    BY <1>1
  <1>8. \A k \in DOMAIN o2 : DegIn(A, After(W, o2, k), o2[k]) <= h
    <2> TAKE k \in DOMAIN o2
    <2>1. CASE k = n + 1
      BY <1>2, <1>4, <1>6, <1>7, <2>1
    <2>2. CASE k \in DOMAIN o
      <3> DEFINE x == DegIn(A, After(W, o, k), o[k])
      <3>1. x <= g
        BY <1>1, <2>2
      <3>2. x \in Nat
        <4>1. o[k] \in W /\ After(W, o, k) \in SUBSET W
          BY <1>1, <2>2 DEF After
        <4> QED BY <4>1, DegreeFacts
      <3>3. DegIn(A, After(W, o2, k), o2[k]) = x
        BY <1>2, <2>2
      <3> HIDE DEF x
      <3>4. x <= h
        BY <1>1, <1>7, <3>1, <3>2
      <3> QED BY <3>3, <3>4
    <2> QED BY <1>2, <2>1, <2>2
  <1>9. h = 0 \/ \E S \in (SUBSET W) \ {{}} : \A u \in S : DegIn(A, S, u) >= h
    <2>1. CASE h = i
      BY <1>3, <1>4, <2>1
    <2>2. CASE h = g
      BY <1>1, <2>2
    <2> QED BY <1>7, <2>1, <2>2
  <1>10. Ordered(A, W, o2, h)
    BY <1>2, <1>7, <1>8, <1>9 DEF Ordered
  <1> QED BY <1>10 DEF o2

-----------------------------------------------------------------------------
(***************************************************************************)
(* What a finished order is.                                               *)
(***************************************************************************)
\* A set of naturals has a least element.
LEMMA LeastNatural ==
  ASSUME NEW S \in SUBSET Nat, S # {}
  PROVE  Min(S) \in S /\ \A k \in S : Min(S) <= k
  <1>1. PICK m \in S : \A k \in S : <<k, m>> \notin OpToRel(<, Nat)
    BY NatLessThanWellFounded, WFMin
  <1>2. \A k \in S : ~(k < m)
    BY <1>1 DEF OpToRel
  <1>3. \A k \in S : m <= k
    BY <1>2
  <1> QED BY <1>3 DEF Min

\* MinDegreeIn and Degeneracy, of a given graph.
MinDegree(A, S) == Min({Cardinality(A[v] \intersect S) : v \in S})

\* The least degree is one of the degrees.
LEMMA MinDegreeFacts ==
  ASSUME NEW W, IsFiniteSet(W), NEW A, IsSimpleGraph(W, A), NEW S \in (SUBSET W) \ {{}}
  PROVE  /\ MinDegree(A, S) \in Nat
         /\ \E v \in S : MinDegree(A, S) = DegIn(A, S, v)
         /\ \A v \in S : MinDegree(A, S) <= DegIn(A, S, v)
  <1> DEFINE D == {Cardinality(A[v] \intersect S) : v \in S}
  <1>1. \A v \in S : DegIn(A, S, v) \in Nat
    BY DegreeFacts
  <1>2. D \in SUBSET Nat /\ D # {}
    BY <1>1 DEF DegIn
  <1>3. Min(D) \in D /\ \A k \in D : Min(D) <= k
    <2> HIDE DEF D
    <2> QED BY <1>2, LeastNatural
  <1> QED BY <1>2, <1>3 DEF MinDegree, DegIn

\* An order of as many vertices as there are has them all.
LEMMA AllPlaced ==
  ASSUME NEW W, IsFiniteSet(W), NEW o \in Seq(W), \A j, k \in DOMAIN o : o[j] = o[k] => j = k,
         Len(o) = Cardinality(W)
  PROVE  PlacedIn(o) = W
  <1>1. Len(o) \in Nat /\ DOMAIN o = 1..Len(o) /\ o \in [1..Len(o) -> W]
    OBVIOUS
  <1>2. IsFiniteSet(1..Len(o)) /\ Cardinality(1..Len(o)) = Len(o)
    BY <1>1, FS_Interval
  <1>3. o \in Injection(1..Len(o), W)
    BY <1>1 DEF Injection, IsInjective
  <1>4. o \in Surjection(1..Len(o), W)
    BY <1>2, <1>3, FS_Injection
  <1> QED BY <1>1, <1>4 DEF Surjection, PlacedIn

\* The first vertex of S in the order has no more neighbours in S than after it.
LEMMA SomeDegreeSmall ==
  ASSUME NEW W, IsFiniteSet(W), NEW A, IsSimpleGraph(W, A), NEW o, NEW g,
         Ordered(A, W, o, g), PlacedIn(o) = W, NEW S \in (SUBSET W) \ {{}}
  PROVE  MinDegree(A, S) <= g
  <1>1. /\ o \in Seq(W) /\ g \in Nat
        /\ \A k \in DOMAIN o : DegIn(A, After(W, o, k), o[k]) <= g
    BY DEF Ordered
  <1>2. Len(o) \in Nat /\ DOMAIN o = 1..Len(o)
    BY <1>1
  <1> DEFINE K == {k \in 1..Len(o) : o[k] \in S}
             k == Min(K)
  <1>3. K \in SUBSET Nat /\ K # {}
    BY <1>2 DEF PlacedIn
  <1>4. k \in K /\ \A j \in K : k <= j
    <2> HIDE DEF K
    <2> QED BY <1>3, LeastNatural
  <1>5. k \in 1..Len(o) /\ o[k] \in S /\ \A j \in 1..Len(o) : o[j] \in S => k <= j
    BY <1>4
  <1> HIDE DEF K, k
  <1> DEFINE v == o[k]
             T == S \ {v}
             F == After(W, o, k)
  <1>6. T \in SUBSET F
    <2>1. \A j \in 1..k : j \in 1..Len(o) /\ (j # k => ~(k <= j))
      BY <1>2, <1>5
    <2>2. \A j \in 1..k : o[j] \notin T
      BY <1>5, <2>1
    <2> QED BY <2>2 DEF After
  <1>7. v \in S /\ v \in W /\ F \in SUBSET W /\ S \in SUBSET W
    BY <1>5 DEF After
  <1>8. v \notin A[v]
    BY <1>7 DEF IsSimpleGraph
  <1>9. DegIn(A, T, v) = DegIn(A, S, v)
    BY <1>7, <1>8, DegreeAfter
  <1>10. DegIn(A, T, v) <= DegIn(A, F, v) /\ DegIn(A, T, v) \in Nat /\ DegIn(A, F, v) \in Nat
    BY <1>6, <1>7, DegreeFacts
  <1>11. DegIn(A, F, v) <= g
    BY <1>1, <1>2, <1>5
  <1>12. MinDegree(A, S) \in Nat /\ MinDegree(A, S) <= DegIn(A, S, v)
    BY <1>7, MinDegreeFacts
  <1> DEFINE m == MinDegree(A, S)
             x == DegIn(A, T, v)
             y == DegIn(A, F, v)
  <1>13. m \in Nat /\ x \in Nat /\ y \in Nat /\ g \in Nat /\ m <= x /\ x <= y /\ y <= g
    BY <1>1, <1>9, <1>10, <1>11, <1>12
  <1> HIDE DEF m, x, y
  <1>14. m <= g
    BY <1>13
  <1> QED BY <1>14 DEF m

\* A finished order has the degeneracy of the graph.
LEMMA DegeneracyFound ==
  ASSUME NEW W, IsFiniteSet(W), NEW A, IsSimpleGraph(W, A), NEW o, NEW g,
         Ordered(A, W, o, g), PlacedIn(o) = W
  PROVE  g = IF W = {} THEN 0 ELSE Max({MinDegree(A, S) : S \in (SUBSET W) \ {{}}})
  <1>1. g \in Nat /\ (g = 0 \/ \E S \in (SUBSET W) \ {{}} : \A v \in S : DegIn(A, S, v) >= g)
    BY DEF Ordered
  <1>2. CASE W = {}
    <2>1. (SUBSET W) \ {{}} = {}
      BY <1>2
    <2> QED BY <1>1, <1>2, <2>1
  <1>3. CASE W # {}
    <2> DEFINE M == {MinDegree(A, S) : S \in (SUBSET W) \ {{}}}
    <2>1. PICK S \in (SUBSET W) \ {{}} : \A v \in S : DegIn(A, S, v) >= g
      <3>1. CASE g = 0
        <4>1. W \in (SUBSET W) \ {{}}
          BY <1>3
        <4>2. \A v \in W : DegIn(A, W, v) \in Nat
          BY DegreeFacts
        <4>3. \A v \in W : DegIn(A, W, v) >= 0
          BY <4>2
        <4> QED BY <3>1, <4>1, <4>3
      <3> QED BY <1>1, <3>1
    <2>2. MinDegree(A, S) \in Nat /\ MinDegree(A, S) >= g
      <3>1. MinDegree(A, S) \in Nat /\ \E v \in S : MinDegree(A, S) = DegIn(A, S, v)
        BY MinDegreeFacts
      <3> QED BY <2>1, <3>1
    <2>3. MinDegree(A, S) <= g
      BY SomeDegreeSmall
    <2>4. g \in M
      <3>1. MinDegree(A, S) = g
        BY <1>1, <2>2, <2>3
      <3> QED BY <3>1
    <2>5. \A y \in M : y \in Nat /\ y <= g
      BY MinDegreeFacts, SomeDegreeSmall
    <2> HIDE DEF M
    <2>6. \A y \in M : g >= y
      BY <1>1, <2>5
    <2>7. Max(M) \in M /\ \A y \in M : Max(M) >= y
      BY <2>4, <2>6 DEF Max
    <2>8. Max(M) = g
      <3> DEFINE x == Max(M)
      <3>1. x \in Nat /\ x <= g /\ x >= g
        BY <2>4, <2>5, <2>7
      <3> HIDE DEF x
      <3>2. x = g
        BY <1>1, <3>1
      <3> QED BY <3>2 DEF x
    <2> QED BY <1>3, <2>8 DEF M
  <1> QED BY <1>2, <1>3

\* The later neighbours are at most the neighbours after the vertex.
LEMMA FewLater ==
  ASSUME NEW W, IsFiniteSet(W), NEW A, IsSimpleGraph(W, A), NEW o, NEW g,
         Ordered(A, W, o, g), NEW k \in DOMAIN o
  PROVE  Cardinality({j \in (k + 1)..Len(o) : o[j] \in A[o[k]]}) <= g
  <1>1. /\ o \in Seq(W) /\ g \in Nat /\ \A i, j \in DOMAIN o : o[i] = o[j] => i = j
        /\ DegIn(A, After(W, o, k), o[k]) <= g
    BY DEF Ordered
  <1>2. Len(o) \in Nat /\ DOMAIN o = 1..Len(o) /\ k \in 1..Len(o) /\ o[k] \in W
        /\ \A j \in 1..Len(o) : o[j] \in W
    BY <1>1
  <1> DEFINE J == {j \in (k + 1)..Len(o) : o[j] \in A[o[k]]}
             F == After(W, o, k)
             N == A[o[k]] \intersect F
             f == [j \in J |-> o[j]]
  <1>3. \A j \in J : j \in 1..Len(o) /\ (\A i \in 1..k : i # j /\ i \in 1..Len(o)) /\ o[j] \in A[o[k]]
    BY <1>2
  <1>4. \A j \in J : o[j] \in N
    BY <1>1, <1>2, <1>3 DEF After
  <1>5. F \in SUBSET W
    BY DEF After
  <1>6. IsFiniteSet(N) /\ DegIn(A, F, o[k]) \in Nat
    BY <1>2, <1>5, DegreeFacts
  <1>7. Cardinality(N) \in Nat /\ Cardinality(N) <= g
    BY <1>1, <1>6 DEF DegIn
  <1>8. f \in Injection(J, N)
    BY <1>1, <1>2, <1>3, <1>4 DEF Injection, IsInjective
  <1> HIDE DEF J, N, f
  <1>9. IsFiniteSet(J) /\ Cardinality(J) <= Cardinality(N)
    BY <1>6, <1>8, FS_Injection
  <1>10. Cardinality(J) \in Nat
    BY <1>9, FS_CardinalityType
  <1>11. Cardinality(J) <= g
    BY <1>1, <1>7, <1>9, <1>10
  <1> QED BY <1>11 DEF J

-----------------------------------------------------------------------------
(***************************************************************************)
(* The steps that order.                                                   *)
(***************************************************************************)
\* Without a reserved vertex, the graph that was read is what the ordering needs.
LEMMA GraphRead ==
  ASSUME InputInv, Unreserved
  PROVE  /\ IsFiniteSet(V) /\ IsSimpleGraph(V, adj) /\ maxdeg \in Int /\ maxdeg >= -1
         /\ \A v \in V : HashedSize(v) \in Nat /\ DegIn(adj, V, v) = HashedSize(v)
  <1>1. ListsOK(adjList, maxdeg)
    BY DEF InputInv
  <1>2. /\ DOMAIN adj = V /\ adj = [v \in V |-> adj[v]]
        /\ \A v \in V : adj[v] = ToSet(adjList[v]) /\ HashedSize(v) = Cardinality(adj[v])
    <2>1. DOMAIN adj = V /\ adj = [v \in V |-> adj[v]]
      BY DEF adj, V
    <2>2. \A v \in V : adj[v] = ToSet(adjList[v]) /\ HashedSize(v) = Cardinality(adj[v])
      BY <1>1, HashedLists DEF V
    <2> QED BY <2>1, <2>2
  <1>3. \A v \in V : \A w \in adj[v] : w # v /\ w \in V /\ v \in adj[w]
    BY <1>1, <1>2 DEF ListsOK, V
  <1>4. \A v \in V : adj[v] \in SUBSET V
    BY <1>3
  <1>5. adj \in [V -> SUBSET V]
    BY <1>2, <1>4
  <1>6. IsSimpleGraph(V, adj)
    BY <1>3, <1>5 DEF IsSimpleGraph
  <1>7. IsFiniteSet(V) /\ maxdeg \in Int /\ maxdeg >= -1
    BY <1>1 DEF ListsOK, V
  <1>8. \A v \in V : DegIn(adj, V, v) = HashedSize(v)
    <2> TAKE v \in V
    <2>1. adj[v] \intersect V = adj[v]
      BY <1>4
    <2> QED BY <1>2, <2>1 DEF DegIn
  <1>9. \A v \in V : DegIn(adj, V, v) \in Nat
    BY <1>6, <1>7, DegreeFacts
  <1> QED BY <1>6, <1>7, <1>8, <1>9

\* The vertices and the adjacency are those of the lists.
LEMMA SameGraph ==
  ASSUME UNCHANGED graphVars
  PROVE  V' = V /\ adj' = adj /\ maxdeg' = maxdeg /\ Unreserved' = Unreserved
  BY DEF graphVars, V, adj, Unreserved

\* With a reserved vertex, only pc and degen matter.
LEMMA ReservedKeeps ==
  ASSUME OrderInv, ~Unreserved, UNCHANGED graphVars,
         pc' = "order" \/ (pc' = "assert" /\ pc = "ready" /\ degen' = degen)
  PROVE  OrderInv'
  <1>1. ~Unreserved'
    BY SameGraph
  <1> QED BY <1>1 DEF OrderInv

\* FillBuckets starts from all vertices.
LEMMA FillKeeps ==
  ASSUME InputInv, OrderInv, Unreserved, FillBuckets
  PROVE  OrderInv'
  <1>1. pc = "ready" /\ degen = -1 /\ UNCHANGED graphVars
    BY DEF FillBuckets, OrderInv
  <1>2. V' = V /\ adj' = adj /\ maxdeg' = maxdeg
    BY <1>1, SameGraph
  <1>3. CASE \E v \in V : HashedSize(v) >= maxdeg + 1
    <2>1. pc' = "assert" /\ degen' = degen
      BY <1>3 DEF FillBuckets, orderVars
    <2> QED BY <1>1, <2>1 DEF OrderInv
  <1>4. CASE ~\E v \in V : HashedSize(v) >= maxdeg + 1
    <2>1. /\ pc' = "order" /\ ordering' = << >> /\ degen' = 0
          /\ degArray' = [d \in 0..maxdeg |-> {v \in V : HashedSize(v) = d}]
          /\ nodeDegrees' = [v \in V |-> HashedSize(v)]
      BY <1>4 DEF FillBuckets
    <2>2. /\ IsFiniteSet(V) /\ IsSimpleGraph(V, adj) /\ maxdeg \in Int /\ maxdeg >= -1
          /\ \A v \in V : HashedSize(v) \in Nat /\ DegIn(adj, V, v) = HashedSize(v)
      BY GraphRead
    <2>3. \A v \in V : HashedSize(v) \in 0..maxdeg
      BY <1>4, <2>2
    <2>4. LeftOf(V, << >>) = V
      BY DEF LeftOf, PlacedIn
    <2>5. Bucketed(adj, V, V, degArray', nodeDegrees', maxdeg)
      BY <2>1, <2>2, <2>3 DEF Bucketed
    <2>6. Ordered(adj, V, << >>, 0)
      BY DEF Ordered
    <2> QED BY <1>2, <2>1, <2>4, <2>5, <2>6 DEF OrderInv
  <1> QED BY <1>3, <1>4

\* Place takes a vertex of the smallest remaining degree.
LEMMA PlaceKeeps ==
  ASSUME InputInv, OrderInv, Unreserved, NEW i \in DOMAIN degArray, NEW v \in degArray[i],
         Place(i, v)
  PROVE  OrderInv'
  <1> DEFINE L == LeftOf(V, ordering)
             B == degArray
             N == nodeDegrees
  <1>1. /\ pc = "order" /\ pc' = "order" /\ FirstBucket(i) /\ UNCHANGED graphVars
        /\ ordering' = Append(ordering, v) /\ degen' = Raised(i)
        /\ nodeDegrees' = [n \in V |-> N[n] - (IF n \in Remaining(v) THEN 1 ELSE 0)]
        /\ degArray' = [d \in DOMAIN B |-> Lowered(v, d)]
    BY DEF Place
  <1>2. V' = V /\ adj' = adj /\ maxdeg' = maxdeg
    BY <1>1, SameGraph
  <1>3. Ordered(adj, V, ordering, degen) /\ Bucketed(adj, V, L, B, N, maxdeg)
    BY <1>1 DEF OrderInv
  <1>4. IsFiniteSet(V) /\ IsSimpleGraph(V, adj) /\ maxdeg \in Int
    BY GraphRead
  <1>5. /\ DOMAIN B = 0..maxdeg /\ N \in [V -> 0..maxdeg]
        /\ \A d \in 0..maxdeg : B[d] = {n \in L : DegIn(adj, L, n) = d}
        /\ \A n \in L : N[n] = DegIn(adj, L, n)
    BY <1>3 DEF Bucketed
  <1>6. L \in SUBSET V
    BY DEF LeftOf
  <1>7. v \in L /\ DegIn(adj, L, v) = i /\ i \in 0..maxdeg
    BY <1>5
  <1>8. Remaining(v) = adj[v] \intersect L
    <2>1. v \in V
      BY <1>6, <1>7
    <2> HIDE DEF L, B, N
    <2>2. \A n \in adj[v] : n \in B[N[n]] <=> n \in L
      BY <1>3, <1>4, <1>6, <2>1, RemainingIsLeft
    <2> QED BY <2>2 DEF Remaining, B, N
  <1>9. NeighboursMoved(adj, V, L, B, N, v, degArray', nodeDegrees')
    <2>1. \A d : Lowered(v, d) = BucketAfter(B, N, adj[v] \intersect L, v, d)
      BY <1>8 DEF Lowered, BucketAfter
    <2> QED BY <1>1, <1>8, <2>1 DEF NeighboursMoved
  <1>10. Bucketed(adj, V, L \ {v}, degArray', nodeDegrees', maxdeg)
    BY <1>3, <1>4, <1>6, <1>7, <1>9, BucketStep
  <1>11. \A u \in L : DegIn(adj, L, u) >= i
    <2> TAKE u \in L
    <2>1. N[u] \in 0..maxdeg /\ u \in B[N[u]] /\ N[u] = DegIn(adj, L, u)
      BY <1>5, <1>6
    <2>2. \A j \in 0..(i - 1) : B[j] = {}
      BY <1>1 DEF FirstBucket
    <2>3. N[u] \notin 0..(i - 1)
      BY <2>1, <2>2
    <2> QED BY <1>4, <1>7, <2>1, <2>3
  <1>12. Ordered(adj, V, Append(ordering, v), Raised(i))
    <2>1. Raised(i) = IF i > degen THEN i ELSE degen
      BY DEF Raised
    <2>2. i \in Nat
      BY <1>4, <1>7
    <2> QED BY <1>3, <1>4, <1>7, <1>11, <2>1, <2>2, OrderedStep
  <1>13. LeftOf(V, Append(ordering, v)) = L \ {v}
    BY <1>3, <1>7, AppendPlaced DEF Ordered
  <1> QED BY <1>1, <1>2, <1>10, <1>12, <1>13 DEF OrderInv

\* Every other step leaves the order as it is, or makes one without degen.
LEMMA OrderStays ==
  ASSUME OrderInv, UNCHANGED graphVars, UNCHANGED <<degArray, nodeDegrees, ordering, degen>>,
         pc' = pc \/ (pc = "enumerate" /\ pc' = "done")
  PROVE  OrderInv'
  <1>1. V' = V /\ adj' = adj /\ maxdeg' = maxdeg /\ Unreserved' = Unreserved
    BY SameGraph
  <1> QED BY <1>1 DEF OrderInv

ProgramInv == InputInv /\ OrderInv

\* Every step preserves both invariants.
LEMMA ProgramStep ==
  ASSUME ProgramInv, [Next]_vars
  PROVE  ProgramInv'
  <1> USE DEF ProgramInv
  <1>1. CASE Read
    <2>1. pc = "read" /\ pc' \in {"read", "ready"} /\ degen' = degen
      BY <1>1 DEF Read, InputNext, ReadLine, EndOfFile, orderVars
    <2>2. InputInv'
      BY <1>1, ReadLineKeeps, EndOfFileKeeps DEF Read, InputNext
    <2> QED BY <2>1, <2>2 DEF OrderInv
  <1>2. CASE Order
    <2>1. CASE FillBuckets
      <3>1. InputInv'
        BY <2>1, InputStays DEF FillBuckets
      <3>2. /\ UNCHANGED graphVars
            /\ pc' = "order" \/ (pc' = "assert" /\ pc = "ready" /\ degen' = degen)
        BY <2>1 DEF FillBuckets, orderVars
      <3> QED BY <2>1, <3>1, <3>2, FillKeeps, ReservedKeeps
    <2>2. CASE OrderingDone
      <3>1. /\ pc = "order" /\ pc' = "enumerate" /\ UNCHANGED graphVars /\ Len(ordering) = nodeNo
            /\ ordering' = ordering /\ degen' = degen
        BY <2>2 DEF OrderingDone
      <3>2. InputInv'
        BY <3>1, InputStays
      <3>3. V' = V /\ adj' = adj /\ Unreserved' = Unreserved
        BY <3>1, SameGraph
      <3>4. nodeNo = Cardinality(V)
        BY <3>1 DEF InputInv, V
      <3> QED BY <3>1, <3>2, <3>3, <3>4 DEF OrderInv
    <2>3. CASE \E i \in DOMAIN degArray : \E v \in degArray[i] : Place(i, v)
      <3>1. InputInv'
        BY <2>3, InputStays DEF Place
      <3>2. UNCHANGED graphVars /\ pc' = "order"
        BY <2>3 DEF Place
      <3> QED BY <2>3, <3>1, <3>2, PlaceKeeps, ReservedKeeps
    <2> QED BY <1>2, <2>1, <2>2, <2>3 DEF Order, OrderNext
  <1>3. CASE NoOrder
    <2>1. pc = "ready" /\ pc' = "enumerate" /\ UNCHANGED graphVars /\ degen' = degen
      BY <1>3 DEF NoOrder
    <2>2. InputInv'
      BY <2>1, InputStays
    <2> QED BY <2>1, <2>2 DEF OrderInv
  <1>4. CASE (\E t \in Threads, C \in Cliques : Report(t, C)) \/ writeCliqueHist \/ UNCHANGED vars
    <2>1. /\ UNCHANGED graphVars /\ UNCHANGED <<degArray, nodeDegrees, ordering, degen>>
          /\ pc' = pc \/ (pc = "enumerate" /\ pc' = "done")
      BY <1>4 DEF Report, writeCliqueHist, vars, orderVars
    <2> QED BY <2>1, InputStays, OrderStays
  <1> QED BY <1>1, <1>2, <1>3, <1>4 DEF Next, Terminated

\* The invariants hold throughout.
LEMMA ProgramInvariant == Spec => []ProgramInv
  <1>1. Init => ProgramInv
    BY InputStarts DEF Init, InputInit, OrderInit, OrderInv, ProgramInv
  <1>2. ProgramInv /\ [Next]_vars => ProgramInv'
    BY ProgramStep
  <1> QED BY <1>1, <1>2, PTL DEF Spec

\* The invariant gives BucketsExact.
LEMMA BucketsInv ==
  ASSUME ProgramInv
  PROVE  BucketsExact
  <1> SUFFICES ASSUME pc = "order", Unreserved, NEW d \in DOMAIN degArray
               PROVE  degArray[d] = {v \in Left : Cardinality(adj[v] \intersect Left) = d}
    BY DEF BucketsExact
  <1>1. Left = LeftOf(V, ordering)
    BY DEF Left, Placed, LeftOf, PlacedIn
  <1>2. Bucketed(adj, V, LeftOf(V, ordering), degArray, nodeDegrees, maxdeg)
    BY DEF ProgramInv, OrderInv
  <1>3. degArray[d] = {v \in LeftOf(V, ordering) : DegIn(adj, LeftOf(V, ordering), v) = d}
    BY <1>2 DEF Bucketed
  <1> QED BY <1>1, <1>3 DEF DegIn

\* The invariant gives OrderingCorrect.
LEMMA OrderingInv ==
  ASSUME ProgramInv
  PROVE  OrderingCorrect
  <1> SUFFICES ASSUME pc = "enumerate", degen # -1, Unreserved
               PROVE  /\ Placed = V /\ Len(ordering) = Cardinality(V)
                      /\ degen = Degeneracy
                      /\ \A k \in DOMAIN ordering : Cardinality(LaterNeighbours(k)) <= degen
    BY DEF OrderingCorrect
  <1>1. Ordered(adj, V, ordering, degen) /\ Len(ordering) = Cardinality(V)
    BY DEF ProgramInv, OrderInv
  <1>2. IsFiniteSet(V) /\ IsSimpleGraph(V, adj)
    BY GraphRead DEF ProgramInv
  <1>3. PlacedIn(ordering) = V
    BY <1>1, <1>2, AllPlaced DEF Ordered
  <1>4. Placed = V
    BY <1>3 DEF Placed, PlacedIn
  <1>5. degen = Degeneracy
    <2>1. degen = IF V = {} THEN 0 ELSE Max({MinDegree(adj, S) : S \in (SUBSET V) \ {{}}})
      BY <1>1, <1>2, <1>3, DegeneracyFound
    <2> QED BY <2>1 DEF Degeneracy, MinDegreeIn, MinDegree
  <1>6. \A k \in DOMAIN ordering : Cardinality(LaterNeighbours(k)) <= degen
    BY <1>1, <1>2, FewLater DEF LaterNeighbours
  <1> QED BY <1>1, <1>4, <1>5, <1>6

-----------------------------------------------------------------------------
(***************************************************************************)
(* For every file, whatever its rows (incomplete ones included, with any   *)
(* value in the ints they leave uninitialized), from which no reserved key *)
(* becomes a vertex: the lists of initFromFile and addEdge are a symmetric *)
(* graph without loops, hashSet keeps each of them, their sizes are the    *)
(* degrees, and maxdeg bounds these.                                       *)
(***************************************************************************)
THEOREM InputGraphSane == Spec => []GraphSane
  <1>1. ProgramInv => GraphSane
    BY SaneInv DEF ProgramInv
  <1> QED BY <1>1, ProgramInvariant, PTL

(***************************************************************************)
(* For every file in the format of README.md, of any length, whose last    *)
(* row ends and which names no reserved key: the graph that initFromFile   *)
(* leaves, with its number of edges, is the one the file describes, and    *)
(* the number of vertices is that of the first row, if that counts the     *)
(* vertices that have a row.                                               *)
(***************************************************************************)
THEOREM InputAsDescribed == Spec => []GraphAsDescribed
  <1>1. ProgramInv => GraphAsDescribed
    BY DescribedInv DEF ProgramInv
  <1> QED BY <1>1, ProgramInvariant, PTL

(***************************************************************************)
(* In degeneracyOrdering, for every graph without a reserved vertex and    *)
(* every choice within a bucket, degArray holds every vertex not yet       *)
(* placed in the bucket of its remaining degree, and no other.             *)
(***************************************************************************)
THEOREM DegreeBucketsExact == Spec => []BucketsExact
  <1>1. ProgramInv => BucketsExact
    BY BucketsInv
  <1> QED BY <1>1, ProgramInvariant, PTL

(***************************************************************************)
(* The result of degeneracyOrdering, for every graph without a reserved    *)
(* vertex: a permutation of the vertices, degen is the degeneracy of the   *)
(* graph by its textbook definition, and no vertex has more than degen     *)
(* neighbours after it.                                                    *)
(***************************************************************************)
THEOREM DegeneracyCorrect == Spec => []OrderingCorrect
  <1>1. ProgramInv => OrderingCorrect
    BY OrderingInv
  <1> QED BY <1>1, ProgramInvariant, PTL

-----------------------------------------------------------------------------
(***************************************************************************)
(* The histograms of the threads, h, and the cliques reported so far, R.   *)
(***************************************************************************)
SumOf(h, k) == FoldFunction(+, 0, [t \in Threads |-> Get(h[t], k)])
SeenIn(h) == UNION {DOMAIN h[t] : t \in Threads}
SizedIn(R, k) == {C \in R : Cardinality(C) = k}

\* Together, the threads have counted every reported clique once.
HistOf(h, R) ==
  /\ DOMAIN h = Threads
  /\ \A t \in Threads : \A k \in DOMAIN h[t] : h[t][k] \in Nat
  /\ \A k : SumOf(h, k) = Cardinality(SizedIn(R, k))
  /\ SeenIn(h) = {Cardinality(C) : C \in R}

Printed(h) == [total |-> FoldFunction(+, 0, [k \in SeenIn(h) |-> SumOf(h, k)]),
               rows |-> [k \in SeenIn(h) |-> ToInt(SumOf(h, k))]]

ReportInv ==
  /\ reported \subseteq Cliques
  /\ pc \notin {"enumerate", "done"} => reported = {}
  /\ HistOf(pt_hist, reported)
  /\ pc = "done" => Unreserved /\ reported = Cliques /\ output = Printed(pt_hist)

\* One more clique of size k in a thread's histogram g.
LEMMA CountedFacts ==
  ASSUME NEW g, NEW k, \A j \in DOMAIN g : g[j] \in Nat
  PROVE  /\ \A j : Get(g, j) \in Nat
         /\ DOMAIN Counted(g, k) = DOMAIN g \union {k}
         /\ \A j \in DOMAIN Counted(g, k) : Counted(g, k)[j] \in Nat
         /\ \A j : Get(Counted(g, k), j) = IF j = k THEN Get(g, j) + 1 ELSE Get(g, j)
  <1>1. \A j : Get(g, j) \in Nat
    BY DEF Get
  <1>2. /\ DOMAIN Counted(g, k) = DOMAIN g \union {k}
        /\ \A j \in DOMAIN Counted(g, k) : Counted(g, k)[j] = Get(g, j) + (IF j = k THEN 1 ELSE 0)
    BY DEF Counted
  <1>3. \A j \in DOMAIN Counted(g, k) : Counted(g, k)[j] \in Nat
    BY <1>1, <1>2
  <1>4. ASSUME NEW j
        PROVE  Get(Counted(g, k), j) = IF j = k THEN Get(g, j) + 1 ELSE Get(g, j)
    <2>1. CASE j \in DOMAIN g \union {k}
      <3>1. Get(Counted(g, k), j) = Get(g, j) + (IF j = k THEN 1 ELSE 0)
        BY <1>2, <2>1 DEF Get
      <3> QED BY <1>1, <3>1
    <2>2. CASE j \notin DOMAIN g \union {k}
      BY <1>2, <2>2 DEF Get
    <2> QED BY <2>1, <2>2
  <1> QED BY <1>1, <1>2, <1>3, <1>4

\* The cliques of one size, and one more clique.
LEMMA SizedFacts ==
  ASSUME NEW R, IsFiniteSet(R), NEW C, C \notin R, NEW k
  PROVE  /\ IsFiniteSet(SizedIn(R, k)) /\ Cardinality(SizedIn(R, k)) \in Nat
         /\ Cardinality(SizedIn(R \union {C}, k)) =
              IF Cardinality(C) = k THEN Cardinality(SizedIn(R, k)) + 1
              ELSE Cardinality(SizedIn(R, k))
  <1> DEFINE S == SizedIn(R, k)
  <1>1. S \in SUBSET R /\ C \notin S
    BY DEF SizedIn
  <1>2. IsFiniteSet(S) /\ Cardinality(S) \in Nat
    BY <1>1, FS_Subset, FS_CardinalityType
  <1>3. Cardinality(C) = k => SizedIn(R \union {C}, k) = S \union {C}
    BY DEF SizedIn
  <1>4. Cardinality(C) # k => SizedIn(R \union {C}, k) = S
    BY DEF SizedIn
  <1> HIDE DEF S
  <1>5. Cardinality(S \union {C}) = Cardinality(S) + 1
    BY <1>1, <1>2, FS_AddElement
  <1> QED BY <1>2, <1>3, <1>4, <1>5 DEF S

\* A report by one thread.
LEMMA HistStep ==
  ASSUME NEW h, NEW R, HistOf(h, R), IsFiniteSet(R), NEW t \in Threads, NEW C, C \notin R,
         NEW h2, h2 = [h EXCEPT ![t] = Counted(h[t], Cardinality(C))]
  PROVE  HistOf(h2, R \union {C})
  <1> DEFINE k == Cardinality(C)
             R2 == R \union {C}
  <1>1. /\ DOMAIN h = Threads /\ SeenIn(h) = {Cardinality(D) : D \in R}
        /\ \A u \in Threads : \A j \in DOMAIN h[u] : h[u][j] \in Nat
        /\ \A j : SumOf(h, j) = Cardinality(SizedIn(R, j))
    BY DEF HistOf
  <1>2. /\ DOMAIN h2 = Threads /\ h2[t] = Counted(h[t], k)
        /\ \A u \in Threads : u # t => h2[u] = h[u]
    BY <1>1
  <1> HIDE DEF k
  <1>3. /\ \A j : Get(h[t], j) \in Nat
        /\ DOMAIN h2[t] = DOMAIN h[t] \union {k}
        /\ \A j \in DOMAIN h2[t] : h2[t][j] \in Nat
        /\ \A j : Get(h2[t], j) = IF j = k THEN Get(h[t], j) + 1 ELSE Get(h[t], j)
    <2> DEFINE g == h[t]
    <2>1. (\A j \in DOMAIN g : g[j] \in Nat) /\ h2[t] = Counted(g, k)
      BY <1>1, <1>2
    <2> HIDE DEF g
    <2>2. /\ \A j : Get(g, j) \in Nat
          /\ DOMAIN Counted(g, k) = DOMAIN g \union {k}
          /\ \A j \in DOMAIN Counted(g, k) : Counted(g, k)[j] \in Nat
          /\ \A j : Get(Counted(g, k), j) = IF j = k THEN Get(g, j) + 1 ELSE Get(g, j)
      BY <2>1, CountedFacts
    <2> QED BY <2>1, <2>2 DEF g
  <1>4. \A u \in Threads : \A j \in DOMAIN h2[u] : h2[u][j] \in Nat
    BY <1>1, <1>2, <1>3
  <1>5. ASSUME NEW j PROVE SumOf(h2, j) = Cardinality(SizedIn(R2, j))
    <2> DEFINE f == [u \in Threads |-> Get(h[u], j)]
               f2 == [u \in Threads |-> Get(h2[u], j)]
               d == IF j = k THEN 1 ELSE 0
    <2>1. SumOf(h, j) = SumOn(f, Threads) /\ SumOf(h2, j) = SumOn(f2, Threads)
      BY FoldIsSum DEF SumOf
    <2>2. \A u \in Threads : f[u] \in Int
      BY <1>1 DEF Get
    <2>3. \A u \in Threads : f2[u] = IF u = t THEN f[u] + d ELSE f[u]
      BY <1>2, <1>3
    <2>4. d \in Int
      OBVIOUS
    <2> HIDE DEF f, f2, d
    <2>5. SumOn(f2, Threads) = SumOn(f, Threads) + d
      BY <2>2, <2>3, <2>4, SumChange, ProgramAssumption
    <2>6. /\ Cardinality(SizedIn(R, j)) \in Nat
          /\ Cardinality(SizedIn(R2, j)) =
               IF k = j THEN Cardinality(SizedIn(R, j)) + 1 ELSE Cardinality(SizedIn(R, j))
      BY SizedFacts DEF k
    <2>7. SumOf(h2, j) = Cardinality(SizedIn(R, j)) + d
      BY <1>1, <2>1, <2>5
    <2> QED BY <2>6, <2>7 DEF d
  <1>6. SeenIn(h2) = {Cardinality(D) : D \in R2}
    <2>1. \A j : j \in SeenIn(h2) <=> j \in SeenIn(h) \/ j = k
      BY <1>2, <1>3 DEF SeenIn
    <2>2. \A j : j \in {Cardinality(D) : D \in R2} <=> j \in {Cardinality(D) : D \in R} \/ j = k
      BY DEF k
    <2>3. \A j : j \in SeenIn(h2) <=> j \in {Cardinality(D) : D \in R2}
      BY <1>1, <2>1, <2>2
    <2> QED BY <2>3
  <1> QED BY <1>2, <1>4, <1>5, <1>6 DEF HistOf

\* Every clique is of one size: the rows add up to the number of cliques.
LEMMA RowsAddUp ==
  ASSUME NEW R, IsFiniteSet(R), NEW K, IsFiniteSet(K), \A C \in R : Cardinality(C) \in K,
         NEW f, \A k \in K : f[k] = Cardinality(SizedIn(R, k))
  PROVE  SumOn(f, K) = Cardinality(R)
  <1> DEFINE c == [C \in R |-> Cardinality(C)]
  <1>1. /\ \A C \in R : c[C] \in K
        /\ \A k \in K : SizedIn(R, k) = PartOf(R, c, k)
    BY DEF SizedIn, PartOf
  <1> HIDE DEF c
  <1>2. \A k \in K : f[k] = Cardinality(PartOf(R, c, k))
    BY <1>1
  <1> QED BY <1>1, <1>2, SumOfParts

\* The conversion of a long to an int is exact below half of its range.
LEMMA ToIntExact ==
  ASSUME NEW n \in Nat, n < IntRange \div 2
  PROVE  ToInt(n) = n
  <1> DEFINE c == IntRange
             h == IntRange \div 2
             a == n + h
  <1>1. c \in Nat \ {0} /\ h \in Nat \ {0} /\ c = 2 * h
    BY ProgramAssumption
  <1>2. ToInt(n) = (a % c) - h /\ n < h
    BY DEF ToInt
  <1> HIDE DEF c, h
  <1>3. a \in 0..(c - 1) /\ a = n + h
    BY <1>1, <1>2
  <1> HIDE DEF a
  <1>4. a % c = a
    BY <1>1, <1>3
  <1> QED BY <1>1, <1>2, <1>3, <1>4

\* There are finitely many cliques.
LEMMA CliquesFinite ==
  ASSUME InputInv
  PROVE  IsFiniteSet(Cliques)
  <1>1. IsFiniteSet(V)
    BY DEF InputInv, ListsOK, V
  <1>2. IsFiniteSet(SUBSET V)
    BY <1>1, FS_SUBSET
  <1>3. Cliques \subseteq SUBSET V
    BY DEF Cliques, WantedCliques
  <1> QED BY <1>2, <1>3, FS_Subset

\* No thread has counted a clique.
LEMMA HistStarts ==
  ASSUME NEW h, h = [t \in Threads |-> << >>]
  PROVE  HistOf(h, {})
  <1>1. DOMAIN h = Threads /\ \A t \in Threads : DOMAIN h[t] = {}
    OBVIOUS
  <1>2. ASSUME NEW k PROVE SumOf(h, k) = Cardinality(SizedIn({}, k))
    <2> DEFINE f == [t \in Threads |-> Get(h[t], k)]
    <2>1. SumOf(h, k) = SumOn(f, Threads)
      BY FoldIsSum DEF SumOf
    <2>2. \A t \in Threads : f[t] = 0
      BY <1>1 DEF Get
    <2> HIDE DEF f
    <2>3. SumOn(f, Threads) = 0
      BY <2>2, SumZero, ProgramAssumption
    <2>4. SizedIn({}, k) = {}
      BY DEF SizedIn
    <2> QED BY <2>1, <2>3, <2>4, FS_EmptySet
  <1>3. SeenIn(h) = {}
    BY <1>1 DEF SeenIn
  <1>4. {Cardinality(C) : C \in {}} = {}
    OBVIOUS
  <1> QED BY <1>1, <1>2, <1>3, <1>4 DEF HistOf

\* Every step keeps the reports and the histograms together.
LEMMA ReportStep ==
  ASSUME InputInv, ReportInv, [Next]_vars
  PROVE  ReportInv'
  <1>1. CASE Read \/ Order \/ NoOrder
    <2>1. /\ pc \notin {"enumerate", "done"} /\ pc' # "done"
          /\ reported' = reported /\ pt_hist' = pt_hist /\ output' = output
      BY <1>1 DEF Read, InputNext, ReadLine, EndOfFile, Order, OrderNext, FillBuckets, OrderingDone,
                  Place, NoOrder, enumVars
    <2> QED BY <2>1 DEF ReportInv
  <1>2. ASSUME NEW t \in Threads, NEW C \in Cliques, Report(t, C)
        PROVE  ReportInv'
    <2>1. /\ pc = "enumerate" /\ C \notin reported /\ reported' = reported \union {C}
          /\ pt_hist' = [pt_hist EXCEPT ![t] = Counted(pt_hist[t], Cardinality(C))]
          /\ pc' = pc /\ UNCHANGED graphVars
      BY <1>2 DEF Report
    <2>2. Cliques' = Cliques
      BY <2>1, SameGraph DEF Cliques
    <2>3. HistOf(pt_hist, reported) /\ reported \subseteq Cliques
      BY DEF ReportInv
    <2>4. IsFiniteSet(reported)
      BY <2>3, CliquesFinite, FS_Subset
    <2>5. HistOf(pt_hist', reported \union {C})
      BY <2>1, <2>3, <2>4, HistStep
    <2> QED BY <2>1, <2>2, <2>3, <2>5 DEF ReportInv
  <1>3. CASE writeCliqueHist
    <2>1. /\ pc = "enumerate" /\ pc' = "done" /\ reported = Cliques
          /\ UNCHANGED graphVars /\ reported' = reported /\ pt_hist' = pt_hist
      BY <1>3 DEF writeCliqueHist
    <2>2. Cliques' = Cliques /\ Unreserved' = Unreserved /\ Unreserved
      BY <1>3, <2>1, SameGraph DEF Cliques, writeCliqueHist
    <2>3. output' = Printed(pt_hist)
      BY <1>3 DEF writeCliqueHist, Printed, SeenIn, SumOf, SizesSeen, SumOver
    <2> QED BY <2>1, <2>2, <2>3 DEF ReportInv
  <1>4. CASE UNCHANGED vars
    <2>1. UNCHANGED graphVars /\ pc' = pc /\ reported' = reported /\ pt_hist' = pt_hist /\ output' = output
      BY <1>4 DEF vars, enumVars
    <2>2. Cliques' = Cliques /\ Unreserved' = Unreserved
      BY <2>1, SameGraph DEF Cliques
    <2> QED BY <2>1, <2>2 DEF ReportInv
  <1> QED BY <1>1, <1>2, <1>3, <1>4 DEF Next, Terminated

\* The reports and the histograms agree throughout.
LEMMA ReportInvariant == Spec => []ReportInv
  <1>1. Init => ReportInv
    <2> SUFFICES ASSUME Init PROVE ReportInv
      OBVIOUS
    <2>1. pc = "read" /\ reported = {} /\ pt_hist = [t \in Threads |-> << >>]
      BY DEF Init, InputInit
    <2> QED BY <2>1, HistStarts DEF ReportInv
  <1>2. ProgramInv /\ ReportInv /\ [Next]_vars => ReportInv'
    BY ReportStep DEF ProgramInv
  <1> QED BY <1>1, <1>2, ProgramInvariant, PTL DEF Spec

\* The invariants give OutputCorrect.
LEMMA OutputInv ==
  ASSUME ProgramInv, ReportInv
  PROVE  OutputCorrect
  <1> SUFFICES ASSUME pc = "done", WellFormed, LastRowEnds
               PROVE  /\ output.total = Cardinality(DescribedCliques)
                      /\ DOMAIN output.rows = {Cardinality(C) : C \in DescribedCliques}
                      /\ \A k \in DOMAIN output.rows :
                           Cardinality(OfSize(k)) < IntRange \div 2 =>
                             output.rows[k] = Cardinality(OfSize(k))
    BY DEF OutputCorrect
  <1> DEFINE D == DescribedCliques
             h == pt_hist
             K == SeenIn(h)
  <1>1. D = Cliques
    <2>1. adj = DescribedAdj
      BY DescribedInv DEF ProgramInv, ReportInv, GraphAsDescribed
    <2>2. V = DOMAIN adj
      BY DEF V, adj
    <2> QED BY <2>1, <2>2 DEF DescribedCliques, Cliques
  <1>2. IsFiniteSet(D)
    BY <1>1, CliquesFinite DEF ProgramInv
  <1>3. HistOf(h, D) /\ output = Printed(h)
    BY <1>1 DEF ReportInv
  <1> HIDE DEF D, h
  <1>4. K = {Cardinality(C) : C \in D} /\ \A k : SumOf(h, k) = Cardinality(SizedIn(D, k))
    BY <1>3 DEF HistOf
  <1>5. IsFiniteSet(K)
    <2> DEFINE size == [C \in D |-> Cardinality(C)]
    <2>1. size \in Surjection(D, K)
      BY <1>4 DEF Surjection
    <2> QED BY <1>2, <2>1, FS_Surjection
  <1>6. \A k : OfSize(k) = SizedIn(D, k)
    BY DEF OfSize, SizedIn, D
  <1>7. \A k : Cardinality(SizedIn(D, k)) \in Nat
    <2> TAKE k
    <2>1. SizedIn(D, k) \subseteq D
      BY DEF SizedIn
    <2> QED BY <1>2, <2>1, FS_Subset, FS_CardinalityType
  <1>8. output.total = Cardinality(D)
    <2> DEFINE f == [k \in K |-> SumOf(h, k)]
    <2>1. output.total = SumOn(f, K)
      BY <1>3, FoldIsSum DEF Printed
    <2>2. \A k \in K : f[k] = Cardinality(SizedIn(D, k))
      BY <1>4
    <2>3. \A C \in D : Cardinality(C) \in K
      BY <1>4
    <2> HIDE DEF f, K
    <2>4. SumOn(f, K) = Cardinality(D)
      BY <1>2, <1>5, <2>2, <2>3, RowsAddUp
    <2> QED BY <2>1, <2>4
  <1>9. DOMAIN output.rows = K /\ \A k \in K : output.rows[k] = ToInt(SumOf(h, k))
    BY <1>3 DEF Printed
  <1> HIDE DEF K
  <1>10. ASSUME NEW k \in K, Cardinality(OfSize(k)) < IntRange \div 2
         PROVE  output.rows[k] = Cardinality(OfSize(k))
    <2> DEFINE n == Cardinality(OfSize(k))
    <2>1. n \in Nat /\ output.rows[k] = ToInt(n) /\ n < IntRange \div 2
      BY <1>4, <1>6, <1>7, <1>9, <1>10
    <2> HIDE DEF n
    <2>2. ToInt(n) = n
      BY <2>1, ToIntExact
    <2> QED BY <2>1, <2>2 DEF n
  <1> QED BY <1>4, <1>8, <1>9, <1>10 DEF D

(***************************************************************************)
(* From the file to the output, for every file in the format of README.md  *)
(* whose last row ends and whose first row counts the vertices that have a *)
(* row, any number of threads and any division of the cliques among them:  *)
(* the total that writeCliqueHist prints is the number of maximal cliques  *)
(* of the graph the file describes, its rows are for the sizes of these    *)
(* cliques, and each row is their number, if that is below half of the     *)
(* range of an int.                                                        *)
(***************************************************************************)
THEOREM OutputIsCorrect == Spec => []OutputCorrect
  <1>1. ProgramInv /\ ReportInv => OutputCorrect
    BY OutputInv
  <1> QED BY <1>1, ProgramInvariant, ReportInvariant, PTL
=============================================================================
