---------------------------- MODULE ProcessRows ----------------------------
(***************************************************************************)
(* The rows of the process monitor: the tree and the list of               *)
(* lib/procTable.ts, the controls of ProcessMonitorView.vue and the part   *)
(* of the rows that is drawn.  The table stays as it is; the user changes  *)
(* the controls.                                                           *)
(***************************************************************************)
EXTENDS Integers, Sequences, FiniteSets, SequencesExt, FiniteSetsExt

CONSTANTS
    Tables,     \* [Rows -> [parent, cpu, up, down, tcp, udp]]: a row's parent is another
                \* row or a process that is gone, a metric may be Unavailable (-1)
    Searches,   \* for each text searched for, the rows whose name or pid has it; the
                \* empty text is the one every row has
    RowHeight, Overscan, ViewportHeight

VARIABLES
    rowTable,   \* one of Tables
    control,    \* [mode, column, direction, searching, hits, expanded]
    storedRows, \* localStorage: the expanded rows of the next visit
    scrollTop
rowVars == <<rowTable, control, storedRows, scrollTop>>
Rows == DOMAIN rowTable

----------------------------------------------------------------------------
\* Faulty variant: connections are preferred to byte rates.
NetworkByConnections(m) == Max({0, m.tcp}) + Max({0, m.udp})
NetworkSortValue(m) ==
    IF m.up >= 0 \/ m.down >= 0 THEN Max({0, m.up}) + Max({0, m.down})
    ELSE Max({0, m.tcp}) + Max({0, m.udp})

SortKey(r) == CASE control.column = "pid" -> r
                [] control.column = "cpu" -> rowTable[r].cpu
                [] control.column = "net" -> NetworkSortValue(rowTable[r])
(* Equal keys are ordered by pid; descending turns the whole order round.   *)
Less(a, b) == SortKey(a) < SortKey(b) \/ (SortKey(a) = SortKey(b) /\ a < b)
SortRows(set) == SetToSortSeq(set, LAMBDA a, b : IF control.direction = "asc" THEN Less(a, b) ELSE Less(b, a))

\* Faulty variant: a row whose parent is gone has no place.
ParentOrGone(r) == rowTable[r].parent
ParentRow(r) == IF rowTable[r].parent \in Rows THEN rowTable[r].parent ELSE 0
Kids(r) == {k \in Rows : ParentRow(k) = r}
Hits(r) == ~control.searching \/ r \in control.hits

\* Faulty variant: a match below a row does not keep the row.
OnlyOwnMatch(r) == Hits(r)
SubtreeMatches(r) ==
    LET m[x \in Rows] == Hits(x) \/ \E k \in Kids(x) : m[k]
    IN  m[r]

(* Depth-first, the children of expanded rows only.                         *)
TreeMode ==
    LET visit[r \in Rows \union {0}, depth \in 0 .. Cardinality(Rows)] ==
            LET kids == SortRows({k \in Kids(r) : SubtreeMatches(k)})
            IN  FlattenSeq([i \in 1 .. Len(kids) |->
                    <<[row |-> kids[i], depth |-> depth]>>
                    \o (IF kids[i] \in control.expanded THEN visit[kids[i], depth + 1] ELSE <<>>)])
    IN  visit[0, 0]
ListMode == LET all == SortRows({r \in Rows : Hits(r)})
            IN  [i \in 1 .. Len(all) |-> [row |-> all[i], depth |-> 0]]
AllShown == IF control.mode = "tree" THEN TreeMode ELSE ListMode

(* The rows drawn: those in sight and a few more on both sides.             *)
StartIndex == Max({0, scrollTop \div RowHeight - Overscan})
\* Faulty variant: the height in sight is counted in whole rows.
EndOfWholeRows(n) == Min({n, scrollTop \div RowHeight + ViewportHeight \div RowHeight})
EndIndex(n) == Min({n, (scrollTop + ViewportHeight + RowHeight - 1) \div RowHeight + Overscan})
VisibleRows(all) == SubSeq(all, StartIndex + 1, EndIndex(Len(all)))

----------------------------------------------------------------------------
RowInit ==
    /\ rowTable \in Tables /\ storedRows \in SUBSET DOMAIN rowTable /\ scrollTop = 0
    /\ control = [mode |-> "tree", column |-> "cpu", direction |-> "desc", searching |-> FALSE, hits |-> {},
                  expanded |-> storedRows]

ToggleSort(col) ==
    /\ control' = [control EXCEPT !.column = col,
                   !.direction = IF control.column = col /\ @ = "desc" THEN "asc" ELSE "desc"]
    /\ UNCHANGED storedRows
Expand(rows) == control' = [control EXCEPT !.expanded = rows] /\ storedRows' = rows
ToggleExpand(r) ==
    /\ control.mode = "tree" /\ Kids(r) # {} /\ \E i \in DOMAIN TreeMode : TreeMode[i].row = r
    /\ Expand(IF r \in control.expanded THEN control.expanded \ {r} ELSE control.expanded \union {r})
Search(text) ==
    /\ control' = [control EXCEPT !.searching = ~(Rows \subseteq text), !.hits = text \intersect Rows]
    /\ UNCHANGED storedRows
SwitchMode(mode) == control.mode # mode /\ control' = [control EXCEPT !.mode = mode] /\ UNCHANGED storedRows
Scroll(y) == scrollTop' = y /\ UNCHANGED <<control, storedRows>>

RowNext ==
    /\ UNCHANGED rowTable
    /\ \/ /\ UNCHANGED scrollTop
          /\ \/ \E col \in {"pid", "cpu", "net"} : ToggleSort(col)
             \/ \E r \in Rows : ToggleExpand(r)
             \/ Expand(Rows)       \* expandAll
             \/ Expand({})         \* collapseAll
             \/ \E text \in Searches : Search(text)
             \/ \E mode \in {"tree", "list"} : SwitchMode(mode)
       \/ \E y \in {0, RowHeight + 1, RowHeight * Len(AllShown)} : Scroll(y)

----------------------------------------------------------------------------
(* What the rows promise, said without the walk.                            *)
Above ==
    LET up[r \in Rows \union {0}, n \in 0 .. Cardinality(Rows)] ==
            IF n = 0 \/ r = 0 THEN r
            ELSE up[IF rowTable[r].parent \in Rows THEN rowTable[r].parent ELSE 0, n - 1]
    IN  [r \in Rows |-> {up[r, n] : n \in 1 .. Cardinality(Rows)} \ {0}]
Wanted(above) ==
    {r \in Rows :
        IF control.mode = "list" THEN Hits(r)
        ELSE above[r] \subseteq control.expanded
             /\ (Hits(r) \/ \E x \in Rows : r \in above[x] /\ Hits(x))}
(* The rows shown are exactly the wanted ones, each once; in the tree a row *)
(* is as deep as it has ancestors, and between a row and its parent there   *)
(* are only descendants of the parent; rows with the same parent are in the *)
(* order of the column (procTable.ts:60-105).                               *)
RowsAsWanted ==
    LET all == AllShown
        above == Above
        at(i) == all[i].row
    IN  /\ Len(all) = Cardinality(Wanted(above)) /\ {at(i) : i \in DOMAIN all} = Wanted(above)
        /\ control.mode = "tree" =>
              \A j \in DOMAIN all :
                  /\ all[j].depth = Cardinality(above[at(j)])
                  /\ \A a \in above[at(j)] : \E i \in 1 .. j - 1 :
                         at(i) = a /\ \A k \in i + 1 .. j - 1 : a \in above[at(k)]
        /\ \A i, j \in DOMAIN all :
              i < j /\ (control.mode = "list" \/ above[at(i)] = above[at(j)]) =>
                  LET a == rowTable[at(i)]
                      b == rowTable[at(j)]
                      first == IF control.direction = "asc" THEN a ELSE b
                      second == IF control.direction = "asc" THEN b ELSE a
                  IN  /\ control.column = "cpu" => first.cpu <= second.cpu
                      /\ control.column = "net" /\ Min({a.up, a.down, b.up, b.down}) >= 0
                         => first.up + first.down <= second.up + second.down

(* Every row that is in sight, in part even, is drawn.                      *)
RowsInSight ==
    LET all == AllShown
        drawn == VisibleRows(all)
    IN  \A i \in 1 .. Len(all) :
            i * RowHeight > scrollTop /\ (i - 1) * RowHeight < scrollTop + ViewportHeight
            => StartIndex < i /\ i <= StartIndex + Len(drawn) /\ drawn[i - StartIndex] = all[i]

(* The rows of the process monitor are right whatever the controls          *)
(* (procTable.ts, ProcessMonitorView.vue:53-77).                            *)
RowsRight == RowsAsWanted /\ RowsInSight
=============================================================================
