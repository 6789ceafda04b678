--------------------------- MODULE SinceCursorProofs ---------------------------
(***************************************************************************)
(* Proofs about SinceCursor, for any page size and any number of ids.      *)
(***************************************************************************)
EXTENDS SinceCursor, FiniteSetTheorems, WellFoundedInduction, TLAPS

(***************************************************************************)
(* Lemmas about MAX(id) and about the rank of a row.                       *)
(***************************************************************************)

\* A nonempty set of numbers has a least element.
LEMMA LeastNumber ==
    ASSUME NEW U \in SUBSET Nat, U # {}
    PROVE  \E u \in U : \A v \in U : u <= v
<1> DEFINE Less == {ss \in Nat \X Nat : ss[1] < ss[2]}
<1>1. IsWellFoundedOn(Less, Nat)
  BY NatLessThanWellFounded DEF OpToRel
<1> HIDE DEF Less
<1>2. PICK u \in U : \A v \in U : ~ (<<v, u>> \in Less)
  BY <1>1, WFMin
<1>3. \A v \in Nat : v < u => <<v, u>> \in Less
  BY DEF Less
<1>4. ASSUME NEW v \in U PROVE u <= v
  <2>1. u \in Nat /\ v \in Nat /\ ~ (v < u)
    BY <1>2, <1>3
  <2> QED
    BY <2>1
<1> QED
  BY <1>4

\* MAX(id), or 0 when there is no row.
LEMMA GreatestIs ==
    ASSUME NEW n \in Nat, NEW S \in SUBSET (0..n)
    PROVE  /\ Greatest(S) \in S \cup {0}
           /\ \A m \in S : m <= Greatest(S)
<1> DEFINE U == {u \in Nat : \A m \in S : m <= u}
<1>1. n \in U
  OBVIOUS
<1>2. PICK u \in U : \A v \in U : u <= v
  BY <1>1, LeastNumber
<1>3. u \in S \cup {0}
  <2>1. SUFFICES ASSUME u \notin S, u # 0 PROVE FALSE
    OBVIOUS
  <2>2. u - 1 \in U
    BY <2>1
  <2> QED
    BY <1>2, <2>2
<1>4. \E k \in S \cup {0} : \A m \in S : m <= k
  BY <1>3
<1> QED
  BY <1>4 DEF Greatest

\* The rank of a row is a number.
LEMMA RankIsNat ==
    ASSUME rows \subseteq Id, NEW i
    PROVE  Rank(i) \in Nat
<1>1. {j \in Matching : j < i} \in SUBSET (1..MaxId)
  BY DEF Matching, Id
<1>2. IsFiniteSet(1..MaxId)
  BY CursorAssumption, FS_Interval
<1>3. IsFiniteSet({j \in Matching : j < i})
  BY <1>1, <1>2, FS_Subset
<1> QED
  BY <1>3, FS_CardinalityType DEF Rank

\* Fewer rows precede a smaller id.
LEMMA RankGrows ==
    ASSUME rows \subseteq Id, NEW i \in Matching, NEW r \in Matching, i < r
    PROVE  Rank(i) < Rank(r)
<1> DEFINE Before(k) == {j \in Matching : j < k}
<1>1. Matching \subseteq 1..MaxId
  BY DEF Matching, Id
<1>2. IsFiniteSet(1..MaxId)
  BY CursorAssumption, FS_Interval
<1>3. IsFiniteSet(Before(r)) /\ Before(i) \in SUBSET Before(r)
  <2>1. Before(r) \in SUBSET (1..MaxId)
    BY <1>1
  <2>2. ASSUME NEW j \in Before(i) PROVE j \in Before(r)
    <3>1. j \in Matching /\ j \in Int /\ i \in Int /\ r \in Int /\ j < i
      BY <1>1
    <3> QED
      BY <3>1
  <2> QED
    BY <1>2, <2>1, <2>2, FS_Subset
<1>4. Before(i) # Before(r)
  <2>1. i \in Before(r)
    OBVIOUS
  <2>2. i \notin Before(i)
    BY <1>1
  <2> QED
    BY <2>1, <2>2
<1>5. /\ IsFiniteSet(Before(i))
      /\ Cardinality(Before(i)) <= Cardinality(Before(r))
      /\ Cardinality(Before(r)) # Cardinality(Before(i))
  BY <1>3, <1>4, FS_Subset
<1>6. Cardinality(Before(i)) \in Nat /\ Cardinality(Before(r)) \in Nat
  BY <1>3, <1>5, FS_CardinalityType
<1>7. Cardinality(Before(i)) < Cardinality(Before(r))
  BY <1>5, <1>6
<1> QED
  BY <1>7 DEF Rank

\* The rows before a row stay the same while greater ids are committed.
LEMMA RankStays ==
    ASSUME NEW i, since_id' = since_id, rows \subseteq rows', \A k \in rows' \ rows : ~ (k < i)
    PROVE  Rank(i)' = Rank(i)
<1>1. {j \in Matching' : j < i} = {j \in Matching : j < i}
  BY DEF Matching
<1> QED
  BY <1>1 DEF Rank
--------------------------------------------------------------------------------
(***************************************************************************)
(* The inductive invariant.  It needs that there is one writer: then the   *)
(* ids of an open transaction are greater than all that is committed.      *)
(***************************************************************************)
OneWriter == \A v, w \in Writer : v = w

IdsInOrder ==
    /\ rows \subseteq 1..last_id
    /\ \A w \in Writer : \A i \in inserted[w] : i \in 1..last_id /\ \A j \in rows : j < i

StatsBehind ==
    /\ latest_id \in rows \cup {0} /\ counted \subseteq rows
    /\ \A i \in rows \ counted : i > latest_id

CursorBehind ==
    /\ cursor \in rows \cup {0} /\ records \subseteq rows /\ delivered \subseteq rows
    /\ \A i \in delivered : i <= cursor
    /\ client = "new" => cursor = 0 /\ records = {} /\ delivered = {}
    /\ client \in {"idle", "read"} => records \subseteq delivered

FirstPage ==
    ~ follow => page = 1 /\ (client \in {"read", "count"} => since_id = cursor)

AllAhead ==
    ~ follow =>
        \A i \in rows \ (known \cup delivered \cup records) :
            i > cursor /\ \A r \in records : i > r

PagesApart ==
    /\ twice = {}
    /\ client \in {"read", "count"} =>
        \A i \in delivered : i <= since_id \/ Rank(i) < (page - 1) * PerPage
    /\ client = "count" =>
        /\ records \cap delivered = {}
        /\ \A i \in records : Rank(i) < page * PerPage

Inv ==
    /\ TypeOK /\ IdsInOrder /\ StatsBehind
    /\ CursorBehind /\ FirstPage /\ AllAhead /\ PagesApart

LEMMA InitInv == Init => Inv
<1> SUFFICES ASSUME Init PROVE Inv
  OBVIOUS
<1>1. TypeOK
  BY CursorAssumption DEF Init, TypeOK
<1>2. IdsInOrder /\ StatsBehind /\ CursorBehind /\ FirstPage /\ AllAhead /\ PagesApart
  BY DEF Init, IdsInOrder, StatsBehind, CursorBehind, FirstPage, AllAhead, PagesApart
<1> QED
  BY <1>1, <1>2 DEF Inv

\* A step that does not touch the client or the rows keeps what is said of them.
LEMMA ClientUntouched ==
    ASSUME Inv, UNCHANGED <<rows, client, follow, poll, cursor, history>>
    PROVE  CursorBehind' /\ FirstPage' /\ AllAhead' /\ PagesApart'
<1> USE DEF poll, history
<1>1. \A i : Rank(i)' = Rank(i)
  BY RankStays
<1>2. CursorBehind' /\ FirstPage' /\ AllAhead'
  BY DEF Inv, CursorBehind, FirstPage, AllAhead
<1>3. PagesApart'
  BY <1>1 DEF Inv, PagesApart
<1> QED
  BY <1>2, <1>3

LEMMA InsertRowInv ==
    ASSUME Inv, NEW w \in Writer, InsertRow(w)
    PROVE  Inv'
<1> USE DEF Inv
<1>1. last_id' = last_id + 1 /\ last_id' \in Id
  BY CursorAssumption DEF InsertRow, TypeOK, Id
<1>2. \A v \in Writer : inserted'[v] \subseteq inserted[v] \cup {last_id'}
  BY DEF InsertRow, TypeOK
<1>3. inserted' \in [Writer -> SUBSET Id]
  BY <1>1 DEF InsertRow, TypeOK
<1>4. TypeOK'
  BY <1>1, <1>3 DEF InsertRow, TypeOK, Id, stats, poll, history
<1>5. IdsInOrder'
  <2>1. rows' = rows /\ rows \subseteq 1..last_id
    BY DEF InsertRow, IdsInOrder
  <2>2. ASSUME NEW v \in Writer, NEW i \in inserted'[v]
        PROVE  i \in 1..last_id' /\ \A j \in rows : j < i
    <3>1. CASE i \in inserted[v]
      <4>1. i \in 1..last_id /\ \A j \in rows : j < i
        BY <3>1 DEF IdsInOrder
      <4> QED
        BY <1>1, <4>1 DEF TypeOK
    <3>2. CASE i = last_id'
      <4>1. last_id \in Nat /\ i = last_id + 1
        BY <1>1, <3>2 DEF TypeOK
      <4>2. ASSUME NEW j \in rows PROVE j < i
        <5>1. j \in 1..last_id
          BY <2>1
        <5> QED
          BY <4>1, <5>1
      <4> QED
        BY <1>1, <4>1, <4>2
    <3> QED
      BY <1>2, <2>2, <3>1, <3>2
  <2> QED
    BY <1>1, <2>1, <2>2 DEF IdsInOrder, TypeOK
<1>6. StatsBehind'
  BY DEF InsertRow, StatsBehind, stats
<1>7. CursorBehind' /\ FirstPage' /\ AllAhead' /\ PagesApart'
  BY ClientUntouched DEF InsertRow
<1> QED
  BY <1>4, <1>5, <1>6, <1>7

\* With one writer, what commits is greater than everything there was.
LEMMA CommittedIsGreater ==
    ASSUME Inv, OneWriter, NEW w \in Writer, Commit(w)
    PROVE  /\ rows \subseteq rows' /\ rows' \subseteq 1..last_id
           /\ \A i \in rows' \ rows : i > 0 /\ \A j \in rows : i > j
           /\ \A v \in Writer : inserted'[v] = {}
<1> USE DEF Inv
<1>1. rows' = rows \cup inserted[w]
  BY DEF Commit
<1>2. \A i \in inserted[w] : i \in 1..last_id /\ \A j \in rows : j < i
  BY DEF IdsInOrder
<1>3. rows \subseteq 1..last_id /\ last_id \in Nat
  BY DEF IdsInOrder, TypeOK
<1>4. ASSUME NEW i \in rows' \ rows PROVE i > 0 /\ \A j \in rows : i > j
  BY <1>1, <1>2, <1>3
<1>5. \A v \in Writer : inserted'[v] = {}
  BY DEF Commit, OneWriter, TypeOK
<1> QED
  BY <1>1, <1>2, <1>3, <1>4, <1>5

LEMMA CommitInv ==
    ASSUME Inv, OneWriter, NEW w \in Writer, Commit(w)
    PROVE  Inv'
<1> USE DEF Inv
<1> DEFINE Newer(i) == i > 0 /\ \A j \in rows : i > j
<1>1. /\ rows \subseteq rows' /\ rows' \subseteq 1..last_id
      /\ \A i \in rows' \ rows : Newer(i)
      /\ \A v \in Writer : inserted'[v] = {}
  BY CommittedIsGreater
<1>2. UNCHANGED <<last_id, stats, client, follow, poll, cursor, history>>
  BY DEF Commit
<1>3. TypeOK'
  <2>1. rows' \subseteq Id
    BY DEF Commit, TypeOK
  <2>2. inserted' \in [Writer -> SUBSET Id]
    BY DEF Commit, TypeOK
  <2> QED
    BY <1>2, <2>1, <2>2 DEF TypeOK, stats, poll, history
<1>4. IdsInOrder'
  BY <1>1, <1>2 DEF IdsInOrder
<1>5. StatsBehind'
  <2>1. \A i \in rows' \ rows : i > latest_id
    BY <1>1 DEF StatsBehind
  <2> QED
    BY <1>1, <1>2, <2>1 DEF StatsBehind, stats
<1>6. CursorBehind' /\ FirstPage'
  BY <1>1, <1>2 DEF CursorBehind, FirstPage, poll, history
<1>7. AllAhead'
  <2>1. \A i \in rows' \ rows : i > cursor /\ \A r \in records : i > r
    BY <1>1 DEF CursorBehind
  <2> QED
    BY <1>2, <2>1 DEF AllAhead, poll, history
<1>8. PagesApart'
  <2>1. \A i \in rows : Rank(i)' = Rank(i)
    <3>1. ASSUME NEW i \in rows, NEW k \in rows' \ rows PROVE ~ (k < i)
      <4>1. k > i /\ k \in Int /\ i \in Int
        BY <1>1
      <4> QED
        BY <4>1
    <3> QED
      BY <1>1, <1>2, <3>1, RankStays DEF poll
  <2>2. delivered \subseteq rows /\ records \subseteq rows
    BY DEF CursorBehind
  <2> QED
    BY <1>2, <2>1, <2>2 DEF PagesApart, poll, history
<1> QED
  BY <1>3, <1>4, <1>5, <1>6, <1>7, <1>8

LEMMA RollbackInv ==
    ASSUME Inv, NEW w \in Writer, Rollback(w)
    PROVE  Inv'
<1> USE DEF Inv
<1>1. \A v \in Writer : inserted'[v] \subseteq inserted[v]
  BY DEF Rollback, TypeOK
<1>2. TypeOK'
  BY DEF Rollback, TypeOK, stats, poll, history
<1>3. IdsInOrder' /\ StatsBehind'
  BY <1>1 DEF Rollback, IdsInOrder, StatsBehind, stats
<1>4. CursorBehind' /\ FirstPage' /\ AllAhead' /\ PagesApart'
  BY ClientUntouched DEF Rollback
<1> QED
  BY <1>2, <1>3, <1>4

LEMMA LoadStatsInv ==
    ASSUME Inv, LoadStats
    PROVE  Inv'
<1> USE DEF Inv
<1>1. rows \in SUBSET (0..MaxId)
  BY DEF TypeOK, Id
<1>2. Greatest(rows) \in rows \cup {0}
  BY <1>1, CursorAssumption, GreatestIs
<1>3. TypeOK'
  <2>1. Greatest(rows) \in 0..MaxId
    <3>1. 0 \in 0..MaxId
      BY CursorAssumption
    <3> QED
      BY <1>1, <1>2, <3>1
  <2> QED
    BY <2>1 DEF LoadStats, TypeOK, sequence, poll, history
<1>4. IdsInOrder' /\ StatsBehind'
  BY <1>2 DEF LoadStats, IdsInOrder, StatsBehind, sequence
<1>5. CursorBehind' /\ FirstPage' /\ AllAhead' /\ PagesApart'
  BY ClientUntouched DEF LoadStats
<1> QED
  BY <1>3, <1>4, <1>5

LEMMA GetStatsInv ==
    ASSUME Inv, GetStats
    PROVE  Inv'
<1> USE DEF Inv
<1>1. TypeOK'
  BY DEF GetStats, TypeOK, sequence, stats, poll
<1>2. IdsInOrder' /\ StatsBehind'
  BY DEF GetStats, IdsInOrder, StatsBehind, sequence, stats
<1>3. CursorBehind' /\ FirstPage'
  BY DEF GetStats, CursorBehind, FirstPage, StatsBehind, poll
<1>4. AllAhead'
  BY DEF GetStats, CursorBehind, AllAhead, StatsBehind, poll
<1>5. PagesApart'
  BY DEF GetStats, PagesApart
<1> QED
  BY <1>1, <1>2, <1>3, <1>4, <1>5

LEMMA StartPollInv ==
    ASSUME Inv, StartPoll
    PROVE  Inv'
<1> USE DEF Inv
<1>1. TypeOK'
  BY DEF StartPoll, TypeOK, sequence, stats, history
<1>2. IdsInOrder' /\ StatsBehind'
  BY DEF StartPoll, IdsInOrder, StatsBehind, sequence, stats
<1>3. CursorBehind' /\ FirstPage'
  BY DEF StartPoll, CursorBehind, FirstPage, history
<1>4. AllAhead'
  BY DEF StartPoll, CursorBehind, AllAhead, history
<1>5. PagesApart'
  BY DEF StartPoll, PagesApart, CursorBehind, history
<1> QED
  BY <1>1, <1>2, <1>3, <1>4, <1>5

\* What a page of the poll holds.
LEMMA PageIs ==
    ASSUME Inv, NEW i \in Page
    PROVE  /\ i \in rows /\ i > since_id
           /\ (page - 1) * PerPage <= Rank(i) /\ Rank(i) < page * PerPage
BY DEF Page, Matching

\* The first page holds the smallest ids after since_id.
LEMMA FirstPageIs ==
    ASSUME Inv, page = 1, NEW i \in Matching \ Page, NEW r \in Page
    PROVE  i > r
<1>1. rows \subseteq Id /\ i \in Nat /\ r \in Nat /\ r \in Matching
  BY DEF Inv, TypeOK, Id, Matching, Page
<1>2. Rank(i) \in Nat /\ Rank(r) \in Nat
  BY <1>1, RankIsNat
<1>3. (page - 1) * PerPage = 0
  BY CursorAssumption
<1>4. Rank(r) < page * PerPage /\ ~ (Rank(i) < page * PerPage)
  BY <1>2, <1>3 DEF Page
<1>5. page * PerPage \in Nat
  BY CursorAssumption
<1>6. Rank(r) < Rank(i)
  BY <1>2, <1>4, <1>5
<1>7. ~ (i < r)
  BY <1>1, <1>2, <1>6, RankGrows
<1>8. i # r
  OBVIOUS
<1> QED
  BY <1>1, <1>7, <1>8

LEMMA ReadPageInv ==
    ASSUME Inv, ReadPage
    PROVE  Inv'
<1> USE DEF Inv
<1>1. Page \subseteq rows /\ \A i \in Page : i > since_id
  BY PageIs
<1>2. TypeOK'
  BY <1>1 DEF ReadPage, TypeOK, sequence, stats, history
<1>3. IdsInOrder' /\ StatsBehind'
  BY DEF ReadPage, IdsInOrder, StatsBehind, sequence, stats
<1>4. CursorBehind' /\ FirstPage'
  BY <1>1 DEF ReadPage, CursorBehind, FirstPage, history
<1>5. AllAhead'
  <2>1. SUFFICES ASSUME ~ follow, NEW i \in rows \ (known \cup delivered \cup Page)
                 PROVE  i > cursor /\ \A r \in Page : i > r
    BY DEF ReadPage, AllAhead, history
  <2>2. i > cursor
    BY <2>1 DEF ReadPage, AllAhead, CursorBehind
  <2>3. page = 1 /\ i \in Matching \ Page
    BY <2>1, <2>2 DEF ReadPage, FirstPage, Matching
  <2> QED
    BY <2>2, <2>3, FirstPageIs
<1>6. PagesApart'
  <2>1. \A i : Rank(i)' = Rank(i)
    BY RankStays DEF ReadPage
  <2>2. ASSUME NEW i \in Page, i \in delivered PROVE FALSE
    <3>1. Rank(i) \in Nat /\ (page - 1) * PerPage \in Int /\ i \in Nat /\ since_id \in Nat
      BY <1>1, RankIsNat, CursorAssumption DEF TypeOK, Id
    <3>2. i > since_id /\ (page - 1) * PerPage <= Rank(i)
      BY PageIs
    <3>3. i <= since_id \/ Rank(i) < (page - 1) * PerPage
      BY <2>2 DEF PagesApart, ReadPage
    <3> QED
      BY <3>1, <3>2, <3>3
  <2>3. \A i \in Page : Rank(i) < page * PerPage
    BY PageIs
  <2> QED
    BY <2>1, <2>2, <2>3 DEF ReadPage, PagesApart, history
<1> QED
  BY <1>2, <1>3, <1>4, <1>5, <1>6

\* Where the cursor is after a page.
LEMMA CursorMoves ==
    ASSUME Inv, CountRows
    PROVE  /\ cursor' \in rows \cup {0} /\ cursor' \in 0..MaxId
           /\ cursor' \in records \cup {cursor, 0}
           /\ \A i \in records \cup {cursor} : i <= cursor'
<1>1. records \cup {cursor} \in SUBSET (0..MaxId)
  BY DEF Inv, TypeOK, Id
<1>2. /\ cursor' \in records \cup {cursor} \cup {0}
      /\ \A i \in records \cup {cursor} : i <= cursor'
  BY <1>1, CursorAssumption, GreatestIs DEF CountRows
<1>3. 0 \in 0..MaxId
  BY CursorAssumption
<1>4. records \subseteq rows /\ cursor \in rows \cup {0}
  BY DEF Inv, CursorBehind
<1> QED
  BY <1>1, <1>2, <1>3, <1>4

LEMMA CountRowsInv ==
    ASSUME Inv, CountRows
    PROVE  Inv'
<1> USE DEF Inv
<1>1. /\ client = "count" /\ client' \in {"read", "idle"}
      /\ UNCHANGED <<sequence, rows, stats, follow, since_id, records, known>>
      /\ delivered' = delivered \cup records
      /\ twice' = twice \cup (delivered \cap records)
      /\ \/ client' = "read" /\ page' = page + 1 /\ follow
         \/ client' = "idle" /\ page' = page
  <2>1. CASE follow /\ page < TotalPages
    BY <2>1, Zenon DEF CountRows
  <2>2. CASE ~ (follow /\ page < TotalPages)
    BY <2>2, Zenon DEF CountRows
  <2> QED
    BY <2>1, <2>2
<1>2. TypeOK'
  <2>1. page' \in Nat \ {0}
    BY <1>1 DEF TypeOK
  <2>2. delivered' \subseteq Id /\ twice' \subseteq Id
    BY <1>1 DEF TypeOK
  <2> QED
    BY <1>1, <2>1, <2>2, CursorMoves DEF TypeOK, sequence, stats
<1>3. IdsInOrder' /\ StatsBehind'
  BY <1>1 DEF IdsInOrder, StatsBehind, sequence, stats
<1>4. CursorBehind'
  <2>1. ASSUME NEW i \in delivered PROVE i <= cursor'
    <3>1. i <= cursor /\ cursor <= cursor'
      BY CursorMoves DEF CursorBehind
    <3>2. i \in Nat /\ cursor \in Nat /\ cursor' \in Nat
      BY CursorMoves DEF TypeOK, Id
    <3> QED
      BY <3>1, <3>2
  <2> QED
    BY <1>1, <2>1, CursorMoves DEF CursorBehind
<1>5. FirstPage'
  BY <1>1 DEF FirstPage, CountRows
<1>6. AllAhead'
  <2>1. SUFFICES ASSUME ~ follow, NEW i \in rows \ (known \cup delivered \cup records)
                 PROVE  i > cursor' /\ \A r \in records : i > r
    BY <1>1 DEF AllAhead
  <2>2. i > cursor /\ (\A r \in records : i > r) /\ i > 0
    BY <2>1 DEF AllAhead, TypeOK, Id
  <2> QED
    BY <2>2, CursorMoves
<1>7. PagesApart'
  <2>1. \A i : Rank(i)' = Rank(i)
    BY <1>1, RankStays
  <2>2. twice' = {}
    BY <1>1 DEF PagesApart
  <2>3. ASSUME client' = "read", NEW i \in delivered'
        PROVE  i <= since_id \/ Rank(i) < (page' - 1) * PerPage
    <3>1. page' - 1 = page /\ page \in Nat /\ PerPage \in Nat /\ Rank(i) \in Nat
      BY <1>1, <2>3, RankIsNat, CursorAssumption DEF TypeOK
    <3>2. i <= since_id \/ Rank(i) < (page - 1) * PerPage \/ Rank(i) < page * PerPage
      BY <1>1, <2>3 DEF PagesApart
    <3>3. (page - 1) * PerPage <= page * PerPage
      BY <3>1
    <3>4. (page - 1) * PerPage \in Int /\ page * PerPage \in Int
      BY <3>1
    <3>5. i <= since_id \/ Rank(i) < page * PerPage
      BY <3>1, <3>2, <3>3, <3>4
    <3> QED
      BY <3>1, <3>5
  <2>4. client' \in {"read", "count"} => client' = "read"
    BY <1>1
  <2> QED
    BY <1>1, <2>1, <2>2, <2>3, <2>4 DEF PagesApart
<1> QED
  BY <1>2, <1>3, <1>4, <1>5, <1>6, <1>7

LEMMA NextInv == ASSUME OneWriter PROVE Inv /\ [Next]_vars => Inv'
<1> SUFFICES ASSUME Inv, [Next]_vars PROVE Inv'
  OBVIOUS
<1>1. ASSUME NEW w \in Writer, InsertRow(w) \/ Commit(w) \/ Rollback(w) PROVE Inv'
  BY <1>1, InsertRowInv, CommitInv, RollbackInv
<1>2. CASE LoadStats \/ GetStats
  BY <1>2, LoadStatsInv, GetStatsInv
<1>3. CASE Request
  BY <1>3, StartPollInv, ReadPageInv, CountRowsInv DEF Request
<1>4. CASE UNCHANGED vars
  <2>1. TypeOK'
    BY <1>4 DEF vars, Inv, TypeOK, sequence, stats, poll, history
  <2>2. IdsInOrder' /\ StatsBehind'
    BY <1>4 DEF vars, Inv, IdsInOrder, StatsBehind, sequence, stats
  <2>3. CursorBehind' /\ FirstPage' /\ AllAhead' /\ PagesApart'
    BY <1>4, ClientUntouched DEF vars
  <2> QED
    BY <2>1, <2>2, <2>3 DEF Inv
<1> QED
  BY <1>1, <1>2, <1>3, <1>4 DEF Next

LEMMA Invariance == ASSUME OneWriter PROVE Spec => []Inv
<1>1. Inv /\ [Next]_vars => Inv'
  BY NextInv
<1> QED
  BY <1>1, InitInv, PTL DEF Spec
--------------------------------------------------------------------------------
\* With one writer, a client that asks from its new cursor after every page
\* never has an unread row behind the cursor (get_attendance_page, since_id).
THEOREM OneWriterMissesNothing ==
    ASSUME OneWriter PROVE Spec => []PollMissesNothing
<1>1. Inv => PollMissesNothing
  BY DEF Inv, AllAhead, PollMissesNothing, NothingBehind
<1> QED
  BY <1>1, Invariance, PTL

\* With one writer no row is handed out twice, whether the client asks from its
\* new cursor or follows `next` through the pages of a poll.
THEOREM OneWriterNoRowTwice ==
    ASSUME OneWriter PROVE Spec => []NoRowTwice
<1>1. Inv => NoRowTwice
  BY DEF Inv, PagesApart, NoRowTwice
<1> QED
  BY <1>1, Invariance, PTL
--------------------------------------------------------------------------------
(***************************************************************************)
(* The refinement of AttendanceFeed.  Before it begins the client has got  *)
(* nothing, and it begins behind the rows that /stats had counted.         *)
(***************************************************************************)
Beginning ==
    /\ client = "new" => known = {} /\ delivered = {}
    /\ \A i \in counted : i <= latest_id

Got == known \cup (IF follow THEN {} ELSE delivered)

LEMMA BeginningInv == Inv /\ Beginning /\ [Next]_vars => Beginning'
<1> SUFFICES ASSUME Inv, Beginning, [Next]_vars PROVE Beginning'
  OBVIOUS
<1> USE DEF Beginning
<1>1. ASSUME NEW w \in Writer, InsertRow(w) \/ Commit(w) \/ Rollback(w) PROVE Beginning'
  BY <1>1 DEF InsertRow, Commit, Rollback, stats, history
<1>2. CASE LoadStats
  <2>1. \A i \in rows : i <= Greatest(rows)
    BY CursorAssumption, GreatestIs DEF Inv, TypeOK, Id
  <2> QED
    BY <1>2, <2>1 DEF LoadStats, history
<1>3. CASE GetStats
  BY <1>3 DEF GetStats, stats
<1>4. CASE StartPoll \/ ReadPage
  BY <1>4 DEF StartPoll, ReadPage, stats, history
<1>5. CASE CountRows
  BY <1>5 DEF CountRows, stats
<1>6. CASE UNCHANGED vars
  BY <1>6 DEF vars, stats, history
<1> QED
  BY <1>1, <1>2, <1>3, <1>4, <1>5, <1>6 DEF Next, Request

\* A step of the program is a step of the feed: a commit appends, GET /stats and the
\* answer to a poll read, and all else leaves the feed as it is.
LEMMA FeedStep ==
    ASSUME OneWriter, Inv, Beginning, [Next]_vars
    PROVE  [Feed!Next]_(Feed!feed)
<1> USE DEF Inv, Feed!After, Feed!feed
<1>1. ASSUME NEW w \in Writer, Commit(w) PROVE \E S \in SUBSET Id : Feed!Append(S)
  <2>1. /\ rows \subseteq rows' /\ rows' \subseteq Id
        /\ \A i \in rows' \ rows : \A j \in rows : i > j
    <3>1. rows' \subseteq Id
      BY <1>1 DEF Commit, TypeOK
    <3> QED
      BY <1>1, <3>1, CommittedIsGreater
  <2>2. UNCHANGED Got
    BY <1>1 DEF Commit, history, Got
  <2>3. Feed!Append(rows' \ rows)
    BY <2>1, <2>2 DEF Feed!Append, Got
  <2> QED
    BY <2>1, <2>3
<1>2. CASE GetStats
  <2>1. counted \subseteq rows /\ Got = {} /\ Got' = counted /\ UNCHANGED rows
    BY <1>2 DEF GetStats, Beginning, StatsBehind, Got
  <2>2. ASSUME NEW i \in rows \ counted, NEW j \in counted PROVE i > j
    <3>1. i > latest_id /\ j <= latest_id
      BY DEF Beginning, StatsBehind
    <3>2. i \in Nat /\ j \in Nat /\ latest_id \in Nat
      BY DEF TypeOK, Id
    <3> QED
      BY <3>1, <3>2
  <2>3. Feed!Read(counted)
    BY <2>1, <2>2 DEF Feed!Read, Got
  <2> QED
    BY <2>1, <2>3 DEF Feed!Next, Got
<1>3. CASE CountRows
  <2>1. UNCHANGED <<rows, known, follow>> /\ delivered' = delivered \cup records
    BY <1>3 DEF CountRows
  <2>2. CASE follow
    BY <2>1, <2>2
  <2>3. CASE ~ follow
    <3>1. Got' = Got \cup (records \ Got) /\ records \subseteq rows
      BY <2>1, <2>3 DEF Got, CursorBehind
    <3>2. \A i \in rows \ (Got \cup records) : \A r \in records : i > r
      BY <2>3 DEF AllAhead, Got
    <3>3. Feed!Read(records \ Got)
      BY <2>1, <3>1, <3>2 DEF Feed!Read, Got
    <3> QED
      BY <3>1, <3>3 DEF Feed!Next, Got
  <2> QED
    BY <2>2, <2>3
<1>4. ASSUME NEW w \in Writer, InsertRow(w) \/ Rollback(w) PROVE UNCHANGED <<rows, Got>>
  BY <1>4 DEF InsertRow, Rollback, history, Got
<1>5. CASE LoadStats \/ StartPoll \/ ReadPage
  BY <1>5 DEF LoadStats, StartPoll, ReadPage, history
<1>6. CASE UNCHANGED vars
  BY <1>6 DEF vars, history
<1> QED
  BY <1>1, <1>2, <1>3, <1>4, <1>5, <1>6 DEF Next, Request, Feed!Next, Got

\* With one writer, a client that asks from its new cursor after every page reads
\* the table as a log: in order, every row once, none skipped.
THEOREM OneWriterImplementsFeed ==
    ASSUME OneWriter PROVE Spec => ImplementsFeed
<1>1. Init => Beginning /\ Feed!Init
  BY DEF Init, Beginning, Feed!Init
<1>2. Inv /\ Beginning /\ [Next]_vars => Beginning'
  BY BeginningInv
<1>3. Inv /\ Beginning /\ [Next]_vars => [Feed!Next]_(Feed!feed)
  BY FeedStep
<1> QED
  BY <1>1, <1>2, <1>3, Invariance, PTL DEF Spec, ImplementsFeed, Feed!Spec
--------------------------------------------------------------------------------
(***************************************************************************)
(* Type correctness, for any number of writers.                            *)
(***************************************************************************)
LEMMA WriterType ==
    ASSUME TypeOK, NEW w \in Writer, InsertRow(w) \/ Commit(w) \/ Rollback(w)
    PROVE  TypeOK'
<1>1. UNCHANGED <<stats, client, follow, poll, cursor, history>>
  BY DEF InsertRow, Commit, Rollback
<1>2. last_id' \in 0..MaxId /\ rows' \subseteq Id
  <2>1. CASE InsertRow(w)
    BY <2>1, CursorAssumption DEF InsertRow, TypeOK
  <2>2. CASE Commit(w) \/ Rollback(w)
    BY <2>2 DEF Commit, Rollback, TypeOK
  <2> QED
    BY <2>1, <2>2
<1>3. inserted' \in [Writer -> SUBSET Id]
  <2>1. CASE InsertRow(w)
    <3>1. last_id' \in Id
      BY <2>1, CursorAssumption DEF InsertRow, TypeOK, Id
    <3> QED
      BY <2>1, <3>1 DEF InsertRow, TypeOK
  <2>2. CASE Commit(w) \/ Rollback(w)
    BY <2>2 DEF Commit, Rollback, TypeOK
  <2> QED
    BY <2>1, <2>2
<1> QED
  BY <1>1, <1>2, <1>3 DEF TypeOK, stats, poll, history

LEMMA CountRowsType ==
    ASSUME TypeOK, CountRows
    PROVE  TypeOK'
<1>1. UNCHANGED <<sequence, rows, stats, follow, since_id, records, known>>
  BY DEF CountRows
<1>2. client' \in {"read", "idle"} /\ page' \in {page, page + 1}
  <2>1. CASE follow /\ page < TotalPages
    BY <2>1, Zenon DEF CountRows
  <2>2. CASE ~ (follow /\ page < TotalPages)
    BY <2>2, Zenon DEF CountRows
  <2> QED
    BY <2>1, <2>2
<1>3. page' \in Nat \ {0}
  BY <1>2 DEF TypeOK
<1>4. delivered' \subseteq Id /\ twice' \subseteq Id
  BY DEF CountRows, TypeOK
<1>5. cursor' \in 0..MaxId
  <2>1. records \cup {cursor} \in SUBSET (0..MaxId) /\ 0 \in 0..MaxId
    BY CursorAssumption DEF TypeOK, Id
  <2>2. cursor' \in records \cup {cursor} \cup {0}
    BY <2>1, CursorAssumption, GreatestIs DEF CountRows
  <2> QED
    BY <2>1, <2>2
<1> QED
  BY <1>1, <1>2, <1>3, <1>4, <1>5 DEF TypeOK, sequence, stats

\* Every variable of the cursor's model keeps its type, however many device
\* threads insert: MAX(id) and the client's cursor are ids that were drawn.
THEOREM TypeCorrect == Spec => []TypeOK
<1>1. Init => TypeOK
  BY CursorAssumption DEF Init, TypeOK
<1>2. TypeOK /\ [Next]_vars => TypeOK'
  <2> SUFFICES ASSUME TypeOK, [Next]_vars PROVE TypeOK'
    OBVIOUS
  <2>1. CASE LoadStats
    <3>1. rows \in SUBSET (0..MaxId) /\ 0 \in 0..MaxId
      BY CursorAssumption DEF TypeOK, Id
    <3>2. Greatest(rows) \in 0..MaxId
      BY <3>1, CursorAssumption, GreatestIs
    <3> QED
      BY <2>1, <3>2 DEF LoadStats, TypeOK, sequence, poll, history
  <2>2. CASE GetStats
    BY <2>2 DEF GetStats, TypeOK, sequence, stats, poll
  <2>3. CASE StartPoll
    BY <2>3 DEF StartPoll, TypeOK, sequence, stats, history
  <2>4. CASE ReadPage
    BY <2>4 DEF ReadPage, TypeOK, sequence, stats, history, Page, Matching
  <2>5. CASE UNCHANGED vars
    BY <2>5 DEF vars, TypeOK, sequence, stats, poll, history
  <2> QED
    BY <2>1, <2>2, <2>3, <2>4, <2>5, WriterType, CountRowsType DEF Next, Request
<1> QED
  BY <1>1, <1>2, PTL DEF Spec
================================================================================
