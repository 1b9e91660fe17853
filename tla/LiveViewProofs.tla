----------------------------- MODULE LiveViewProofs -----------------------------
(***************************************************************************)
(* Proofs about LiveView, for any number of sessions, any size of an       *)
(* event, and any number of changes, clicks and lost connections: no row   *)
(* is skipped by the stream, an export tells the truth of stale boxes, and *)
(* a page that settles shows what the index has and no box of a lost row.  *)
(***************************************************************************)
EXTENDS LiveView, SequenceTheorems, FiniteSetTheorems, WellFoundedInduction, TLAPS

-----------------------------------------------------------------------------
(* The largest id.                                                         *)

\* Less-than on the naturals is well-founded.
LEMMA LessIsWellFounded == IsWellFoundedOn({p \in Nat \X Nat : p[1] < p[2]}, Nat)
BY NatLessThanWellFounded DEF OpToRel

\* A set of naturals with a bound has a largest element: its distance from the
\* bound is the least one.
LEMMA MaxIsMember ==
  ASSUME NEW S \in SUBSET Nat, NEW n \in Nat, S # {}, \A x \in S : x <= n
  PROVE  Max(S) \in S /\ \A y \in S : Max(S) >= y
<1> DEFINE R == {p \in Nat \X Nat : p[1] < p[2]}
           T == {m \in Nat : \E x \in S : m = n - x}
<1>1. T \subseteq Nat
  OBVIOUS
<1>2. T # {}
  <2>1. PICK x \in S : TRUE
    OBVIOUS
  <2>2. n - x \in T
    BY <2>1
  <2>3. QED
    BY <2>2
<1>3. \E m \in T : \A y \in T : ~ (<<y, m>> \in R)
  <2>1. IsWellFoundedOn(R, Nat)
    BY LessIsWellFounded
  <2> HIDE DEF R, T
  <2>2. QED
    BY <1>1, <1>2, <2>1, WFMin
<1>4. PICK m \in T : \A y \in T : ~ (<<y, m>> \in R)
  BY <1>3
<1>5. PICK x \in S : m = n - x
  OBVIOUS
<1>6. \A y \in S : x >= y
  <2> TAKE y \in S
  <2>1. n - y \in T /\ n - y \in Nat /\ m \in Nat
    OBVIOUS
  <2>2. ~(n - y < m)
    BY <1>4, <2>1
  <2>3. QED
    BY <1>5, <2>1, <2>2
<1>7. QED
  BY <1>5, <1>6 DEF Max

-----------------------------------------------------------------------------
(* The rows of the index.                                                  *)

\* A row is of a place in the file of its session.
LEMMA RowIs ==
  ASSUME IndexTypeOK, NEW s \in Sessions, NEW r \in Rows(s)
  PROVE  /\ r \in RowRecords /\ r \in AllRows /\ r.session = s /\ ids[s] # None
         /\ \E i \in 1..Len(file[s]) :
              /\ ids[s] \in Seq(Nat) /\ i \in DOMAIN ids[s]
              /\ r = [session |-> s, id |-> ids[s][i], request |-> file[s][i]]
<1>1. ids[s] # None
  BY DEF Rows
<1>2. ids[s] \in Seq(Nat) /\ file[s] \in Seq(Nat) /\ Len(ids[s]) = Len(file[s])
  BY <1>1 DEF IndexTypeOK
<1>3. PICK i \in DOMAIN ids[s] : r = [session |-> s, id |-> ids[s][i], request |-> file[s][i]]
  BY <1>1 DEF Rows
<1>4. i \in 1..Len(file[s]) /\ ids[s][i] \in Nat /\ file[s][i] \in Nat
  BY <1>2, <1>3
<1>5. QED
  BY <1>1, <1>2, <1>3, <1>4 DEF AllRows, RowRecords

\* MaxId is the id of a row, or 0.
LEMMA MaxIdBounds ==
  ASSUME IndexTypeOK
  PROVE  MaxId \in 0..lastId /\ \A r \in AllRows : r.id <= MaxId
<1> DEFINE S == {r.id : r \in AllRows} \cup {0}
<1>1. lastId \in Nat /\ \A r \in AllRows : r.id \in 1..lastId
  BY DEF IndexTypeOK
<1>2. S \in SUBSET Nat /\ S # {} /\ \A x \in S : x <= lastId
  BY <1>1
<1>3. Max(S) \in S /\ \A y \in S : Max(S) >= y
  <2> HIDE DEF S
  <2>1. QED
    BY <1>1, <1>2, MaxIsMember
<1>4. QED
  BY <1>1, <1>2, <1>3 DEF MaxId

\* There are no more rows than ids.
LEMMA RowsAreFinite ==
  ASSUME IndexTypeOK, UniqueIds
  PROVE  IsFiniteSet(AllRows)
<1> DEFINE f == [r \in AllRows |-> r.id]
<1>1. lastId \in Nat /\ \A r \in AllRows : r.id \in 1..lastId
  BY DEF IndexTypeOK
<1>2. f \in Injection(AllRows, 1..lastId)
  BY <1>1 DEF Injection, IsInjective, UniqueIds
<1>3. IsFiniteSet(1..lastId)
  BY <1>1, FS_Interval
<1>4. QED
  BY <1>2, <1>3, FS_Injection

\* An event has every row up to its last one that the events before had not.
LEMMA ItemsAreFirst ==
  ASSUME IndexTypeOK, UniqueIds, server.lastId \in Nat, Items # {}
  PROVE  /\ Max({r.id : r \in Items}) \in 1..lastId
         /\ Items \subseteq AllRows
         /\ \A r \in AllRows :
              r.id > server.lastId /\ r.id <= Max({q.id : q \in Items}) => r \in Items
<1> DEFINE after == {r \in AllRows : r.id > server.lastId}
           before(r) == {q \in after : q.id < r.id}
           S == {r.id : r \in Items}
<1>1. lastId \in Nat /\ \A r \in AllRows : r.id \in 1..lastId
  BY DEF IndexTypeOK
<1>2. Items = {r \in after : Cardinality(before(r)) < Batch} /\ Items \subseteq AllRows
  BY DEF Items
<1>3. IsFiniteSet(after)
  BY RowsAreFinite, FS_Subset
<1>4. Max(S) \in S
  <2>1. S \in SUBSET Nat /\ \A x \in S : x <= lastId
    <3>1. Items \subseteq AllRows
      BY <1>2
    <3>2. QED
      BY <1>1, <3>1
  <2>2. S # {}
    <3>1. PICK x \in Items : TRUE
      OBVIOUS
    <3>2. x.id \in S
      BY <3>1
    <3>3. QED
      BY <3>2
  <2> HIDE DEF S
  <2>3. QED
    BY <1>1, <2>1, <2>2, MaxIsMember
<1>5. PICK last \in Items : Max(S) = last.id
  BY <1>4
<1>6. ASSUME NEW r \in AllRows, r.id > server.lastId, r.id <= last.id
      PROVE  r \in Items
  <2>1. before(r) \subseteq before(last) /\ before(last) \subseteq after
    BY <1>1, <1>2, <1>6
  <2>2. IsFiniteSet(before(last))
    BY <1>3, <2>1, FS_Subset
  <2>3. /\ Cardinality(before(r)) <= Cardinality(before(last))
        /\ Cardinality(before(r)) \in Nat /\ Cardinality(before(last)) \in Nat
    BY <2>1, <2>2, FS_Subset, FS_CardinalityType
  <2>4. Cardinality(before(last)) < Batch /\ Batch \in Nat
    BY <1>2, <1>5, ViewAssumption
  <2>5. Cardinality(before(r)) < Batch
    <3> HIDE DEF before
    <3>1. QED
      BY <2>3, <2>4
  <2>6. QED
    BY <1>2, <1>6, <2>5
<1>7. QED
  BY <1>1, <1>2, <1>5, <1>6

-----------------------------------------------------------------------------
(* Rescans.                                                                *)

\* Rows are kept as they are, or have ids that were never given out.
OnlyNewIds ==
  /\ lastId' \in Nat /\ lastId <= lastId'
  /\ \A r \in AllRows' : r.id \in 1..lastId' /\ (r \in AllRows \/ lastId < r.id)

\* What one scan of a session writes, after the rows that it keeps.
LEMMA InsertRows ==
  ASSUME IndexTypeOK, UniqueIds, NEW s \in Sessions, NEW kept \in Seq(Nat), NEW f \in Seq(Nat),
         Insert(s, kept, f), Len(kept) <= Len(f),
         \A i \in 1..Len(kept) :
           /\ ids[s] # None /\ i \in DOMAIN ids[s]
           /\ kept[i] = ids[s][i] /\ f[i] = file[s][i]
  PROVE  /\ file' \in [Sessions -> Seq(Nat)] /\ ids' \in [Sessions -> {None} \cup Seq(Nat)]
         /\ ids'[s] \in Seq(Nat) /\ Len(ids'[s]) = Len(file'[s])
         /\ \A t \in Sessions \ {s} : ids'[t] = ids[t] /\ file'[t] = file[t]
         /\ OnlyNewIds /\ UniqueIds'
<1> DEFINE n == Len(f) - Len(kept)
           added == [i \in 1..n |-> lastId + i]
<1>1. /\ n \in Nat /\ lastId \in Nat /\ Len(kept) \in Nat /\ Len(f) \in Nat
      /\ Len(f) = Len(kept) + n
  BY DEF IndexTypeOK
<1>2. added \in Seq(Nat) /\ Len(added) = n /\ \A i \in 1..n : added[i] = lastId + i
  <2>1. added \in [1..n -> Nat]
    BY <1>1
  <2>2. added \in Seq(Nat) /\ DOMAIN added = 1..n
    BY <1>1, <2>1, SeqDef
  <2>3. Len(added) \in Nat /\ 1..Len(added) = 1..n
    <3> HIDE DEF added
    <3>1. QED
      BY <2>2, LenProperties
  <2>4. Len(added) = n
    <3> HIDE DEF added, n
    <3>1. QED
      BY <1>1, <2>3
  <2>5. QED
    BY <2>2, <2>4
<1>3. /\ file' = [file EXCEPT ![s] = f]
      /\ ids' = [ids EXCEPT ![s] = kept \o added]
      /\ lastId' = lastId + n
  BY DEF Insert
<1> HIDE DEF added, n
<1>4. /\ kept \o added \in Seq(Nat) /\ Len(kept \o added) = Len(f)
      /\ \A i \in 1..Len(kept) : (kept \o added)[i] = kept[i]
      /\ \A i \in 1..Len(f) : i > Len(kept) =>
            /\ i - Len(kept) \in 1..n
            /\ (kept \o added)[i] = added[i - Len(kept)]
  <2>1. kept \o added \in Seq(Nat) /\ Len(kept \o added) = Len(kept) + Len(added)
    BY <1>2, ConcatProperties
  <2>2. \A i \in 1..Len(kept) : (kept \o added)[i] = kept[i]
    BY <1>1, <1>2, ConcatProperties
  <2>3. ASSUME NEW i \in 1..Len(f), i > Len(kept)
        PROVE  i - Len(kept) \in 1..n /\ (kept \o added)[i] = added[i - Len(kept)]
    BY <1>1, <1>2, <2>3, ConcatProperties
  <2>4. QED
    BY <1>1, <1>2, <2>1, <2>2, <2>3
<1>5. /\ file' \in [Sessions -> Seq(Nat)] /\ ids' \in [Sessions -> {None} \cup Seq(Nat)]
      /\ file'[s] = f /\ ids'[s] = kept \o added /\ ids'[s] \in Seq(Nat)
      /\ Len(ids'[s]) = Len(file'[s])
      /\ \A t \in Sessions \ {s} : ids'[t] = ids[t] /\ file'[t] = file[t]
  BY <1>3, <1>4 DEF IndexTypeOK
<1>6. lastId' \in Nat /\ lastId <= lastId'
  BY <1>1, <1>3
<1>7. ASSUME NEW r \in AllRows', r \notin AllRows
      PROVE  \E i \in 1..n : r = [session |-> s, id |-> lastId + i, request |-> f[Len(kept) + i]]
  <2>1. PICK t \in Sessions : r \in Rows(t)'
    BY DEF AllRows
  <2>2. t = s
    <3>1. t # s => Rows(t)' = Rows(t)
      BY <1>5 DEF Rows
    <3>2. QED
      BY <1>7, <2>1, <3>1 DEF AllRows
  <2>3. PICK i \in DOMAIN ids'[s] : r = [session |-> s, id |-> ids'[s][i], request |-> file'[s][i]]
    BY <2>1, <2>2 DEF Rows
  <2>4. i \in 1..Len(f) /\ r = [session |-> s, id |-> (kept \o added)[i], request |-> f[i]]
    BY <1>4, <1>5, <2>3
  <2>5. i \notin 1..Len(kept)
    <3>1. SUFFICES ASSUME i \in 1..Len(kept) PROVE FALSE
      OBVIOUS
    <3>2. r = [session |-> s, id |-> ids[s][i], request |-> file[s][i]] /\ i \in DOMAIN ids[s]
      BY <1>4, <2>4, <3>1
    <3>3. r \in Rows(s)
      BY <3>1, <3>2 DEF Rows
    <3>4. QED
      BY <1>7, <3>3 DEF AllRows
  <2>6. i - Len(kept) \in 1..n /\ i = Len(kept) + (i - Len(kept))
    BY <1>1, <1>4, <2>4, <2>5
  <2>7. (kept \o added)[i] = lastId + (i - Len(kept))
    BY <1>1, <1>2, <1>4, <2>4, <2>5
  <2>8. QED
    BY <2>4, <2>6, <2>7
<1>8. OnlyNewIds
  <2>1. \A r \in AllRows : r.id \in 1..lastId
    BY DEF IndexTypeOK
  <2>2. ASSUME NEW r \in AllRows'
        PROVE  r.id \in 1..lastId' /\ (r \in AllRows \/ lastId < r.id)
    BY <1>1, <1>3, <1>7, <2>1
  <2>3. QED
    BY <1>6, <2>2 DEF OnlyNewIds
<1>9. UniqueIds'
  <2>1. ASSUME NEW r \in AllRows', NEW q \in AllRows', r.id = q.id PROVE r = q
    <3>1. CASE r \in AllRows /\ q \in AllRows
      BY <2>1, <3>1 DEF UniqueIds
    <3>2. CASE r \notin AllRows /\ q \notin AllRows
      <4>1. PICK i \in 1..n :
              r = [session |-> s, id |-> lastId + i, request |-> f[Len(kept) + i]]
        BY <1>7, <3>2
      <4>2. PICK j \in 1..n :
              q = [session |-> s, id |-> lastId + j, request |-> f[Len(kept) + j]]
        BY <1>7, <3>2
      <4>3. i = j
        <5>1. lastId + i = lastId + j
          BY <2>1, <4>1, <4>2
        <5>2. QED
          BY <1>1, <5>1
      <4>4. QED
        BY <4>1, <4>2, <4>3
    <3>3. \A x \in AllRows' : x \in AllRows => x.id <= lastId
      BY DEF IndexTypeOK
    <3>4. \A x \in AllRows' : x \notin AllRows => x.id > lastId /\ x.id \in Nat
      BY <1>1, <1>7
    <3>5. CASE r \in AllRows /\ q \notin AllRows
      BY <1>1, <2>1, <3>3, <3>4, <3>5
    <3>6. CASE r \notin AllRows /\ q \in AllRows
      BY <1>1, <2>1, <3>3, <3>4, <3>6
    <3>7. QED
      BY <3>1, <3>2, <3>5, <3>6
  <2>2. QED
    BY <2>1 DEF UniqueIds
<1>10. QED
  BY <1>5, <1>8, <1>9

\* The four things a rescan may find, and what they do to the ids.
LEMMA IndexStep ==
  ASSUME IndexTypeOK, UniqueIds, Index
  PROVE  /\ IndexTypeOK' /\ UniqueIds' /\ OnlyNewIds
         /\ UNCHANGED <<streamVars, refreshVars, userVars, screenVars>>
<1>1. PICK s \in Sessions : Grow(s) \/ Rebuild(s) \/ Drop(s) \/ IndexAgain(s)
  BY DEF Index
<1>2. /\ UNCHANGED <<streamVars, refreshVars, userVars, screenVars>>
      /\ changes' \in 0..MaxChanges
  <2>1. Change
    BY <1>1 DEF Grow, Rebuild, Drop, IndexAgain
  <2>2. QED
    BY <2>1, ViewAssumption DEF Change, IndexTypeOK
<1>3. Fresh \in Nat
  <2>1. Cardinality(Sessions) \in Nat
    BY ViewAssumption, FS_CardinalityType
  <2>2. QED
    BY <2>1, ViewAssumption DEF Fresh, IndexTypeOK
<1>4. file[s] \in Seq(Nat) /\ ids[s] \in {None} \cup Seq(Nat) /\ epoch[s] \in Nat
  BY DEF IndexTypeOK
<1>5. ASSUME NEW kept \in Seq(Nat), NEW f \in Seq(Nat), NEW e \in Nat \ {0},
             Insert(s, kept, f), Len(kept) <= Len(f),
             \A i \in 1..Len(kept) :
               /\ ids[s] # None /\ i \in DOMAIN ids[s]
               /\ kept[i] = ids[s][i] /\ f[i] = file[s][i],
             epoch' = [epoch EXCEPT ![s] = e], reborn' \in BOOLEAN
      PROVE  IndexTypeOK' /\ UniqueIds' /\ OnlyNewIds
  <2>1. /\ file' \in [Sessions -> Seq(Nat)] /\ ids' \in [Sessions -> {None} \cup Seq(Nat)]
        /\ ids'[s] \in Seq(Nat) /\ Len(ids'[s]) = Len(file'[s])
        /\ \A t \in Sessions \ {s} : ids'[t] = ids[t] /\ file'[t] = file[t]
        /\ OnlyNewIds /\ UniqueIds'
    BY <1>5, InsertRows
  <2>2. epoch' \in [Sessions -> Nat] /\ epoch'[s] > 0 /\ \A t \in Sessions \ {s} : epoch'[t] = epoch[t]
    BY <1>5 DEF IndexTypeOK
  <2>3. ASSUME NEW t \in Sessions, ids'[t] # None
        PROVE  Len(ids'[t]) = Len(file'[t]) /\ epoch'[t] > 0
    BY <2>1, <2>2, <2>3 DEF IndexTypeOK
  <2>4. lastId' \in Nat /\ \A r \in AllRows' : r.id \in 1..lastId'
    BY <2>1 DEF OnlyNewIds
  <2>5. QED
    BY <1>2, <1>5, <2>1, <2>2, <2>3, <2>4 DEF IndexTypeOK
<1>6. CASE Grow(s)
  <2>1. /\ ids[s] # None /\ Insert(s, ids[s], Append(file[s], Fresh)) /\ UNCHANGED <<epoch, reborn>>
    BY <1>6 DEF Grow
  <2>2. ids[s] \in Seq(Nat) /\ Len(ids[s]) = Len(file[s]) /\ epoch[s] \in Nat \ {0}
    BY <1>4, <2>1 DEF IndexTypeOK
  <2>3. /\ Append(file[s], Fresh) \in Seq(Nat) /\ Len(ids[s]) <= Len(Append(file[s], Fresh))
        /\ \A i \in 1..Len(ids[s]) : i \in DOMAIN ids[s] /\ Append(file[s], Fresh)[i] = file[s][i]
    BY <1>3, <1>4, <2>2
  <2>4. epoch' = [epoch EXCEPT ![s] = epoch[s]] /\ reborn' \in BOOLEAN
    BY <2>1 DEF IndexTypeOK
  <2>5. QED
    BY <1>2, <1>5, <2>1, <2>2, <2>3, <2>4
<1>7. ASSUME NEW f \in {file[s], <<Fresh>>}, NEW e \in Nat \ {0}, Insert(s, <<>>, f),
             epoch' = [epoch EXCEPT ![s] = e], reborn' \in BOOLEAN
      PROVE  IndexTypeOK' /\ UniqueIds' /\ OnlyNewIds
  <2>1. f \in Seq(Nat)
    <3>1. <<Fresh>> \in Seq(Nat)
      BY <1>3
    <3>2. QED
      BY <1>4, <1>7, <3>1
  <2>2. <<>> \in Seq(Nat) /\ Len(<<>>) = 0 /\ 1..Len(<<>>) = {}
    OBVIOUS
  <2>3. Len(<<>>) <= Len(f)
    BY <2>1, <2>2, LenProperties
  <2>4. \A i \in 1..Len(<<>>) : /\ ids[s] # None /\ i \in DOMAIN ids[s]
                               /\ <<>>[i] = ids[s][i] /\ f[i] = file[s][i]
    BY <2>2
  <2>5. QED
    BY <1>5, <1>7, <2>1, <2>2, <2>3, <2>4, Zenon
<1>8. CASE Rebuild(s)
  <2>1. PICK f \in {file[s], <<Fresh>>} : Insert(s, <<>>, f)
    BY <1>8 DEF Rebuild
  <2>2. epoch' = [epoch EXCEPT ![s] = epoch[s] + 1] /\ reborn' \in BOOLEAN
    BY <1>8 DEF Rebuild, IndexTypeOK
  <2>3. epoch[s] + 1 \in Nat \ {0}
    BY <1>4
  <2>4. QED
    BY <1>2, <1>7, <2>1, <2>2, <2>3
<1>9. CASE IndexAgain(s)
  <2>1. PICK f \in {file[s], <<Fresh>>} : Insert(s, <<>>, f)
    BY <1>9 DEF IndexAgain
  <2>2. epoch' = [epoch EXCEPT ![s] = 1] /\ reborn' \in BOOLEAN
    BY <1>9 DEF IndexAgain
  <2>3. 1 \in Nat \ {0}
    OBVIOUS
  <2>4. QED
    BY <1>2, <1>7, <2>1, <2>2, <2>3
<1>10. CASE Drop(s)
  <2>1. /\ ids' = [ids EXCEPT ![s] = None] /\ epoch' = [epoch EXCEPT ![s] = 0]
        /\ UNCHANGED <<file, lastId, reborn>>
    BY <1>10 DEF Drop
  <2>2. /\ ids' \in [Sessions -> {None} \cup Seq(Nat)] /\ epoch' \in [Sessions -> Nat]
        /\ ids'[s] = None
        /\ \A t \in Sessions \ {s} : ids'[t] = ids[t] /\ epoch'[t] = epoch[t]
    BY <2>1 DEF IndexTypeOK
  <2>3. AllRows' \subseteq AllRows
    <3>1. \A t \in Sessions : Rows(t)' \subseteq Rows(t)
      BY <2>1, <2>2 DEF Rows
    <3>2. QED
      BY <3>1 DEF AllRows
  <2>4. lastId \in Nat /\ \A r \in AllRows : r.id \in 1..lastId
    BY DEF IndexTypeOK
  <2>5. OnlyNewIds /\ UniqueIds'
    BY <2>1, <2>3, <2>4 DEF OnlyNewIds, UniqueIds
  <2>6. IndexTypeOK'
    BY <1>2, <2>1, <2>2, <2>3, <2>4 DEF IndexTypeOK
  <2>7. QED
    BY <1>2, <2>5, <2>6
<1>11. QED
  BY <1>1, <1>2, <1>6, <1>8, <1>9, <1>10

\* What a page remembers stays true, as no id is given out twice.
LEMMA IndexInv == ASSUME ViewInv, Index PROVE ViewInv'
<1> USE DEF ViewInv
<1>1. /\ IndexTypeOK' /\ UniqueIds' /\ OnlyNewIds
      /\ UNCHANGED <<streamVars, refreshVars, userVars, screenVars>>
  BY IndexStep DEF TypeOK
<1>2. StreamTypeOK'
  <2>1. lastId \in Nat /\ lastId' \in Nat /\ lastId <= lastId'
    BY <1>1 DEF OnlyNewIds, TypeOK, IndexTypeOK
  <2>2. server' = server /\ reconnects' = reconnects
    BY <1>1 DEF streamVars
  <2>3. QED
    BY <2>1, <2>2 DEF StreamTypeOK, TypeOK, Closed
<1>3. PageTypeOK'
  BY <1>1 DEF PageTypeOK, TypeOK, refreshVars, userVars, screenVars
<1>4. MemoryIsTrue'
  <2>1. Remembered' = Remembered
    BY <1>1 DEF Remembered, userVars, screenVars
  <2>2. ASSUME NEW m \in Remembered
        PROVE  m.id <= lastId' /\ \A r \in AllRows' : r.id = m.id => r.request = m.request
    <3>1. m.id <= lastId /\ \A r \in AllRows : r.id = m.id => r.request = m.request
      BY <2>2 DEF MemoryIsTrue
    <3>2. m.id \in Nat
      BY <2>2 DEF Remembered, TypeOK, PageTypeOK, LoadRecords, RowRecords
    <3>3. lastId \in Nat /\ lastId' \in Nat /\ lastId <= lastId'
      BY <1>1 DEF OnlyNewIds, TypeOK, IndexTypeOK
    <3>4. \A r \in AllRows' : r.id \in Nat /\ (r \in AllRows \/ lastId < r.id)
      BY <1>1, <3>3 DEF OnlyNewIds
    <3>5. QED
      BY <3>1, <3>2, <3>3, <3>4
  <2>3. QED
    BY <2>1, <2>2 DEF MemoryIsTrue
<1>5. EveryRowTold'
  <2>1. server' = server
    BY <1>1 DEF streamVars
  <2>2. server.lastId \in Nat /\ server.lastId <= lastId /\ lastId \in Nat
    BY DEF TypeOK, StreamTypeOK, IndexTypeOK
  <2>3. \A r \in AllRows' : r.id \in Nat /\ (r \in AllRows \/ lastId < r.id)
    BY <1>1 DEF OnlyNewIds
  <2>4. QED
    BY <2>1, <2>2, <2>3 DEF EveryRowTold, Connected
<1>6. ExportIsTrue'
  BY <1>1 DEF ExportIsTrue, userVars
<1>7. QED
  BY <1>1, <1>2, <1>3, <1>4, <1>5, <1>6 DEF TypeOK

-----------------------------------------------------------------------------
(* The stream.                                                             *)

\* The steps that only read the index.
LEMMA SameIndex ==
  ASSUME UNCHANGED indexVars
  PROVE  /\ lastId' = lastId /\ AllRows' = AllRows /\ \A s \in Sessions : Rows(s)' = Rows(s)
         /\ IndexTypeOK => IndexTypeOK'
         /\ UniqueIds => UniqueIds'
<1>1. /\ file' = file /\ ids' = ids /\ epoch' = epoch /\ lastId' = lastId /\ reborn' = reborn
      /\ changes' = changes
  BY DEF indexVars
<1>2. \A s \in Sessions : Rows(s)' = Rows(s)
  BY <1>1 DEF Rows
<1>3. AllRows' = AllRows
  BY <1>2 DEF AllRows
<1>4. QED
  BY <1>1, <1>2, <1>3 DEF IndexTypeOK, UniqueIds

\* The stream moves on to an id only when everything up to it is told.
LEMMA StreamInv == ASSUME ViewInv, Stream PROVE ViewInv'
<1> USE DEF ViewInv
<1>1. UNCHANGED <<indexVars, refreshVars, userVars, screenVars>>
  BY DEF Stream, Connect, Open, Greet, Tick, SendResets, ReadLatest, SendBatch, Disconnect, StreamStep
<1>2. /\ lastId' = lastId /\ AllRows' = AllRows
      /\ IndexTypeOK' /\ UniqueIds' /\ IndexTypeOK /\ lastId \in Nat
  BY <1>1, SameIndex DEF TypeOK, IndexTypeOK
<1>3. PageTypeOK' /\ ExportIsTrue'
  BY <1>1 DEF PageTypeOK, TypeOK, ExportIsTrue, refreshVars, userVars, screenVars
<1>4. MemoryIsTrue'
  <2>1. Remembered' = Remembered
    BY <1>1 DEF Remembered, userVars, screenVars
  <2>2. QED
    BY <1>2, <2>1 DEF MemoryIsTrue
<1>5. reconnects' \in 0..MaxSteps
  BY ViewAssumption
  DEF Stream, Connect, Open, Greet, Tick, SendResets, ReadLatest, SendBatch, Disconnect, StreamStep, Act,
      TypeOK, StreamTypeOK, IndexTypeOK, PageTypeOK
<1>6. MaxId \in 0..lastId /\ \A r \in AllRows : r.id \in Nat /\ r.id <= MaxId
  BY <1>2, MaxIdBounds DEF IndexTypeOK
<1>7. /\ DOMAIN server = DOMAIN Closed /\ server.lastId \in 0..lastId
      /\ \A r \in AllRows : r.id <= server.lastId => r \in server.told
  BY DEF TypeOK, StreamTypeOK, EveryRowTold
<1> DEFINE Good(v) ==
      /\ DOMAIN v = DOMAIN Closed /\ v.lastId \in 0..lastId
      /\ v.stage \in {"closed", "opening", "greeting", "idle", "resets", "latest", "batch"}
      /\ \A r \in AllRows : r.id <= v.lastId => r \in v.told
<1>8. Good(server')
  <2>0. \A r \in AllRows : ~(r.id <= 0)
    BY <1>2 DEF IndexTypeOK
  <2>1. CASE Connect
    <3>1. server' = [Closed EXCEPT !.stage = "opening", !.revision = Revision]
      BY <2>1 DEF Connect
    <3>2. QED
      BY <1>2, <2>0, <3>1 DEF Closed
  <2>2. CASE Open
    <3>1. server' = [server EXCEPT !.stage = "greeting", !.lastId = MaxId, !.told = AllRows]
      BY <2>2 DEF Open
    <3>2. QED
      BY <1>6, <1>7, <3>1 DEF Closed
  <2>10. CASE Greet
    BY <1>7, <2>10 DEF Greet, Closed
  <2>3. CASE Tick
    BY <1>7, <2>3 DEF Tick, Connected, Closed
  <2>4. CASE SendResets
    BY <1>7, <2>4 DEF SendResets, Connected, Closed
  <2>5. CASE ReadLatest
    <3>1. CASE MaxId < server.lastId /\ server' = [server EXCEPT !.stage = "idle", !.lastId = MaxId]
      BY <1>2, <1>6, <1>7, <2>5, <3>1 DEF ReadLatest, Connected, Closed
    <3>2. CASE server' = [server EXCEPT !.stage = "batch", !.latest = MaxId]
      BY <1>7, <2>5, <3>2 DEF ReadLatest, Connected, Closed
    <3>3. QED
      BY <2>5, <3>1, <3>2 DEF ReadLatest
  <2>6. CASE SendBatch
    <3>1. server.stage = "batch"
      BY <2>6 DEF SendBatch
    <3>2. CASE server' = [server EXCEPT !.stage = "idle", !.latest = 0]
      BY <1>7, <3>1, <3>2 DEF Connected, Closed
    <3>3. CASE /\ Items # {}
               /\ server' = [server EXCEPT !.lastId = Max({r.id : r \in Items}), !.told = @ \cup Items]
      <4>1. PICK last : last = Max({r.id : r \in Items})
        OBVIOUS
      <4>2. /\ last \in 1..lastId
            /\ \A r \in AllRows : r.id > server.lastId /\ r.id <= last => r \in Items
        BY <1>2, <1>7, <3>3, <4>1, ItemsAreFirst
      <4>3. server' = [server EXCEPT !.lastId = last, !.told = @ \cup Items]
        BY <3>3, <4>1
      <4>4. /\ DOMAIN server' = DOMAIN Closed /\ server'.lastId = last
            /\ server'.told = server.told \cup Items /\ server'.stage = "batch"
        BY <1>7, <3>1, <4>3 DEF Closed
      <4>5. ASSUME NEW r \in AllRows, r.id <= last PROVE r \in server.told \cup Items
        BY <1>2, <1>6, <1>7, <3>1, <4>2, <4>5 DEF Connected
      <4>6. QED
        BY <1>2, <4>2, <4>4, <4>5
    <3>4. QED
      BY <2>6, <3>2, <3>3 DEF SendBatch
  <2>7. CASE Disconnect
    BY <1>2, <2>0, <2>7 DEF Disconnect, Closed
  <2>8. QED
    BY <2>1, <2>2, <2>10, <2>3, <2>4, <2>5, <2>6, <2>7 DEF Stream
<1>9. StreamTypeOK' /\ EveryRowTold'
  BY <1>2, <1>5, <1>8 DEF StreamTypeOK, EveryRowTold, Connected, Closed
<1>10. QED
  BY <1>2, <1>3, <1>4, <1>9 DEF TypeOK

-----------------------------------------------------------------------------
(* The page.                                                               *)

\* A step of the user, or a failure, is one of a bounded number.
LEMMA ActBounds ==
  ASSUME TypeOK, Act
  PROVE  /\ clicks + 1 \in 0..MaxSteps /\ toggles + 1 \in 0..MaxSteps
         /\ clicks + 1 \in Nat \ {0} /\ failures + 1 \in 0..MaxSteps
<1>1. /\ changes \in Nat /\ clicks \in Nat /\ toggles \in Nat /\ reconnects \in Nat
      /\ failures \in Nat /\ MaxSteps \in Nat
  BY ViewAssumption DEF TypeOK, IndexTypeOK, StreamTypeOK, PageTypeOK
<1>2. QED
  BY <1>1 DEF Act

\* The calls that set timers.
LEMMA Schedules ==
  ASSUME PageTypeOK
  PROVE  /\ \A p, q \in BOOLEAN : Schedule(p, q) => pending' \in BOOLEAN /\ timers' \in Nat
         /\ EndRefresh => /\ refresh' = "none" /\ busy' \in BOOLEAN /\ ~busy'
                          /\ pending' \in BOOLEAN /\ timers' \in Nat
<1>1. timers \in Nat /\ pending \in BOOLEAN /\ timers + 1 \in Nat
  BY DEF PageTypeOK
<1>2. ASSUME NEW p \in BOOLEAN, NEW q \in BOOLEAN, Schedule(p, q)
      PROVE  pending' \in BOOLEAN /\ timers' \in Nat
  BY <1>1, <1>2 DEF Schedule
<1>3. ASSUME EndRefresh
      PROVE  /\ refresh' = "none" /\ busy' \in BOOLEAN /\ ~busy'
             /\ pending' \in BOOLEAN /\ timers' \in Nat
  <2>1. refresh' = "none" /\ busy' = FALSE
    BY <1>3 DEF EndRefresh
  <2>2. CASE pending /\ ~paused
    <3>1. Schedule(FALSE, FALSE)
      BY <1>3, <2>2 DEF EndRefresh
    <3>2. QED
      BY <1>2, <2>1, <3>1
  <2>3. CASE ~(pending /\ ~paused)
    <3>1. pending' = pending /\ timers' = timers
      BY <1>3, <2>3 DEF EndRefresh
    <3>2. pending' \in BOOLEAN /\ timers' \in Nat
      BY <1>1, <3>1
    <3>3. QED
      BY <2>1, <3>2
  <2>4. QED
    BY <2>2, <2>3
<1>4. QED
  BY <1>2, <1>3

\* A step of the page that remembers nothing but what is true.
LEMMA PageStep ==
  ASSUME ViewInv, UNCHANGED <<indexVars, server, reconnects>>, PageTypeOK', ExportIsTrue',
         \A m \in Remembered' :
           m \in Remembered \/ \E r \in AllRows \cup Remembered : m.id = r.id /\ m.request = r.request
  PROVE  ViewInv'
<1> USE DEF ViewInv
<1>1. /\ lastId' = lastId /\ AllRows' = AllRows /\ IndexTypeOK' /\ UniqueIds'
  BY SameIndex DEF TypeOK
<1>2. StreamTypeOK' /\ EveryRowTold'
  BY <1>1 DEF TypeOK, StreamTypeOK, EveryRowTold, Connected, Closed
<1>3. ASSUME NEW r \in AllRows
      PROVE  r.id <= lastId /\ \A q \in AllRows : q.id = r.id => q.request = r.request
  <2>1. r.id \in 1..lastId
    BY DEF TypeOK, IndexTypeOK
  <2>2. \A q \in AllRows : q.id = r.id => q = r
    BY DEF UniqueIds
  <2>3. QED
    BY <2>1, <2>2 DEF TypeOK, IndexTypeOK
<1>4. ASSUME NEW m \in Remembered
      PROVE  m.id <= lastId /\ \A q \in AllRows : q.id = m.id => q.request = m.request
  BY DEF MemoryIsTrue
<1>5. ASSUME NEW m \in Remembered'
      PROVE  m.id <= lastId /\ \A q \in AllRows : q.id = m.id => q.request = m.request
  <2>1. CASE m \in Remembered
    BY <1>4, <2>1
  <2>2. CASE \E r \in AllRows \cup Remembered : m.id = r.id /\ m.request = r.request
    <3>1. PICK r \in AllRows \cup Remembered : m.id = r.id /\ m.request = r.request
      BY <2>2
    <3>2. r.id <= lastId /\ \A q \in AllRows : q.id = r.id => q.request = r.request
      BY <1>3, <1>4
    <3>3. QED
      BY <3>1, <3>2
  <2>3. QED
    BY <2>1, <2>2
<1>6. MemoryIsTrue'
  BY <1>1, <1>5 DEF MemoryIsTrue
<1>7. QED
  BY <1>1, <1>2, <1>6 DEF TypeOK

\* A reset drops boxes, another event only starts a timer.
LEMMA EventInv == ASSUME ViewInv, Event PROVE ViewInv'
<1>1. /\ checked' \subseteq checked /\ Schedule(paused, pending)
      /\ UNCHANGED <<indexVars, server, reconnects, busy, refresh, listing, screenVars,
                     selected, paused, export, clicks, toggles>>
  BY DEF Event
<1>2. PageTypeOK
  BY DEF ViewInv, TypeOK
<1>3. pending' \in BOOLEAN /\ timers' \in Nat
  <2>1. paused \in BOOLEAN /\ pending \in BOOLEAN
    BY <1>2 DEF PageTypeOK
  <2>2. QED
    BY <1>1, <1>2, <2>1, Schedules
<1>4. IsFiniteSet(checked')
  BY <1>1, <1>2, FS_Subset DEF PageTypeOK
<1>5. PageTypeOK'
  BY <1>1, <1>2, <1>3, <1>4 DEF PageTypeOK, screenVars
<1>6. Remembered' \subseteq Remembered
  BY <1>1 DEF Remembered, screenVars
<1>7. ExportIsTrue'
  BY <1>1 DEF ViewInv, ExportIsTrue
<1>8. QED
  BY <1>1, <1>5, <1>6, <1>7, PageStep

\* A timer ends: a refresh begins, or not.
LEMMA TimerInv == ASSUME ViewInv, Timer PROVE ViewInv'
<1>1. /\ timers > 0 /\ timers' = timers - 1 /\ Refresh
      /\ UNCHANGED <<indexVars, streamVars, userVars, screenVars, listing>>
  BY DEF Timer
<1>2. PageTypeOK
  BY DEF ViewInv, TypeOK
<1>3. timers' \in Nat
  BY <1>1, <1>2 DEF PageTypeOK
<1>4. /\ pending' \in BOOLEAN /\ busy' \in BOOLEAN /\ (busy' <=> refresh' # "none")
      /\ refresh' \in {"none", "sessions", "listed", "requests"}
      /\ refresh' = "requests" <=> refresh = "requests"
  <2>1. CASE pending' = FALSE /\ UNCHANGED <<busy, refresh>>
    BY <1>2, <2>1 DEF PageTypeOK
  <2>2. CASE pending' = TRUE /\ UNCHANGED <<busy, refresh>>
    BY <1>2, <2>2 DEF PageTypeOK
  <2>3. CASE ~busy /\ pending' = FALSE /\ busy' = TRUE /\ refresh' = "sessions"
    BY <1>2, <2>3 DEF PageTypeOK
  <2>4. QED
    BY <1>1, <2>1, <2>2, <2>3 DEF Refresh
<1>5. PageTypeOK'
  <2>1. /\ loads' = loads
        /\ Cardinality({l \in loads : l.by = 0}) = IF refresh' = "requests" THEN 1 ELSE 0
    BY <1>1, <1>2, <1>4 DEF PageTypeOK, screenVars
  <2>2. QED
    BY <1>1, <1>2, <1>3, <1>4, <2>1 DEF PageTypeOK, userVars, screenVars
<1>6. Remembered' = Remembered
  BY <1>1 DEF Remembered, userVars, screenVars
<1>7. ExportIsTrue'
  BY <1>1 DEF ViewInv, ExportIsTrue, userVars
<1>8. QED
  BY <1>1, <1>5, <1>6, <1>7, PageStep DEF streamVars

\* The answer of loadSessions is under way.
LEMMA ListSessionsInv == ASSUME ViewInv, ListSessions PROVE ViewInv'
<1>1. /\ refresh = "sessions" /\ refresh' = "listed" /\ listing' \subseteq Sessions
      /\ UNCHANGED <<indexVars, streamVars, userVars, screenVars, pending, busy, timers>>
  BY DEF ListSessions
<1>2. PageTypeOK
  BY DEF ViewInv, TypeOK
<1>3. PageTypeOK'
  BY <1>1, <1>2 DEF PageTypeOK, userVars, screenVars
<1>4. Remembered' = Remembered
  BY <1>1 DEF Remembered, userVars, screenVars
<1>5. ExportIsTrue'
  BY <1>1 DEF ViewInv, ExportIsTrue, userVars
<1>6. QED
  BY <1>1, <1>3, <1>4, <1>5, PageStep DEF streamVars

\* Calls of loadRequests that belong to a refresh.
Own(calls) == {l \in calls : l.by = 0}

\* There is one while the refresh waits for its requests, and none otherwise.
LEMMA OwnCalls ==
  ASSUME PageTypeOK
  PROVE  /\ refresh = "requests" => \E l : Own(loads) = {l}
         /\ refresh # "requests" => Own(loads) = {}
<1>1. IsFiniteSet(Own(loads))
  BY FS_Subset DEF PageTypeOK, Own
<1>2. Cardinality(Own(loads)) = IF refresh = "requests" THEN 1 ELSE 0
  BY DEF PageTypeOK, Own
<1>3. QED
  BY <1>1, <1>2, FS_EmptySet, FS_Singleton

\* How PageTypeOK says so.
LEMMA OwnCount ==
  /\ \A calls : Own(calls) = {} => Cardinality({l \in calls : l.by = 0}) = 0
  /\ \A calls, x : Own(calls) = {x} => Cardinality({l \in calls : l.by = 0}) = 1
BY FS_EmptySet, FS_Singleton DEF Own

\* The selected session stays when it is listed, and its requests are next.
LEMMA SessionsLoadedInv == ASSUME ViewInv, SessionsLoaded PROVE ViewInv'
<1>1. /\ refresh = "listed" /\ list' = listing /\ listing' = {}
      /\ selected' = (IF selected \in listing THEN selected ELSE None)
      /\ UNCHANGED <<indexVars, streamVars, checked, paused, export, clicks, toggles, table, late,
                     failures>>
      /\ failed' = failed \ {"sessions"}
  BY DEF SessionsLoaded
<1>2. PageTypeOK /\ listing \subseteq Sessions /\ Own(loads) = {}
  BY <1>1, OwnCalls DEF ViewInv, TypeOK, PageTypeOK
<1>3. CASE selected \in listing
  <2>1. /\ refresh' = "requests" /\ loads' = loads \cup {Load(0, selected)}
        /\ UNCHANGED <<pending, busy, timers>>
    BY <1>3 DEF SessionsLoaded
  <2>2. Load(0, selected) \in LoadRecords /\ Load(0, selected).by = 0 /\ Load(0, selected).rows = {}
    BY <1>2, <1>3 DEF Load, LoadRecords
  <2>3. Own(loads') = {Load(0, selected)}
    BY <1>2, <2>1, <2>2 DEF Own
  <2>4. Cardinality({l \in loads' : l.by = 0}) = 1
    BY <2>3, OwnCount
  <2>5. IsFiniteSet(loads')
    BY <1>2, <2>1, FS_AddElement DEF PageTypeOK
  <2>6. PageTypeOK'
    BY <1>1, <1>2, <2>1, <2>2, <2>4, <2>5 DEF PageTypeOK
  <2>7. Remembered' \subseteq Remembered
    BY <1>1, <2>1, <2>2 DEF Remembered
  <2>8. ExportIsTrue'
    BY <1>1 DEF ViewInv, ExportIsTrue
  <2>9. QED
    BY <1>1, <2>6, <2>7, <2>8, PageStep DEF streamVars
<1>4. CASE selected \notin listing
  <2>1. EndRefresh /\ loads' = loads
    BY <1>4 DEF SessionsLoaded
  <2>2. refresh' = "none" /\ busy' \in BOOLEAN /\ ~busy' /\ pending' \in BOOLEAN /\ timers' \in Nat
    BY <1>2, <2>1, Schedules
  <2>3. Cardinality({l \in loads' : l.by = 0}) = 0
    BY <1>2, <2>1, OwnCount
  <2>4. PageTypeOK'
    BY <1>1, <1>2, <2>1, <2>2, <2>3 DEF PageTypeOK
  <2>5. Remembered' = Remembered
    BY <1>1, <2>1 DEF Remembered
  <2>6. ExportIsTrue'
    BY <1>1 DEF ViewInv, ExportIsTrue
  <2>7. QED
    BY <1>1, <2>4, <2>5, <2>6, PageStep DEF streamVars
<1>5. QED
  BY <1>3, <1>4

\* The request for the sessions failed: the selected session stays as it is.
LEMMA SessionsFailInv == ASSUME ViewInv, SessionsFail PROVE ViewInv'
<1>1. /\ refresh = "sessions" /\ Act /\ failures' = failures + 1
      /\ failed' = failed \cup {"sessions"}
      /\ UNCHANGED <<indexVars, streamVars, userVars, list, table, late, listing>>
  BY DEF SessionsFail, Fail
<1>2. PageTypeOK /\ TypeOK /\ Own(loads) = {} /\ failures' \in 0..MaxSteps
  BY <1>1, OwnCalls, ActBounds DEF ViewInv, TypeOK
<1>3. CASE selected # None
  <2>1. /\ refresh' = "requests" /\ loads' = loads \cup {Load(0, selected)}
        /\ UNCHANGED <<pending, busy, timers>>
    BY <1>3 DEF SessionsFail
  <2>2. Load(0, selected) \in LoadRecords /\ Load(0, selected).by = 0 /\ Load(0, selected).rows = {}
    BY <1>2, <1>3 DEF Load, LoadRecords, PageTypeOK
  <2>3. Own(loads') = {Load(0, selected)}
    BY <1>2, <2>1, <2>2 DEF Own
  <2>4. Cardinality({l \in loads' : l.by = 0}) = 1
    BY <2>3, OwnCount
  <2>5. IsFiniteSet(loads')
    BY <1>2, <2>1, FS_AddElement DEF PageTypeOK
  <2>6. PageTypeOK'
    BY <1>1, <1>2, <2>1, <2>2, <2>4, <2>5 DEF PageTypeOK, userVars
  <2>7. Remembered' \subseteq Remembered
    BY <1>1, <2>1, <2>2 DEF Remembered, userVars
  <2>8. ExportIsTrue'
    BY <1>1 DEF ViewInv, ExportIsTrue, userVars
  <2>9. QED
    BY <1>1, <2>6, <2>7, <2>8, PageStep DEF streamVars
<1>4. CASE selected = None
  <2>1. EndRefresh /\ loads' = loads
    BY <1>4 DEF SessionsFail
  <2>2. refresh' = "none" /\ busy' \in BOOLEAN /\ ~busy' /\ pending' \in BOOLEAN /\ timers' \in Nat
    BY <1>2, <2>1, Schedules
  <2>3. Cardinality({l \in loads' : l.by = 0}) = 0
    BY <1>2, <2>1, OwnCount
  <2>4. PageTypeOK'
    BY <1>1, <1>2, <2>1, <2>2, <2>3 DEF PageTypeOK, userVars
  <2>5. Remembered' = Remembered
    BY <1>1, <2>1 DEF Remembered, userVars
  <2>6. ExportIsTrue'
    BY <1>1 DEF ViewInv, ExportIsTrue, userVars
  <2>7. QED
    BY <1>1, <2>4, <2>5, <2>6, PageStep DEF streamVars
<1>5. QED
  BY <1>3, <1>4

\* An answer holds rows of the index.
LEMMA ListRequestsInv == ASSUME ViewInv, ListRequests PROVE ViewInv'
<1>1. PICK l \in loads :
        /\ loads' = (loads \ {l}) \cup
              {[l EXCEPT !.answered = TRUE, !.rows = Rows(l.session), !.at = changes]}
        /\ UNCHANGED <<indexVars, streamVars, refreshVars, userVars, list, table, late, failed,
                       failures>>
  BY DEF ListRequests
<1>2. PageTypeOK /\ IndexTypeOK /\ l \in LoadRecords /\ l.session \in Sessions
  BY DEF ViewInv, TypeOK, PageTypeOK, LoadRecords
<1>3. PICK answer : answer = [l EXCEPT !.answered = TRUE, !.rows = Rows(l.session), !.at = changes]
  OBVIOUS
<1>4. Rows(l.session) \subseteq RowRecords /\ Rows(l.session) \subseteq AllRows /\ changes \in Nat
  BY <1>2, RowIs, ViewAssumption DEF IndexTypeOK
<1>5. /\ answer \in LoadRecords /\ answer.by = l.by /\ answer.rows = Rows(l.session)
  BY <1>2, <1>3, <1>4 DEF LoadRecords
<1>6. loads' = (loads \ {l}) \cup {answer}
  BY <1>1, <1>3
<1>7. Cardinality({c \in loads' : c.by = 0}) = IF refresh' = "requests" THEN 1 ELSE 0
  <2>1. refresh' = refresh
    BY <1>1 DEF refreshVars
  <2>2. CASE refresh = "requests"
    <3>1. PICK x : Own(loads) = {x}
      BY <1>2, <2>2, OwnCalls
    <3>2. Own(loads') = {x} \/ Own(loads') = {answer}
      BY <1>5, <1>6, <3>1 DEF Own
    <3>3. QED
      BY <2>1, <2>2, <3>2, OwnCount
  <2>3. CASE refresh # "requests"
    <3>1. Own(loads) = {}
      BY <1>2, <2>3, OwnCalls
    <3>2. Own(loads') = {}
      BY <1>1, <1>5, <1>6, <3>1 DEF Own
    <3>3. QED
      BY <2>1, <2>3, <3>2, OwnCount
  <2>4. QED
    BY <2>2, <2>3
<1>8. IsFiniteSet(loads')
  BY <1>2, <1>6, FS_RemoveElement, FS_AddElement DEF PageTypeOK
<1>9. PageTypeOK'
  <2>1. loads' \subseteq LoadRecords
    BY <1>2, <1>5, <1>6 DEF PageTypeOK
  <2>2. QED
    BY <1>1, <1>2, <1>7, <1>8, <2>1 DEF PageTypeOK, refreshVars, userVars
<1>10. Remembered' \subseteq Remembered \cup AllRows
  BY <1>1, <1>4, <1>5, <1>6 DEF Remembered, userVars
<1>11. ExportIsTrue'
  BY <1>1 DEF ViewInv, ExportIsTrue, userVars
<1>12. QED
  BY <1>1, <1>9, <1>10, <1>11, PageStep DEF streamVars

\* The later of two changes.
LEMMA LaterIsNat == ASSUME NEW a \in Nat, NEW b \in Nat PROVE Max({a, b}) \in Nat
<1>1. {a, b} \in SUBSET Nat /\ {a, b} # {} /\ a + b \in Nat /\ \A x \in {a, b} : x <= a + b
  OBVIOUS
<1>2. Max({a, b}) \in {a, b}
  BY <1>1, MaxIsMember
<1>3. QED
  BY <1>2

\* With its call a refresh ends, and with no other.
LEMMA LoadEnds ==
  ASSUME PageTypeOK, NEW l \in loads, loads' = loads \ {l},
         IF l.by = 0 THEN EndRefresh ELSE UNCHANGED <<pending, busy, timers, refresh>>
  PROVE  /\ refresh' \in {"none", "sessions", "listed", "requests"}
         /\ busy' \in BOOLEAN /\ (busy' <=> refresh' # "none")
         /\ pending' \in BOOLEAN /\ timers' \in Nat
         /\ Cardinality({c \in loads' : c.by = 0}) = IF refresh' = "requests" THEN 1 ELSE 0
         /\ loads' \subseteq LoadRecords /\ IsFiniteSet(loads')
<1>1. CASE l.by = 0
  <2>1. refresh' = "none" /\ busy' \in BOOLEAN /\ ~busy' /\ pending' \in BOOLEAN /\ timers' \in Nat
    BY <1>1, Schedules
  <2>2. l \in Own(loads)
    BY <1>1 DEF Own
  <2>3. Own(loads) = {l}
    BY <2>2, OwnCalls
  <2>4. Own(loads') = {}
    BY <2>3 DEF Own
  <2>5. Cardinality({c \in loads' : c.by = 0}) = 0
    BY <2>4, OwnCount
  <2>6. QED
    BY <2>1, <2>5, FS_Subset DEF PageTypeOK
<1>2. CASE l.by # 0
  <2>1. UNCHANGED <<pending, busy, timers, refresh>>
    BY <1>2
  <2>2. {c \in loads' : c.by = 0} = {c \in loads : c.by = 0}
    BY <1>2
  <2>3. QED
    BY <2>1, <2>2, FS_Subset DEF PageTypeOK
<1>3. QED
  BY <1>1, <1>2

\* The answer is shown; the refresh it belongs to ends.
LEMMA RequestsLoadedInv == ASSUME ViewInv, RequestsLoaded PROVE ViewInv'
<1>1. PICK l \in loads :
        /\ loads' = loads \ {l}
        /\ table' = [rows |-> IF selected = None THEN {} ELSE l.rows, at |-> Max({l.at, table.at})]
        /\ late' = (l.session # selected \/ l.at < table.at)
        /\ IF l.by = 0 THEN EndRefresh ELSE UNCHANGED <<pending, busy, timers, refresh>>
        /\ failed' \subseteq failed
        /\ UNCHANGED <<indexVars, streamVars, userVars, list, listing, failures>>
  BY DEF RequestsLoaded
<1>2. /\ PageTypeOK /\ l.rows \in SUBSET RowRecords /\ l.at \in Nat /\ table.at \in Nat
  BY DEF ViewInv, TypeOK, PageTypeOK, LoadRecords
<1>3. table' \in [rows : SUBSET RowRecords, at : Nat] /\ table'.rows \subseteq l.rows
  <2>1. Max({l.at, table.at}) \in Nat
    BY <1>2, LaterIsNat
  <2>2. QED
    BY <1>1, <1>2, <2>1
<1>4. late' \in BOOLEAN
  BY <1>1
<1>5. loads' \subseteq loads /\ IsFiniteSet(loads')
  BY <1>1, <1>2, FS_Subset DEF PageTypeOK
<1>6. /\ refresh' \in {"none", "sessions", "listed", "requests"}
      /\ busy' \in BOOLEAN /\ (busy' <=> refresh' # "none")
      /\ pending' \in BOOLEAN /\ timers' \in Nat
      /\ Cardinality({c \in loads' : c.by = 0}) = IF refresh' = "requests" THEN 1 ELSE 0
  BY <1>1, <1>2, LoadEnds
<1>7. PageTypeOK'
  BY <1>1, <1>2, <1>3, <1>4, <1>5, <1>6 DEF PageTypeOK, userVars
<1>8. Remembered' \subseteq Remembered
  BY <1>1, <1>3, <1>5 DEF Remembered, userVars
<1>9. ExportIsTrue'
  BY <1>1 DEF ViewInv, ExportIsTrue, userVars
<1>10. QED
  BY <1>1, <1>7, <1>8, <1>9, PageStep DEF streamVars

\* A request for requests failed: nothing is shown, and the refresh it belongs to ends.
LEMMA RequestsFailInv == ASSUME ViewInv, RequestsFail PROVE ViewInv'
<1>1. PICK l \in loads :
        /\ loads' = loads \ {l}
        /\ Act /\ failures' = failures + 1 /\ failed' = failed \cup {"requests"}
        /\ IF l.by = 0 THEN EndRefresh ELSE UNCHANGED <<pending, busy, timers, refresh>>
        /\ UNCHANGED <<indexVars, streamVars, userVars, list, table, late, listing>>
  BY DEF RequestsFail, Fail
<1>2. PageTypeOK /\ failures' \in 0..MaxSteps
  BY <1>1, ActBounds DEF ViewInv, TypeOK
<1>3. /\ refresh' \in {"none", "sessions", "listed", "requests"}
      /\ busy' \in BOOLEAN /\ (busy' <=> refresh' # "none")
      /\ pending' \in BOOLEAN /\ timers' \in Nat
      /\ Cardinality({c \in loads' : c.by = 0}) = IF refresh' = "requests" THEN 1 ELSE 0
      /\ loads' \subseteq LoadRecords /\ IsFiniteSet(loads')
  BY <1>1, <1>2, LoadEnds
<1>4. PageTypeOK'
  BY <1>1, <1>2, <1>3 DEF PageTypeOK, userVars
<1>5. Remembered' \subseteq Remembered
  BY <1>1 DEF Remembered, userVars
<1>6. ExportIsTrue'
  BY <1>1 DEF ViewInv, ExportIsTrue, userVars
<1>7. QED
  BY <1>1, <1>4, <1>5, <1>6, PageStep DEF streamVars

-----------------------------------------------------------------------------
(* The user.                                                               *)

\* The button.
LEMMA ToggleInv == ASSUME ViewInv, Toggle PROVE ViewInv'
<1>1. /\ Act /\ toggles' = toggles + 1 /\ paused' = ~paused
      /\ IF paused THEN Schedule(FALSE, pending) ELSE UNCHANGED <<pending, timers>>
      /\ UNCHANGED <<indexVars, streamVars, busy, refresh, listing, screenVars, selected, checked,
                     export, clicks>>
  BY DEF Toggle
<1>2. PageTypeOK /\ TypeOK
  BY DEF ViewInv, TypeOK
<1>3. toggles' \in 0..MaxSteps
  BY <1>1, <1>2, ActBounds
<1>4. pending' \in BOOLEAN /\ timers' \in Nat
  <2>1. CASE paused
    <3>1. Schedule(FALSE, pending) /\ FALSE \in BOOLEAN /\ pending \in BOOLEAN
      BY <1>1, <1>2, <2>1 DEF PageTypeOK
    <3>2. QED
      BY <1>2, <3>1, Schedules
  <2>2. CASE ~paused
    BY <1>1, <1>2, <2>2 DEF PageTypeOK
  <2>3. QED
    BY <2>1, <2>2
<1>5. paused' \in BOOLEAN
  BY <1>1
<1>6. PageTypeOK'
  BY <1>1, <1>2, <1>3, <1>4, <1>5 DEF PageTypeOK, screenVars
<1>7. Remembered' = Remembered
  BY <1>1 DEF Remembered, screenVars
<1>8. ExportIsTrue'
  BY <1>1 DEF ViewInv, ExportIsTrue
<1>9. QED
  BY <1>1, <1>6, <1>7, <1>8, PageStep DEF streamVars

\* The user's calls are not those of a refresh.
LEMMA SelectSessionInv == ASSUME ViewInv, SelectSession PROVE ViewInv'
<1>1. /\ Act /\ clicks' = clicks + 1
      /\ UNCHANGED <<indexVars, streamVars, refreshVars, paused, toggles, list, table, late, failed,
                     failures>>
      /\ UNCHANGED <<checked, export>>
  BY DEF SelectSession, Click
<1>2. PICK s \in list : selected' = s /\ loads' = loads \cup {Load(clicks', s)}
  BY DEF SelectSession
<1>3. PageTypeOK /\ TypeOK /\ s \in Sessions
  BY DEF ViewInv, TypeOK, PageTypeOK
<1>4. clicks' \in 0..MaxSteps /\ clicks' \in Nat \ {0}
  BY <1>1, <1>3, ActBounds
<1>5. Load(clicks', s) \in LoadRecords /\ Load(clicks', s).by # 0 /\ Load(clicks', s).rows = {}
  BY <1>3, <1>4 DEF Load, LoadRecords
<1>6. Cardinality({l \in loads' : l.by = 0}) = IF refresh' = "requests" THEN 1 ELSE 0
  <2>1. {l \in loads' : l.by = 0} = {l \in loads : l.by = 0}
    BY <1>2, <1>5
  <2>2. refresh' = refresh
    BY <1>1 DEF refreshVars
  <2>3. QED
    BY <1>3, <2>1, <2>2 DEF PageTypeOK
<1>7. loads' \subseteq LoadRecords /\ IsFiniteSet(loads')
  BY <1>2, <1>3, <1>5, FS_AddElement DEF PageTypeOK
<1>8. PageTypeOK'
  BY <1>1, <1>2, <1>3, <1>4, <1>6, <1>7 DEF PageTypeOK, refreshVars
<1>9. Remembered' \subseteq Remembered
  BY <1>1, <1>2, <1>5 DEF Remembered
<1>10. ExportIsTrue'
  BY <1>1 DEF ViewInv, ExportIsTrue
<1>11. QED
  BY <1>1, <1>8, <1>9, <1>10, PageStep DEF streamVars

\* A box remembers the row of its line.
LEMMA CheckRowInv == ASSUME ViewInv, CheckRow PROVE ViewInv'
<1>1. /\ Act /\ clicks' = clicks + 1 /\ selected # None
      /\ UNCHANGED <<indexVars, streamVars, refreshVars, paused, toggles, list, table, late, failed,
                     failures>>
      /\ UNCHANGED <<selected, loads, export>>
  BY DEF CheckRow, Click
<1> DEFINE boxOf(x) == [session |-> selected, id |-> x.id, request |-> x.request,
                      live |-> x \in Rows(selected)]
<1>2. PICK r \in table.rows : checked' \subseteq checked \/ checked' = checked \cup {boxOf(r)}
  BY DEF CheckRow
<1>3. PICK box :
        /\ box = [session |-> selected, id |-> r.id, request |-> r.request, live |-> r \in Rows(selected)]
        /\ checked' \subseteq checked \/ checked' = checked \cup {box}
  BY <1>2
<1>4. PageTypeOK /\ TypeOK /\ selected \in Sessions /\ r \in RowRecords
  BY <1>1 DEF ViewInv, TypeOK, PageTypeOK
<1>5. clicks' \in 0..MaxSteps
  BY <1>1, <1>4, ActBounds
<1>6. box \in [session : Sessions, id : Nat, request : Nat, live : BOOLEAN]
  <2>1. r.id \in Nat /\ r.request \in Nat
    BY <1>4 DEF RowRecords
  <2>2. (r \in Rows(selected)) \in BOOLEAN
    OBVIOUS
  <2>3. QED
    BY <1>3, <1>4, <2>1, <2>2
<1>7. /\ checked' \subseteq [session : Sessions, id : Nat, request : Nat, live : BOOLEAN]
      /\ IsFiniteSet(checked')
  <2>1. CASE checked' \subseteq checked
    BY <1>4, <2>1, FS_Subset DEF PageTypeOK
  <2>2. CASE checked' = checked \cup {box}
    BY <1>4, <1>6, <2>2, FS_AddElement DEF PageTypeOK
  <2>3. QED
    BY <1>3, <2>1, <2>2
<1>8. PageTypeOK'
  BY <1>1, <1>4, <1>5, <1>7 DEF PageTypeOK, refreshVars
<1>9. ASSUME NEW m \in Remembered'
      PROVE  m \in Remembered \/ \E x \in AllRows \cup Remembered : m.id = x.id /\ m.request = x.request
  <2>1. m \in Remembered \/ m = box
    BY <1>1, <1>3 DEF Remembered
  <2>2. r \in Remembered /\ box.id = r.id /\ box.request = r.request
    BY <1>3 DEF Remembered
  <2>3. QED
    BY <2>1, <2>2
<1>10. ExportIsTrue'
  BY <1>1 DEF ViewInv, ExportIsTrue
<1>11. QED
  BY <1>1, <1>8, <1>9, <1>10, PageStep DEF streamVars

\* Every row that is found is the one of a box, and no two boxes find more than one:
\* as many records as boxes means a record for each.
LEMMA ArchiveIsTrue ==
  ASSUME ViewInv, NEW read \in SUBSET Found
  PROVE  LET a == Archive(read)
             asked == {c.request : c \in a.asked}
         IN  a.records \subseteq asked /\ (a.status = "complete" => a.records = asked)
<1> DEFINE hits(c, q) == c.session = q.session /\ c.id = q.id
           served == {c \in checked : \E q \in read : hits(c, q)}
           f == [c \in served |-> CHOOSE q \in read : hits(c, q)]
<1>1. ASSUME NEW c \in checked, NEW q \in read, hits(c, q) PROVE c.request = q.request
  <2>1. q \in AllRows /\ c \in Remembered
    BY DEF Found, Remembered
  <2>2. QED
    BY <1>1, <2>1 DEF ViewInv, MemoryIsTrue
<1>2. \A q \in read : \E c \in checked : hits(c, q)
  BY DEF Found
<1>3. \A q, x \in read, c \in checked : hits(c, q) /\ hits(c, x) => q = x
  BY DEF Found, ViewInv, UniqueIds
<1>4. f \in Surjection(served, read)
  <2>1. \A c \in served : f[c] \in read /\ hits(c, f[c])
    OBVIOUS
  <2>2. \A q \in read : \E c \in served : f[c] = q
    <3>1. TAKE q \in read
    <3>2. PICK c \in checked : hits(c, q)
      BY <1>2
    <3>3. c \in served
      BY <3>2
    <3>4. f[c] = q
      BY <1>3, <2>1, <3>2, <3>3
    <3>5. QED
      BY <3>3, <3>4
  <2>3. f \in [served -> read]
    BY <2>1
  <2> HIDE DEF f, served
  <2>4. QED
    BY <2>2, <2>3 DEF Surjection
<1>5. IsFiniteSet(checked) /\ IsFiniteSet(served) /\ served \subseteq checked
  BY FS_Subset DEF ViewInv, TypeOK, PageTypeOK
<1>6. /\ IsFiniteSet(read) /\ Cardinality(read) <= Cardinality(served)
      /\ Cardinality(served) <= Cardinality(checked)
      /\ Cardinality(served) = Cardinality(checked) => served = checked
      /\ Cardinality(read) \in Nat /\ Cardinality(served) \in Nat /\ Cardinality(checked) \in Nat
  <2> HIDE DEF f, served
  <2>1. QED
    BY <1>4, <1>5, FS_Surjection, FS_Subset, FS_CardinalityType
<1>7. ~(Cardinality(read) < Cardinality(checked)) => served = checked
  <2> HIDE DEF f, served
  <2>1. QED
    BY <1>6
<1>8. {q.request : q \in read} \subseteq {c.request : c \in checked}
  BY <1>1, <1>2
<1>9. served = checked => {c.request : c \in checked} \subseteq {q.request : q \in read}
  BY <1>1
<1>10. QED
  <2> HIDE DEF f, served
  <2>1. QED
    BY <1>7, <1>8, <1>9 DEF Archive

\* An export is what Archive says, or it is refused and holds nothing.
LEMMA ExportInv == ASSUME ViewInv, Export PROVE ViewInv'
<1>1. /\ Act /\ clicks' = clicks + 1
      /\ UNCHANGED <<indexVars, streamVars, refreshVars, paused, toggles, list, table, late, failed,
                     failures>>
      /\ UNCHANGED <<selected, checked, loads>>
  BY DEF Export, Click
<1>2. PageTypeOK /\ TypeOK
  BY DEF ViewInv, TypeOK
<1>3. clicks' \in 0..MaxSteps
  BY <1>1, <1>2, ActBounds
<1>4. PageTypeOK'
  BY <1>1, <1>2, <1>3 DEF PageTypeOK, refreshVars
<1>5. Remembered' = Remembered
  BY <1>1 DEF Remembered
<1>6. ExportIsTrue'
  <2>1. CASE export' = [asked |-> checked, records |-> {}, status |-> "refused"]
    BY <2>1 DEF ExportIsTrue
  <2>2. CASE \E read \in SUBSET Found : export' = Archive(read)
    BY <2>2, ArchiveIsTrue DEF ExportIsTrue
  <2>3. QED
    BY <2>1, <2>2 DEF Export
<1>7. QED
  BY <1>1, <1>4, <1>5, <1>6, PageStep DEF streamVars

-----------------------------------------------------------------------------
(* What is still to come when something changed, until the page settles.   *)

\* While no session was removed and indexed again, a rescan either removes a session,
\* or raises its epoch, or lets its rows grow.
LEMMA IndexMoves ==
  ASSUME ViewInv, Index, ~reborn'
  PROVE  /\ ~reborn /\ changes' = changes + 1
         /\ \A t \in Sessions : ids'[t] # None =>
              /\ ids[t] # None /\ epoch[t] <= epoch'[t]
              /\ epoch[t] = epoch'[t] =>
                   Len(file[t]) <= Len(file'[t]) /\ \A r \in Rows(t) : r \in Rows(t)'
         /\ \E s \in Sessions :
              /\ ids[s] # None
              /\ \/ ids'[s] = None
                 \/ epoch[s] < epoch'[s]
                 \/ epoch[s] = epoch'[s] /\ Len(file[s]) < Len(file'[s])
<1>1. PICK s \in Sessions : Grow(s) \/ Rebuild(s) \/ Drop(s) \/ IndexAgain(s)
  BY DEF Index
<1>2. IndexTypeOK
  BY DEF ViewInv, TypeOK
<1>3. changes' = changes + 1
  BY <1>1 DEF Grow, Rebuild, Drop, IndexAgain, Change
<1>4. /\ \A t \in Sessions : epoch[t] \in Nat /\ file[t] \in Seq(Nat) /\ Len(file[t]) \in Nat
      /\ ids \in [Sessions -> {None} \cup Seq(Nat)] /\ file \in [Sessions -> Seq(Nat)]
      /\ epoch \in [Sessions -> Nat]
  BY <1>2 DEF IndexTypeOK
<1>5. CASE Grow(s)
  <2>1. /\ ids[s] # None /\ UNCHANGED <<epoch, reborn>>
        /\ file' = [file EXCEPT ![s] = Append(file[s], Fresh)]
    BY <1>5 DEF Grow, Insert
  <2>2. PICK more : ids' = [ids EXCEPT ![s] = ids[s] \o more] /\ more \in Seq(Nat)
    <3> DEFINE n == Len(Append(file[s], Fresh)) - Len(ids[s])
               added == [i \in 1..n |-> lastId + i]
    <3>1. n = 1 /\ lastId \in Nat
      BY <1>2, <1>4, <2>1 DEF IndexTypeOK
    <3>2. added \in [1..1 -> Nat]
      <4> HIDE DEF n
      <4>1. QED
        BY <3>1
    <3>3. added \in Seq(Nat)
      <4> HIDE DEF added
      <4>1. QED
        BY <3>2, SeqDef
    <3>4. ids' = [ids EXCEPT ![s] = ids[s] \o added]
      BY <1>5 DEF Grow, Insert
    <3>5. QED
      BY <3>3, <3>4
  <2>3. ids[s] \in Seq(Nat) /\ Len(ids[s]) = Len(file[s])
    BY <1>2, <1>4, <2>1 DEF IndexTypeOK
  <2>4. /\ ids'[s] = ids[s] \o more /\ file'[s] = Append(file[s], Fresh)
        /\ \A t \in Sessions \ {s} : ids'[t] = ids[t] /\ file'[t] = file[t]
    BY <1>4, <2>1, <2>2
  <2>5. /\ Len(file'[s]) = Len(file[s]) + 1
        /\ \A i \in DOMAIN ids[s] : /\ i \in DOMAIN ids'[s] /\ ids'[s][i] = ids[s][i]
                                    /\ file'[s][i] = file[s][i]
    BY <1>4, <2>2, <2>3, <2>4
  <2>6. ids'[s] # None => \A r \in Rows(s) : r \in Rows(s)'
    <3>1. SUFFICES ASSUME ids'[s] # None, NEW i \in DOMAIN ids[s]
                   PROVE  [session |-> s, id |-> ids[s][i], request |-> file[s][i]] \in Rows(s)'
      BY <2>1 DEF Rows
    <3>2. QED
      BY <2>5, <3>1 DEF Rows
  <2>7. QED
    <3>1. \A t \in Sessions \ {s} : Rows(t)' = Rows(t)
      BY <2>4 DEF Rows
    <3>2. Len(file[s]) \in Nat /\ Len(file[s]) < Len(file'[s])
      BY <1>4, <2>5
    <3>3. ASSUME NEW t \in Sessions, ids'[t] # None
          PROVE  /\ ids[t] # None /\ epoch[t] <= epoch'[t]
                 /\ Len(file[t]) <= Len(file'[t]) /\ \A r \in Rows(t) : r \in Rows(t)'
      <4>1. CASE t = s
        BY <1>4, <2>1, <2>6, <3>2, <3>3, <4>1
      <4>2. CASE t # s
        BY <1>4, <2>1, <2>4, <3>1, <3>3, <4>2
      <4>3. QED
        BY <4>1, <4>2
    <3>4. QED
      BY <1>3, <2>1, <3>2, <3>3
<1>6. CASE Rebuild(s)
  <2>1. /\ ids[s] # None /\ UNCHANGED reborn /\ epoch' = [epoch EXCEPT ![s] = epoch[s] + 1]
        /\ \A t \in Sessions \ {s} : ids'[t] = ids[t] /\ file'[t] = file[t]
    BY <1>4, <1>6 DEF Rebuild, Insert
  <2>2. epoch'[s] = epoch[s] + 1 /\ \A t \in Sessions \ {s} : epoch'[t] = epoch[t]
    BY <1>4, <2>1
  <2>3. \A t \in Sessions \ {s} : Rows(t)' = Rows(t)
    BY <2>1 DEF Rows
  <2>4. QED
    BY <1>3, <1>4, <2>1, <2>2, <2>3
<1>7. CASE Drop(s)
  <2>1. /\ ids[s] # None /\ UNCHANGED <<file, reborn>> /\ ids' = [ids EXCEPT ![s] = None]
        /\ epoch' = [epoch EXCEPT ![s] = 0]
    BY <1>7 DEF Drop
  <2>2. ids'[s] = None /\ \A t \in Sessions \ {s} : ids'[t] = ids[t] /\ epoch'[t] = epoch[t]
    BY <1>4, <2>1
  <2>3. \A t \in Sessions \ {s} : Rows(t)' = Rows(t)
    BY <2>1, <2>2 DEF Rows
  <2>4. QED
    BY <1>3, <1>4, <2>1, <2>2, <2>3
<1>8. QED
  BY <1>1, <1>5, <1>6, <1>7 DEF IndexAgain

\* What the requests of the page leave alone.
LEMMA FetchLeaves ==
  ASSUME Fetch
  PROVE  /\ UNCHANGED <<indexVars, streamVars, server, queue, reconnects>>
         /\ UNCHANGED <<checked, paused, export, clicks, toggles>>
         /\ EndRefresh \/ UNCHANGED <<pending, busy, timers>>
<1>1. CASE ListSessions \/ ListRequests
  BY <1>1 DEF ListSessions, ListRequests, streamVars, userVars, refreshVars
<1>2. CASE SessionsLoaded \/ SessionsFail
  BY <1>2 DEF SessionsLoaded, SessionsFail, streamVars, userVars
<1>3. CASE RequestsLoaded \/ RequestsFail
  BY <1>3 DEF RequestsLoaded, RequestsFail, streamVars, userVars
<1>4. QED
  BY <1>1, <1>2, <1>3 DEF Fetch

\* What the pages and the user leave alone.
LEMMA PageLeaves ==
  ASSUME Page \/ User \/ UNCHANGED vars
  PROVE  UNCHANGED <<indexVars, server, reconnects>>
BY FetchLeaves
DEF Page, Event, Timer, User, Toggle, SelectSession, CheckRow, Export, Click, vars, indexVars,
    streamVars

\* What the stream leaves alone.
LEMMA StreamLeaves ==
  ASSUME Stream
  PROVE  UNCHANGED <<indexVars, refreshVars, userVars, screenVars>>
BY DEF Stream, Connect, Open, Greet, Tick, SendResets, ReadLatest, SendBatch, Disconnect, StreamStep

\* What a read of the revision gives.
LEMMA RevisionIs ==
  ASSUME IndexTypeOK
  PROVE  /\ Revision \in [Sessions -> {None} \cup (Nat \X Seq(Nat))]
         /\ \A s \in Sessions : ids[s] # None =>
              Revision[s] = <<epoch[s], file[s]>> /\ Revision[s] # None
<1>1. \A s \in Sessions : <<epoch[s], file[s]>> \in Nat \X Seq(Nat)
  BY DEF IndexTypeOK
<1>2. QED
  BY <1>1, ViewAssumption DEF Revision

\* The fields of the server's state after each of its steps.
LEMMA ServerSteps ==
  ASSUME StreamTypeOK
  PROVE  /\ Connect => /\ server'.stage = "opening" /\ server'.revision = Revision
                       /\ queue' = queue /\ server.stage = "closed" /\ reconnects' = reconnects
         /\ Open => /\ server'.stage = "greeting" /\ server'.revision = server.revision
                    /\ queue' = queue /\ server.stage = "opening" /\ reconnects' = reconnects
         /\ Greet => /\ server'.stage = "idle" /\ server'.revision = server.revision
                     /\ queue' = Append(queue, {}) /\ server.stage = "greeting"
                     /\ reconnects' = reconnects
         /\ Tick => /\ server'.stage = "resets" /\ server'.revision = Revision
                    /\ server'.epochs = server.epochs /\ queue' = queue /\ server.stage = "idle"
                    /\ server.revision # Revision /\ reconnects' = reconnects
         /\ SendResets => /\ server'.stage = "latest" /\ server'.revision = server.revision
                          /\ server'.epochs = epoch /\ server.stage = "resets"
                          /\ queue' \in {queue, Append(queue, Resets)}
                          /\ Resets # {} => queue' = Append(queue, Resets)
                          /\ reconnects' = reconnects
         /\ ReadLatest \/ SendBatch =>
              /\ server'.revision = server.revision /\ server'.epochs = server.epochs
              /\ server.stage \in {"latest", "batch"} /\ server'.stage \in {"idle", "batch"}
              /\ queue' \in {queue, Append(queue, {})}
              /\ server'.stage = "idle" => queue' = Append(queue, {})
              /\ reconnects' = reconnects
         /\ Disconnect => server'.stage = "closed" /\ queue' = <<>> /\ reconnects' = reconnects + 1
<1>1. DOMAIN server = {"stage", "revision", "lastId", "latest", "epochs", "told"}
  BY DEF StreamTypeOK, Closed
<1>2. Connect => /\ server'.stage = "opening" /\ server'.revision = Revision
                 /\ queue' = queue /\ server.stage = "closed" /\ reconnects' = reconnects
  BY DEF Connect, Closed, StreamStep
<1>3. Open => /\ server'.stage = "greeting" /\ server'.revision = server.revision
              /\ queue' = queue /\ server.stage = "opening" /\ reconnects' = reconnects
  BY <1>1 DEF Open, StreamStep
<1>9. Greet => /\ server'.stage = "idle" /\ server'.revision = server.revision
               /\ queue' = Append(queue, {}) /\ server.stage = "greeting"
               /\ reconnects' = reconnects
  BY <1>1 DEF Greet, Send, StreamStep
<1>4. Tick => /\ server'.stage = "resets" /\ server'.revision = Revision
              /\ server'.epochs = server.epochs /\ queue' = queue /\ server.stage = "idle"
              /\ server.revision # Revision /\ reconnects' = reconnects
  BY <1>1 DEF Tick, StreamStep
<1>5. SendResets => /\ server'.stage = "latest" /\ server'.revision = server.revision
                    /\ server'.epochs = epoch /\ server.stage = "resets"
                    /\ queue' \in {queue, Append(queue, Resets)}
                    /\ Resets # {} => queue' = Append(queue, Resets)
                    /\ reconnects' = reconnects
  BY <1>1 DEF SendResets, Send, StreamStep
<1>6. ASSUME ReadLatest \/ SendBatch
      PROVE  /\ server'.revision = server.revision /\ server'.epochs = server.epochs
             /\ server.stage \in {"latest", "batch"} /\ server'.stage \in {"idle", "batch"}
             /\ queue' \in {queue, Append(queue, {})}
             /\ server'.stage = "idle" => queue' = Append(queue, {})
             /\ reconnects' = reconnects
  <2>1. CASE ReadLatest
    BY <1>1, <2>1 DEF ReadLatest, Send, StreamStep
  <2>2. CASE SendBatch
    <3>1. PICK last : last = Max({r.id : r \in Items})
      OBVIOUS
    <3>2. /\ queue' = Append(queue, {}) /\ server.stage = "batch" /\ reconnects' = reconnects
          /\ \/ server' = [server EXCEPT !.lastId = last, !.told = @ \cup Items]
             \/ server' = [server EXCEPT !.stage = "idle", !.latest = 0]
      BY <2>2, <3>1 DEF SendBatch, Send, StreamStep
    <3>3. QED
      BY <1>1, <3>2
  <2>3. QED
    BY <1>6, <2>1, <2>2
<1>7. Disconnect => server'.stage = "closed" /\ queue' = <<>> /\ reconnects' = reconnects + 1
  BY DEF Disconnect, Closed
<1>8. QED
  BY <1>2, <1>3, <1>9, <1>4, <1>5, <1>6, <1>7

\* Events go to the end of the queue and are taken from its head.
LEMMA QueueSteps ==
  ASSUME ViewInv, RevisionInv, [Next]_vars
  PROVE  queue' \in Seq(SUBSET Sessions)
<1>1. StreamTypeOK /\ queue \in Seq(SUBSET Sessions)
  BY DEF ViewInv, TypeOK, RevisionInv
<1>2. CASE Stream
  <2>1. Resets \in SUBSET Sessions /\ {} \in SUBSET Sessions
    BY DEF Resets
  <2>2. queue' \in {queue, Append(queue, {}), Append(queue, Resets), <<>>}
    BY <1>1, <1>2, ServerSteps DEF Stream
  <2>3. /\ <<>> \in Seq(SUBSET Sessions)
        /\ \A x \in SUBSET Sessions : Append(queue, x) \in Seq(SUBSET Sessions)
    BY <1>1
  <2>4. Append(queue, {}) \in Seq(SUBSET Sessions) /\ Append(queue, Resets) \in Seq(SUBSET Sessions)
    BY <2>1, <2>3
  <2>5. QED
    BY <1>1, <2>2, <2>3, <2>4
<1>3. CASE Event
  BY <1>1, <1>3 DEF Event
<1>4. CASE Index \/ Timer \/ Fetch \/ User \/ UNCHANGED vars
  <2>1. queue' = queue
    BY <1>4, FetchLeaves
    DEF Index, Grow, Rebuild, Drop, IndexAgain, Change, Timer, User, Toggle, SelectSession, CheckRow,
        Export, Click, vars, streamVars
  <2>2. QED
    BY <1>1, <2>1
<1>5. QED
  BY <1>2, <1>3, <1>4 DEF Next, Page

\* The stream is never ahead of the index.
LEMMA RevisionStep ==
  ASSUME ViewInv, RevisionInv, [Next]_vars
  PROVE  RevisionInv'
<1>1. /\ IndexTypeOK /\ StreamTypeOK
      /\ server.stage # "closed" => server.revision \in [Sessions -> {None} \cup (Nat \X Seq(Nat))]
  BY DEF ViewInv, TypeOK, RevisionInv
<1>2. queue' \in Seq(SUBSET Sessions)
  BY QueueSteps
<1>3. CASE Index
  <2>1. server' = server
    BY <1>1, <1>3, IndexStep DEF ViewInv, streamVars
  <2>2. ASSUME server.stage # "closed", ~reborn', NEW s \in Sessions, ids'[s] # None
        PROVE  /\ server.revision[s] # None /\ server.revision[s][1] <= epoch'[s]
               /\ server.revision[s][1] = epoch'[s] => Len(server.revision[s][2]) <= Len(file'[s])
    <3>1. /\ ~reborn /\ ids[s] # None /\ epoch[s] <= epoch'[s]
          /\ epoch[s] = epoch'[s] => Len(file[s]) <= Len(file'[s])
      BY <1>3, <2>2, IndexMoves
    <3>2. /\ server.revision[s] # None /\ server.revision[s][1] <= epoch[s]
          /\ server.revision[s][1] = epoch[s] => Len(server.revision[s][2]) <= Len(file[s])
      BY <2>2, <3>1 DEF RevisionInv
    <3>3. server.revision[s] \in Nat \X Seq(Nat)
      BY <1>1, <2>2, <3>2
    <3>4. /\ server.revision[s][1] \in Nat /\ server.revision[s][2] \in Seq(Nat)
          /\ epoch[s] \in Nat /\ epoch'[s] \in Nat /\ file[s] \in Seq(Nat) /\ file'[s] \in Seq(Nat)
      BY <1>1, <1>3, <3>3, IndexStep DEF IndexTypeOK, ViewInv
    <3>5. /\ Len(server.revision[s][2]) \in Nat /\ Len(file[s]) \in Nat /\ Len(file'[s]) \in Nat
      BY <3>4, LenProperties
    <3>6. PICK e \in Nat, f \in Nat : e = server.revision[s][1] /\ f = Len(server.revision[s][2])
      BY <3>4, <3>5
    <3>7. e <= epoch'[s] /\ (e = epoch'[s] => f <= Len(file'[s]))
      BY <3>1, <3>2, <3>4, <3>5, <3>6
    <3>8. QED
      BY <3>2, <3>6, <3>7
  <2>3. server'.stage # "closed" /\ ~reborn' => \A s \in Sessions : ids'[s] # None =>
           /\ server'.revision[s] # None /\ server'.revision[s][1] <= epoch'[s]
           /\ server'.revision[s][1] = epoch'[s] => Len(server'.revision[s][2]) <= Len(file'[s])
    BY <2>1, <2>2
  <2>4. QED
    BY <1>1, <1>2, <2>1, <2>3 DEF RevisionInv
<1>4. CASE Stream
  <2>1. file' = file /\ ids' = ids /\ epoch' = epoch /\ reborn' = reborn
    BY <1>4, StreamLeaves DEF indexVars
  <2>2. /\ Revision \in [Sessions -> {None} \cup (Nat \X Seq(Nat))]
        /\ \A s \in Sessions : ids[s] # None =>
             /\ Revision[s] # None /\ Revision[s][1] <= epoch[s]
             /\ Revision[s][1] = epoch[s] => Len(Revision[s][2]) <= Len(file[s])
    <3>1. \A s \in Sessions : epoch[s] \in Nat /\ Len(file[s]) \in Nat
      BY <1>1 DEF IndexTypeOK
    <3>2. QED
      BY <1>1, <3>1, RevisionIs
  <2>3. \/ server'.stage = "closed"
        \/ server'.revision = Revision
        \/ server.stage # "closed" /\ server'.revision = server.revision
    BY <1>1, <1>4, ServerSteps DEF Stream
  <2>4. CASE server'.stage = "closed"
    BY <1>2, <2>4 DEF RevisionInv
  <2>5. CASE server'.revision = Revision
    <3>1. \A s \in Sessions : ids'[s] # None =>
             /\ server'.revision[s] # None /\ server'.revision[s][1] <= epoch'[s]
             /\ server'.revision[s][1] = epoch'[s] => Len(server'.revision[s][2]) <= Len(file'[s])
      BY <2>1, <2>2, <2>5
    <3>2. QED
      BY <1>2, <2>2, <2>5, <3>1 DEF RevisionInv
  <2>6. CASE server.stage # "closed" /\ server'.revision = server.revision
    <3>1. ~reborn => \A s \in Sessions : ids'[s] # None =>
             /\ server'.revision[s] # None /\ server'.revision[s][1] <= epoch'[s]
             /\ server'.revision[s][1] = epoch'[s] => Len(server'.revision[s][2]) <= Len(file'[s])
      BY <2>1, <2>6 DEF RevisionInv
    <3>2. QED
      BY <1>1, <1>2, <2>1, <2>6, <3>1 DEF RevisionInv
  <2>7. QED
    BY <2>3, <2>4, <2>5, <2>6
<1>5. CASE Page \/ User \/ UNCHANGED vars
  <2>1. file' = file /\ ids' = ids /\ epoch' = epoch /\ reborn' = reborn /\ server' = server
    BY <1>5, PageLeaves DEF indexVars
  <2>2. QED
    BY <1>1, <1>2, <2>1 DEF RevisionInv
<1>6. QED
  BY <1>3, <1>4, <1>5 DEF Next

\* A box is there with its row, or with the reset that will clear it.
LEMMA BoxStep ==
  ASSUME ViewInv, RevisionInv, BoxInv, RevisionInv', [Next]_vars
  PROVE  BoxInv'
<1> SUFFICES ASSUME reconnects' = 0, ~reborn' PROVE BoxInv'
  BY DEF BoxInv
<1> DEFINE Safe(c) == \/ \E r \in Rows(c.session) : r.id = c.id
                      \/ server.epochs[c.session] < epoch[c.session]
                      \/ \E i \in 1..Len(queue) : c.session \in queue[i]
           Level(s) == /\ server.epochs[s] <= epoch[s]
                       /\ server.stage # "resets" => server.revision[s][1] <= server.epochs[s]
<1>1. /\ IndexTypeOK /\ StreamTypeOK /\ PageTypeOK /\ queue \in Seq(SUBSET Sessions)
      /\ reconnects \in Nat /\ \A s \in Sessions : epoch[s] \in Nat
      /\ \A c \in checked : c.session \in Sessions
  <2>1. IndexTypeOK /\ StreamTypeOK /\ PageTypeOK /\ queue \in Seq(SUBSET Sessions)
    BY DEF ViewInv, TypeOK, RevisionInv
  <2>2. reconnects \in Nat
    BY <2>1, ViewAssumption DEF StreamTypeOK
  <2>3. \A s \in Sessions : epoch[s] \in Nat
    BY <2>1 DEF IndexTypeOK
  <2>4. \A c \in checked : c.session \in Sessions
    BY <2>1 DEF PageTypeOK
  <2>5. QED
    BY <2>1, <2>2, <2>3, <2>4
<1>2. SUFFICES ASSUME reconnects = 0, ~reborn
               PROVE  /\ Connected' /\ server'.epochs \in [Sessions -> Nat]
                      /\ \A s \in Sessions : ids'[s] # None => Level(s)'
                      /\ \A c \in checked' : c.live /\ ids'[c.session] # None => Safe(c)'
  <2>1. reconnects = 0
    <3>1. CASE Stream
      BY <1>1, <3>1, ServerSteps DEF Stream
    <3>2. CASE Index
      BY <1>1, <3>2, IndexStep DEF ViewInv, streamVars
    <3>3. CASE Page \/ User \/ UNCHANGED vars
      BY <3>3, PageLeaves
    <3>4. QED
      BY <3>1, <3>2, <3>3 DEF Next
  <2>2. ~reborn
    <3>1. CASE Stream
      BY <3>1, StreamLeaves DEF indexVars
    <3>2. CASE Index
      BY <3>2, IndexMoves
    <3>3. CASE Page \/ User \/ UNCHANGED vars
      BY <3>3, PageLeaves DEF indexVars
    <3>4. QED
      BY <3>1, <3>2, <3>3 DEF Next
  <2>3. QED
    BY <2>1, <2>2, <1>2 DEF BoxInv
<1>3. /\ Connected /\ server.epochs \in [Sessions -> Nat]
      /\ \A s \in Sessions : ids[s] # None => Level(s)
      /\ \A c \in checked : c.live /\ ids[c.session] # None => Safe(c)
  BY <1>2 DEF BoxInv
<1>4. CASE Index
  <2>1. server' = server /\ queue' = queue /\ checked' = checked
    BY <1>1, <1>4, IndexStep DEF ViewInv, streamVars, userVars
  <2>2. \A s \in Sessions : epoch'[s] \in Nat
    BY <1>1, <1>4, IndexStep DEF ViewInv, IndexTypeOK
  <2>3. ASSUME NEW s \in Sessions, ids'[s] # None
        PROVE  /\ ids[s] # None /\ epoch[s] <= epoch'[s]
               /\ epoch[s] = epoch'[s] => \A r \in Rows(s) : r \in Rows(s)'
    BY <1>4, <2>3, IndexMoves
  <2>4. ASSUME NEW s \in Sessions, ids'[s] # None PROVE Level(s)'
    BY <1>1, <1>3, <2>1, <2>2, <2>3, <2>4
  <2>5. ASSUME NEW c \in checked, c.live, ids'[c.session] # None PROVE Safe(c)'
    <3>1. c.session \in Sessions
      BY <1>1
    <3>2. PICK s \in Sessions : s = c.session
      BY <3>1
    <3>3. /\ ids[s] # None /\ epoch[s] <= epoch'[s]
          /\ epoch[s] = epoch'[s] => \A r \in Rows(s) : r \in Rows(s)'
      BY <2>3, <2>5, <3>2
    <3>4. /\ server.epochs[s] \in Nat /\ epoch[s] \in Nat /\ epoch'[s] \in Nat
          /\ server.epochs[s] <= epoch[s]
      BY <1>1, <1>3, <2>2, <3>3
    <3>5. CASE epoch[s] # epoch'[s]
      BY <2>1, <3>2, <3>3, <3>4, <3>5
    <3>6. CASE epoch[s] = epoch'[s]
      <4>1. Safe(c)
        BY <1>3, <2>5, <3>2, <3>3
      <4>2. CASE \E r \in Rows(s) : r.id = c.id
        BY <3>2, <3>3, <3>6, <4>2
      <4>3. CASE server.epochs[s] < epoch[s] \/ \E i \in 1..Len(queue) : s \in queue[i]
        BY <2>1, <3>2, <3>6, <4>3
      <4>4. QED
        BY <3>2, <4>1, <4>2, <4>3
    <3>7. QED
      BY <3>5, <3>6
  <2>6. QED
    BY <1>3, <2>1, <2>4, <2>5 DEF Connected
<1>5. CASE Stream
  <2>1. /\ file' = file /\ ids' = ids /\ epoch' = epoch /\ reborn' = reborn /\ checked' = checked
        /\ \A s \in Sessions : Rows(s)' = Rows(s)
    BY <1>5, StreamLeaves, SameIndex DEF indexVars, userVars
  <2>2. Tick \/ SendResets \/ ReadLatest \/ SendBatch
    BY <1>1, <1>2, <1>3, <1>5, ServerSteps DEF Stream, Connected
  <2>3. \A s \in Sessions : server.epochs[s] \in Nat
    BY <1>3
  <2>4. CASE SendResets
    <3>1. /\ server'.stage = "latest" /\ server'.revision = server.revision /\ server'.epochs = epoch
          /\ queue' \in {queue, Append(queue, Resets)}
          /\ Resets # {} => queue' = Append(queue, Resets)
      BY <1>1, <2>4, ServerSteps
    <3>2. epoch \in [Sessions -> Nat]
      BY <1>1 DEF IndexTypeOK
    <3>3. ASSUME NEW s \in Sessions, ids[s] # None PROVE Level(s)'
      <4>1. server.revision[s][1] <= epoch[s]
        BY <1>2, <1>3, <3>3 DEF RevisionInv, Connected
      <4>2. QED
        BY <1>1, <2>1, <3>1, <4>1
    <3>4. ASSUME NEW c \in checked, c.live, ids[c.session] # None PROVE Safe(c)'
      <4>1. PICK s \in Sessions : s = c.session
        BY <1>1, <3>4
      <4>2. \A i \in 1..Len(queue) : i \in 1..Len(queue') /\ queue'[i] = queue[i]
        BY <1>1, <3>1
      <4>3. CASE \E r \in Rows(s) : r.id = c.id
        BY <2>1, <4>1, <4>3
      <4>4. CASE \E i \in 1..Len(queue) : s \in queue[i]
        BY <4>1, <4>2, <4>4
      <4>5. CASE server.epochs[s] < epoch[s]
        <5>1. s \in Resets
          BY <1>1, <2>3, <4>5 DEF Resets
        <5>2. queue' = Append(queue, Resets)
          BY <3>1, <5>1
        <5>3. Len(queue) + 1 \in 1..Len(queue') /\ queue'[Len(queue) + 1] = Resets
          BY <1>1, <5>2
        <5>4. QED
          BY <4>1, <5>1, <5>3
      <4>6. QED
        BY <1>3, <3>4, <4>1, <4>3, <4>4, <4>5
    <3>5. QED
      BY <2>1, <3>1, <3>2, <3>3, <3>4 DEF Connected
  <2>5. CASE Tick \/ ReadLatest \/ SendBatch
    <3>1. /\ server'.epochs = server.epochs /\ server'.stage \in {"resets", "idle", "batch"}
          /\ server'.stage # "resets" => /\ server'.revision = server.revision
                                         /\ server.stage # "resets"
          /\ queue' \in {queue, Append(queue, {})}
      BY <1>1, <2>5, ServerSteps
    <3>2. ASSUME NEW s \in Sessions, ids[s] # None PROVE Level(s)'
      BY <1>3, <2>1, <3>1, <3>2
    <3>3. ASSUME NEW c \in checked, c.live, ids[c.session] # None PROVE Safe(c)'
      <4>1. PICK s \in Sessions : s = c.session
        BY <1>1, <3>3
      <4>2. \A i \in 1..Len(queue) : i \in 1..Len(queue') /\ queue'[i] = queue[i]
        BY <1>1, <3>1
      <4>3. QED
        BY <1>3, <2>1, <3>1, <3>3, <4>1, <4>2
    <3>4. QED
      BY <1>3, <2>1, <3>1, <3>2, <3>3 DEF Connected
  <2>6. QED
    BY <2>2, <2>4, <2>5
<1>6. CASE Page \/ User \/ UNCHANGED vars
  <2>1. /\ ids' = ids /\ epoch' = epoch /\ server' = server
        /\ \A s \in Sessions : Rows(s)' = Rows(s)
    BY <1>6, PageLeaves, SameIndex DEF indexVars
  <2>2. Connected' /\ server'.epochs \in [Sessions -> Nat]
        /\ \A s \in Sessions : ids'[s] # None => Level(s)'
    BY <1>3, <2>1 DEF Connected
  <2>3. CASE Event
    <3>1. /\ queue # <<>> /\ queue' = Tail(queue)
          /\ checked' = {c \in checked : c.session \notin Head(queue)}
      BY <2>3 DEF Event
    <3>2. ASSUME NEW c \in checked, c.session \notin Head(queue), c.live, ids[c.session] # None
          PROVE  Safe(c)'
      <4>1. PICK s \in Sessions : s = c.session
        BY <1>1, <3>2
      <4>2. ASSUME NEW i \in 1..Len(queue), s \in queue[i]
            PROVE  i - 1 \in 1..Len(queue') /\ queue'[i - 1] = queue[i]
        <5>1. queue[1] = Head(queue) /\ i # 1
          BY <1>1, <3>1, <3>2, <4>1, <4>2
        <5>2. QED
          BY <1>1, <3>1, <5>1
      <4>3. CASE \E i \in 1..Len(queue) : s \in queue[i]
        BY <4>1, <4>2, <4>3
      <4>4. CASE (\E r \in Rows(s) : r.id = c.id) \/ server.epochs[s] < epoch[s]
        BY <2>1, <4>1, <4>4
      <4>5. QED
        BY <1>3, <3>2, <4>1, <4>3, <4>4
    <3>3. QED
      BY <2>1, <2>2, <3>1, <3>2
  <2>4. CASE CheckRow
    <3>1. queue' = queue /\ selected # None
      BY <2>4 DEF CheckRow, Click, streamVars
    <3>2. PICK r \in table.rows :
            LET same == {c \in checked : c.session = selected /\ c.id = r.id}
                box == [session |-> selected, id |-> r.id, request |-> r.request,
                        live |-> r \in Rows(selected)]
            IN  checked' \in {checked \ same, IF same = {} THEN checked \cup {box} ELSE checked}
      BY <2>4 DEF CheckRow
    <3>3. PICK box : box = [session |-> selected, id |-> r.id, request |-> r.request,
                            live |-> r \in Rows(selected)]
      OBVIOUS
    <3>4. checked' \subseteq checked \cup {box}
      BY <3>2, <3>3
    <3>5. ASSUME NEW c \in checked, c.live, ids[c.session] # None PROVE Safe(c)'
      BY <1>1, <1>3, <2>1, <3>1, <3>5
    <3>6. ASSUME box.live PROVE Safe(box)'
      <4>1. selected \in Sessions
        BY <1>1, <3>1 DEF PageTypeOK
      <4>2. r \in Rows(selected) /\ box.session = selected /\ box.id = r.id
        BY <3>3, <3>6
      <4>3. \E q \in Rows(box.session)' : q.id = box.id
        BY <2>1, <4>1, <4>2
      <4>4. QED
        BY <4>3
    <3>7. QED
      BY <2>1, <2>2, <3>4, <3>5, <3>6
  <2>5. CASE Timer \/ Fetch \/ Toggle \/ SelectSession \/ Export \/ UNCHANGED vars
    <3>1. queue' = queue /\ checked' = checked
      BY <2>5, FetchLeaves
      DEF Timer, Toggle, SelectSession, Export, Click, vars, streamVars, userVars
    <3>2. ASSUME NEW c \in checked, c.live, ids[c.session] # None PROVE Safe(c)'
      BY <1>1, <1>3, <2>1, <3>1, <3>2
    <3>3. QED
      BY <2>1, <2>2, <3>1, <3>2
  <2>6. QED
    BY <1>6, <2>3, <2>4, <2>5 DEF Page, User
<1>7. QED
  BY <1>4, <1>5, <1>6 DEF Next

\* A later moment.
LEMMA LaterIs ==
  ASSUME NEW a \in Nat, NEW b \in Nat
  PROVE  Max({a, b}) \in {a, b} /\ Max({a, b}) >= a /\ Max({a, b}) >= b
<1>1. {a, b} \in SUBSET Nat /\ {a, b} # {} /\ a + b \in Nat /\ \A x \in {a, b} : x <= a + b
  OBVIOUS
<1>2. QED
  BY <1>1, MaxIsMember

\* What an answer holds is told by the number of changes it was read after.
LEMMA AnswersStep ==
  ASSUME ViewInv, AnswersInv, [Next]_vars
  PROVE  AnswersInv'
<1>1. /\ changes \in Nat /\ table.at \in Nat /\ \A l \in loads : l.at \in Nat
  BY ViewAssumption DEF ViewInv, TypeOK, IndexTypeOK, PageTypeOK, LoadRecords
<1>2. CASE Index
  <2>1. changes' = changes + 1
    BY <1>2 DEF Index, Grow, Rebuild, Drop, IndexAgain, Change
  <2>2. table' = table /\ loads' = loads
    BY <1>2, IndexStep DEF ViewInv, TypeOK, screenVars
  <2>3. QED
    BY <1>1, <2>1, <2>2 DEF AnswersInv
<1>3. CASE Stream \/ Page \/ User \/ UNCHANGED vars
  <2>1. changes' = changes /\ \A s \in Sessions : Rows(s)' = Rows(s)
    BY <1>3, StreamLeaves, PageLeaves, SameIndex DEF indexVars
  <2>2. \A l \in loads : l.session \in Sessions
    BY DEF ViewInv, TypeOK, PageTypeOK, LoadRecords
  <2>3. ASSUME NEW l \in loads, l.answered
        PROVE  l.at <= changes' /\ (l.at = changes' => l.rows = Rows(l.session)')
    BY <2>1, <2>2, <2>3 DEF AnswersInv
  <2>4. CASE ListRequests
    <3>1. PICK l \in loads :
            loads' = (loads \ {l}) \cup
                     {[l EXCEPT !.answered = TRUE, !.rows = Rows(l.session), !.at = changes]}
      BY <2>4 DEF ListRequests
    <3>2. PICK a : a = [l EXCEPT !.answered = TRUE, !.rows = Rows(l.session), !.at = changes]
      OBVIOUS
    <3>3. l \in LoadRecords
      BY DEF ViewInv, TypeOK, PageTypeOK
    <3>4. a.at = changes /\ a.rows = Rows(l.session) /\ a.session = l.session
      BY <3>2, <3>3 DEF LoadRecords
    <3>5. table' = table /\ loads' \subseteq loads \cup {a}
      BY <2>4, <3>1, <3>2 DEF ListRequests
    <3>6. a.at <= changes' /\ a.rows = Rows(a.session)'
      BY <1>1, <2>1, <2>2, <3>4
    <3>7. QED
      BY <2>1, <2>3, <3>5, <3>6 DEF AnswersInv
  <2>5. CASE RequestsLoaded
    <3>1. PICK l \in loads :
            /\ l.answered /\ loads' = loads \ {l}
            /\ table' = [rows |-> IF selected = None THEN {} ELSE l.rows, at |-> Max({l.at, table.at})]
      BY <2>5 DEF RequestsLoaded
    <3>2. table'.at \in {l.at, table.at}
      <4>1. Max({l.at, table.at}) \in {l.at, table.at}
        BY <1>1, <3>1, LaterIs
      <4>2. QED
        BY <3>1, <4>1
    <3>3. table'.at <= changes'
      BY <2>1, <3>1, <3>2 DEF AnswersInv
    <3>4. QED
      BY <2>3, <3>1, <3>3 DEF AnswersInv
  <2>6. CASE SessionsLoaded \/ SessionsFail \/ RequestsFail
    <3>1. table' = table /\ loads' \subseteq loads \cup {Load(0, selected)}
      BY <2>6 DEF SessionsLoaded, SessionsFail, RequestsFail
    <3>2. ~Load(0, selected).answered
      BY DEF Load
    <3>3. QED
      BY <2>1, <2>3, <3>1, <3>2 DEF AnswersInv
  <2>7. CASE SelectSession
    <3>1. PICK s \in list : loads' = loads \cup {Load(clicks', s)}
      BY <2>7 DEF SelectSession
    <3>2. table' = table /\ ~Load(clicks', s).answered
      BY <2>7 DEF SelectSession, Click, Load
    <3>3. QED
      BY <2>1, <2>3, <3>1, <3>2 DEF AnswersInv
  <2>8. CASE Stream \/ Event \/ Timer \/ ListSessions \/ Toggle \/ CheckRow \/ Export \/ UNCHANGED vars
    <3>1. table' = table /\ loads' = loads
      BY <2>8, StreamLeaves
      DEF Event, Timer, ListSessions, Toggle, CheckRow, Export, Click, vars, screenVars
    <3>2. QED
      BY <2>1, <2>3, <3>1 DEF AnswersInv
  <2>9. QED
    BY <1>3, <2>4, <2>5, <2>6, <2>7, <2>8 DEF Page, Fetch, User
<1>4. QED
  BY <1>2, <1>3 DEF Next

\* A change of the index is something the stream has to tell.
LEMMA IndexIsNews ==
  ASSUME ViewInv, RevisionInv, Index, ~reborn'
  PROVE  ~StreamQuiet'
<1> SUFFICES ASSUME StreamQuiet' PROVE FALSE
  OBVIOUS
<1>1. server' = server /\ IndexTypeOK /\ IndexTypeOK'
  BY IndexStep DEF ViewInv, TypeOK, streamVars
<1>2. server.stage = "idle" /\ server.revision = Revision'
  BY <1>1 DEF StreamQuiet
<1>3. ~reborn
  BY IndexMoves
<1>4. PICK s \in Sessions :
        /\ ids[s] # None
        /\ \/ ids'[s] = None
           \/ epoch[s] < epoch'[s]
           \/ epoch[s] = epoch'[s] /\ Len(file[s]) < Len(file'[s])
  BY IndexMoves
<1>5. /\ server.revision[s] # None /\ server.revision[s][1] <= epoch[s]
      /\ server.revision[s][1] = epoch[s] => Len(server.revision[s][2]) <= Len(file[s])
  BY <1>2, <1>3, <1>4 DEF RevisionInv
<1>6. Revision'[s] = IF ids'[s] = None THEN None ELSE <<epoch'[s], file'[s]>>
  BY DEF Revision
<1>7. server.revision[s] = <<epoch'[s], file'[s]>> /\ ids'[s] # None
  BY <1>2, <1>5, <1>6
<1>8. /\ epoch[s] \in Nat /\ epoch'[s] \in Nat /\ Len(file[s]) \in Nat /\ Len(file'[s]) \in Nat
  BY <1>1 DEF IndexTypeOK
<1>9. epoch'[s] <= epoch[s] /\ (epoch'[s] = epoch[s] => Len(file'[s]) <= Len(file[s]))
  BY <1>5, <1>7
<1>10. QED
  BY <1>4, <1>7, <1>8, <1>9

\* Every step of the stream leaves it something to tell or to do.
LEMMA StreamTalks ==
  ASSUME ViewInv, RevisionInv, Stream
  PROVE  ~StreamQuiet'
<1>1. StreamTypeOK /\ queue \in Seq(SUBSET Sessions)
  BY DEF ViewInv, TypeOK, RevisionInv
<1>2. server'.stage # "idle" \/ queue' = Append(queue, {})
  BY <1>1, ServerSteps DEF Stream
<1>3. Append(queue, {}) # <<>>
  BY <1>1
<1>4. QED
  BY <1>2, <1>3 DEF StreamQuiet

\* The end of a refresh starts a timer exactly when a refresh was asked for meanwhile.
LEMMA EndRefreshFlags ==
  ASSUME timers \in Nat, ~paused, EndRefresh
  PROVE  /\ refresh' = "none" /\ ~busy'
         /\ pending => timers' > 0
         /\ ~pending => ~pending' /\ timers' = timers
<1>1. refresh' = "none" /\ ~busy'
  BY DEF EndRefresh
<1>2. CASE pending
  <2>1. timers' = timers + 1
    BY <1>2 DEF EndRefresh, Schedule
  <2>2. timers' > 0
    BY <2>1
  <2>3. QED
    BY <1>1, <1>2, <2>2
<1>3. CASE ~pending
  <2>1. pending' = pending /\ timers' = timers
    BY <1>3 DEF EndRefresh
  <2>2. QED
    BY <1>1, <1>3, <2>1
<1>4. QED
  BY <1>2, <1>3

\* The paused page is excluded, and a flag has a timer or a running refresh.
LEMMA FlagStep ==
  ASSUME ViewInv, FreshInv, [Next]_vars, toggles' = 0
  PROVE  /\ toggles = 0 /\ ~paused /\ (pending => RefreshDue)
         /\ ~paused' /\ (pending' => RefreshDue')
<1>1. timers \in Nat /\ toggles \in Nat
  <2>1. timers \in Nat /\ toggles \in 0..MaxSteps
    BY DEF ViewInv, TypeOK, PageTypeOK
  <2>2. QED
    BY <2>1, ViewAssumption
<1>2. ~Toggle
  <2>1. toggles' # toggles + 1
    BY <1>1
  <2>2. QED
    BY <2>1 DEF Toggle
<1>3. toggles = 0 /\ paused' = paused
  <2>1. CASE Index
    BY <2>1, IndexStep DEF ViewInv, TypeOK, userVars
  <2>2. CASE Stream
    BY <2>2, StreamLeaves DEF userVars
  <2>3. CASE Page \/ User \/ UNCHANGED vars
    BY <1>2, <2>3, FetchLeaves
    DEF Page, Event, Timer, User, SelectSession, CheckRow, Export, Click, vars, userVars
  <2>4. QED
    BY <2>1, <2>2, <2>3 DEF Next
<1>4. ~paused /\ (pending => RefreshDue)
  BY <1>3 DEF FreshInv
<1>5. pending' => RefreshDue'
  <2>1. CASE Event
    <3>1. CASE pending
      <4>1. pending' = pending /\ timers' = timers /\ busy' = busy
        BY <2>1, <3>1 DEF Event, Schedule
      <4>2. QED
        BY <1>4, <4>1 DEF RefreshDue
    <3>2. CASE ~pending
      <4>1. timers' = timers + 1
        BY <1>4, <2>1, <3>2 DEF Event, Schedule
      <4>2. timers' > 0
        BY <1>1, <4>1
      <4>3. QED
        BY <4>2 DEF RefreshDue
    <3>3. QED
      BY <3>1, <3>2
  <2>2. CASE Timer
    <3>1. CASE busy
      <4>1. busy'
        BY <1>4, <2>2, <3>1 DEF Timer, Refresh
      <4>2. QED
        BY <4>1 DEF RefreshDue
    <3>2. CASE ~busy
      <4>1. ~pending'
        BY <1>4, <2>2, <3>2 DEF Timer, Refresh
      <4>2. QED
        BY <4>1
    <3>3. QED
      BY <3>1, <3>2
  <2>3. CASE Fetch
    <3>1. EndRefresh \/ UNCHANGED <<pending, busy, timers>>
      BY <2>3, FetchLeaves
    <3>2. CASE EndRefresh
      BY <1>1, <1>4, <3>2, EndRefreshFlags DEF RefreshDue
    <3>3. CASE UNCHANGED <<pending, busy, timers>>
      BY <1>4, <3>3 DEF RefreshDue
    <3>4. QED
      BY <3>1, <3>2, <3>3
  <2>4. CASE Index \/ Stream \/ SelectSession \/ CheckRow \/ Export \/ UNCHANGED vars
    <3>1. UNCHANGED <<pending, busy, timers>>
      BY <2>4, IndexStep, StreamLeaves
      DEF SelectSession, CheckRow, Export, Click, vars, refreshVars, ViewInv, TypeOK
    <3>2. QED
      BY <1>4, <3>1 DEF RefreshDue
  <2>5. QED
    BY <1>2, <2>1, <2>2, <2>3, <2>4 DEF Next, Page, User
<1>6. QED
  BY <1>3, <1>4, <1>5

\* When nothing is to come, what was read is what there is.
LEMMA FreshStep ==
  ASSUME ViewInv, ViewInv', RevisionInv, AnswersInv, FreshInv, [Next]_vars
  PROVE  FreshInv'
<1> SUFFICES ASSUME toggles' = 0 PROVE FreshInv'
  BY DEF FreshInv
<1> DEFINE Shown == table.at = changes /\ (late \/ table.rows = Rows(selected))
           ListHolds == /\ refresh = "listed" => \A s \in listing : ids[s] # None
                        /\ \A l \in loads : l.by = 0 /\ l.answered => l.at = changes
           RowsHold == refresh \in {"requests", "none"} =>
             /\ "sessions" \in failed \/ \A s \in list \cup ({selected} \ {None}) : ids[s] # None
             /\ selected = None \/ Loading(selected) \/ "requests" \in failed \/ Shown
<1>1. /\ toggles = 0 /\ ~paused /\ (pending => RefreshDue)
      /\ ~paused' /\ (pending' => RefreshDue')
  BY FlagStep
<1>2. ~reborn /\ StreamQuiet /\ ~RefreshDue => ListHolds /\ RowsHold
  BY <1>1 DEF FreshInv
<1>3. SUFFICES ASSUME ~reborn', StreamQuiet', ~RefreshDue'
               PROVE  ListHolds' /\ RowsHold'
  BY <1>1 DEF FreshInv
<1>4. /\ PageTypeOK /\ IndexTypeOK /\ timers \in Nat
      /\ refresh \in {"none", "sessions", "listed", "requests"} /\ (busy <=> refresh # "none")
      /\ changes \in Nat /\ table.at \in Nat /\ table.at <= changes
      /\ \A l \in loads : /\ l \in LoadRecords /\ l.at \in Nat /\ l.session \in Sessions
                          /\ l.answered => l.at <= changes /\ (l.at = changes => l.rows = Rows(l.session))
  <2>1. PageTypeOK /\ IndexTypeOK
    BY DEF ViewInv, TypeOK
  <2>2. /\ timers \in Nat /\ refresh \in {"none", "sessions", "listed", "requests"}
        /\ (busy <=> refresh # "none")
    BY <2>1 DEF PageTypeOK
  <2>3. changes \in 0..MaxChanges /\ table.at \in Nat
    BY <2>1 DEF PageTypeOK, IndexTypeOK
  <2>4. changes \in Nat
    BY <2>3, ViewAssumption
  <2>5. \A l \in loads : l \in LoadRecords
    BY <2>1 DEF PageTypeOK
  <2>6. \A l \in loads : l.at \in Nat /\ l.session \in Sessions
    BY <2>5 DEF LoadRecords
  <2>7. QED
    BY <2>1, <2>2, <2>3, <2>4, <2>5, <2>6 DEF AnswersInv
<1>5. ~Index /\ ~Stream /\ ~Toggle
  <2>1. ~Index /\ ~Stream
    BY <1>3, IndexIsNews, StreamTalks
  <2>2. ~Toggle
    BY <1>1 DEF Toggle
  <2>3. QED
    BY <2>1, <2>2
<1>6. ~Event
  <2>1. SUFFICES ASSUME Event PROVE FALSE
    OBVIOUS
  <2>2. Schedule(FALSE, pending) /\ busy' = busy
    BY <1>1, <2>1 DEF Event, Schedule
  <2>3. QED
    BY <1>1, <1>3, <1>4, <2>2 DEF Schedule, RefreshDue
<1>7. /\ UNCHANGED <<indexVars, server, reconnects, queue>> /\ changes' = changes /\ ids' = ids
      /\ reborn' = reborn /\ \A s \in Sessions : Rows(s)' = Rows(s)
  <2>1. UNCHANGED <<indexVars, server, reconnects>>
    BY <1>5, PageLeaves DEF Next
  <2>2. queue' = queue
    BY <1>5, <1>6, FetchLeaves
    DEF Next, Page, Timer, User, SelectSession, CheckRow, Export, Click, vars, streamVars
  <2>3. QED
    BY <2>1, <2>2, SameIndex DEF indexVars
<1>8. ~reborn /\ StreamQuiet
  BY <1>3, <1>7 DEF StreamQuiet, Revision, indexVars
<1>9. CASE Timer
  <2>1. refresh' = "sessions" /\ ~busy /\ loads' = loads
    BY <1>1, <1>3, <1>4, <1>9 DEF Timer, Refresh, RefreshDue, screenVars
  <2>2. Own(loads') = {}
    BY <1>4, <2>1, OwnCalls
  <2>3. QED
    BY <2>1, <2>2 DEF Own
<1>10. ASSUME Fetch \/ SelectSession \/ CheckRow \/ Export \/ UNCHANGED vars
       PROVE  ~RefreshDue
  <2>1. EndRefresh \/ UNCHANGED <<pending, busy, timers>>
    BY <1>10, FetchLeaves DEF SelectSession, CheckRow, Export, Click, vars, refreshVars
  <2>2. QED
    BY <1>1, <1>3, <1>4, <2>1 DEF EndRefresh, Schedule, RefreshDue
<1>11. ASSUME Fetch \/ SelectSession \/ CheckRow \/ Export \/ UNCHANGED vars
       PROVE  ListHolds /\ RowsHold
  BY <1>2, <1>8, <1>10, <1>11
<1>12. CASE ListSessions
  <2>1. /\ refresh = "sessions" /\ refresh' = "listed" /\ loads' = loads
        /\ listing' = {s \in Sessions : ids[s] # None}
    BY <1>12 DEF ListSessions, screenVars
  <2>2. Own(loads') = {}
    BY <1>4, <2>1, OwnCalls
  <2>3. QED
    BY <1>7, <2>1, <2>2 DEF Own
<1>13. ASSUME NEW s \in Sessions, loads' = loads \cup {Load(0, s)}, refresh # "requests"
       PROVE  /\ \A l \in loads' : l.by = 0 /\ l.answered => l.at = changes'
              /\ selected' = s => Loading(selected)'
  <2>1. Own(loads) = {}
    BY <1>4, <1>13, OwnCalls
  <2>2. /\ Load(0, s) \in loads' /\ Load(0, s).session = s
        /\ ~Load(0, s).answered
    BY <1>13 DEF Load
  <2>3. \A l \in loads' : l.by = 0 /\ l.answered => l.at = changes'
    BY <1>13, <2>1, <2>2 DEF Own
  <2>4. selected' = s => Loading(selected)'
    BY <2>2 DEF Loading
  <2>5. QED
    BY <2>3, <2>4
<1>19. ASSUME loads' = loads, refresh # "requests"
       PROVE  \A l \in loads' : l.by = 0 /\ l.answered => l.at = changes'
  BY <1>4, <1>19, OwnCalls DEF Own
<1>20. CASE SessionsLoaded
  <2>1. /\ refresh = "listed" /\ list' = listing
        /\ selected' = (IF selected \in listing THEN selected ELSE None)
        /\ selected \in listing => refresh' = "requests" /\ loads' = loads \cup {Load(0, selected)}
        /\ selected \notin listing => refresh' = "none" /\ loads' = loads
    BY <1>20 DEF SessionsLoaded, EndRefresh
  <2>2. \A s \in listing : ids[s] # None
    BY <1>11, <1>20, <2>1 DEF Fetch
  <2>3. listing \subseteq Sessions
    BY <1>4 DEF PageTypeOK
  <2>4. \A s \in list' \cup ({selected'} \ {None}) : ids'[s] # None
    BY <1>7, <2>1, <2>2
  <2>5. CASE selected \in listing
    BY <1>13, <2>1, <2>3, <2>4, <2>5
  <2>6. CASE selected \notin listing
    BY <1>19, <2>1, <2>4, <2>6
  <2>7. QED
    BY <2>5, <2>6
<1>21. CASE SessionsFail
  <2>1. /\ refresh = "sessions" /\ selected' = selected /\ "sessions" \in failed'
        /\ selected # None => refresh' = "requests" /\ loads' = loads \cup {Load(0, selected)}
        /\ selected = None => refresh' = "none" /\ loads' = loads
    BY <1>21 DEF SessionsFail, Fail, EndRefresh, userVars
  <2>2. selected \in Sessions \cup {None}
    BY <1>4 DEF PageTypeOK
  <2>3. CASE selected # None
    BY <1>13, <2>1, <2>2, <2>3
  <2>4. CASE selected = None
    BY <1>19, <2>1, <2>4
  <2>5. QED
    BY <2>3, <2>4
<1>14. CASE ListRequests
  <2>1. PICK l \in loads :
          /\ ~l.answered
          /\ loads' = (loads \ {l}) \cup
                      {[l EXCEPT !.answered = TRUE, !.rows = Rows(l.session), !.at = changes]}
    BY <1>14 DEF ListRequests
  <2>2. UNCHANGED <<refreshVars, userVars, list, table, late, failed>>
    BY <1>14 DEF ListRequests
  <2>3. PICK a : a = [l EXCEPT !.answered = TRUE, !.rows = Rows(l.session), !.at = changes]
    OBVIOUS
  <2>4. a.at = changes /\ a.session = l.session
    BY <1>4, <2>1, <2>3 DEF LoadRecords
  <2>5. Loading(selected) => Loading(selected)'
    <3>1. SUFFICES ASSUME NEW k \in loads, k.session = selected, ~k.answered \/ k.at = changes
                   PROVE  \E m \in loads' : m.session = selected /\ (~m.answered \/ m.at = changes)
      BY <1>7, <2>2 DEF Loading, userVars
    <3>2. CASE k = l
      BY <2>1, <2>3, <2>4, <3>1, <3>2
    <3>3. CASE k # l
      BY <2>1, <3>1, <3>3
    <3>4. QED
      BY <3>2, <3>3
  <2>6. selected \in Sessions \cup {None}
    BY <1>4 DEF PageTypeOK
  <2>7. ListHolds /\ RowsHold
    BY <1>11, <1>14 DEF Fetch
  <2>8. ListHolds'
    BY <1>7, <2>1, <2>2, <2>3, <2>4, <2>7 DEF refreshVars
  <2>9. RowsHold'
    BY <1>7, <2>2, <2>5, <2>6, <2>7 DEF refreshVars, userVars
  <2>10. QED
    BY <2>8, <2>9
<1>15. CASE RequestsLoaded
  <2>1. PICK l \in loads :
          /\ l.answered /\ loads' = loads \ {l}
          /\ table' = [rows |-> IF selected = None THEN {} ELSE l.rows, at |-> Max({l.at, table.at})]
          /\ late' = (l.session # selected \/ l.at < table.at)
          /\ IF l.by = 0 THEN EndRefresh ELSE UNCHANGED <<pending, busy, timers, refresh>>
          /\ failed' = IF l.by = 0 THEN failed \ {"requests"} ELSE failed
          /\ UNCHANGED <<indexVars, streamVars, userVars, list, listing>>
    BY <1>15 DEF RequestsLoaded
  <2>2. ListHolds /\ RowsHold
    BY <1>11, <1>15 DEF Fetch
  <2>3. /\ l.by = 0 => refresh = "requests" /\ refresh' = "none"
        /\ l.by # 0 => refresh' = refresh
    <3>1. l.by = 0 => Own(loads) # {}
      BY DEF Own
    <3>2. QED
      BY <1>4, <2>1, <3>1, OwnCalls DEF EndRefresh
  <2>4. UNCHANGED <<selected, list, listing>>
    BY <2>1 DEF userVars
  <2>5. Rows(selected)' = Rows(selected)
    BY <1>7, <2>4 DEF Rows, indexVars
  <2>6. ListHolds'
    BY <1>7, <2>1, <2>2, <2>3, <2>4
  <2>7. ASSUME refresh' \in {"requests", "none"}, selected # None, "requests" \notin failed'
        PROVE  (Loading(selected) \/ Shown)'
    <3>1. Loading(selected) \/ Shown \/ l.at = changes
      BY <2>1, <2>2, <2>3, <2>7
    <3>2. table'.at = Max({l.at, table.at}) /\ table'.rows = l.rows
      BY <2>1, <2>7
    <3>3. table'.at \in {l.at, table.at} /\ table'.at >= l.at /\ table'.at >= table.at
      BY <1>4, <3>2, LaterIs
    <3>4. l.session \in Sessions /\ l.at <= changes /\ (l.at = changes => l.rows = Rows(l.session))
      BY <1>4, <2>1
    <3>5. CASE \E k \in loads \ {l} : k.session = selected /\ (~k.answered \/ k.at = changes)
      BY <1>7, <2>1, <2>4, <3>5 DEF Loading
    <3>6. CASE l.at = changes
      <4>1. table'.at = changes
        BY <1>4, <3>3, <3>6
      <4>2. late' \/ table'.rows = Rows(selected)'
        BY <2>1, <2>5, <3>2, <3>4, <3>6
      <4>3. QED
        BY <1>7, <2>4, <4>1, <4>2
    <3>7. CASE Shown
      <4>1. table'.at = changes
        BY <1>4, <3>3, <3>4, <3>7
      <4>2. ~late' => table'.rows = Rows(selected)'
        <5>1. SUFFICES ASSUME ~late' PROVE table'.rows = Rows(selected)'
          OBVIOUS
        <5>2. l.session = selected /\ ~(l.at < table.at)
          BY <2>1, <5>1, Zenon
        <5>3. l.at = changes
          BY <1>4, <3>4, <3>7, <5>2
        <5>4. QED
          BY <2>5, <3>2, <3>4, <5>2, <5>3
      <4>3. QED
        BY <1>7, <2>4, <4>1, <4>2
    <3>8. QED
      BY <2>1, <3>1, <3>5, <3>6, <3>7 DEF Loading
  <2>8. RowsHold'
    <3>1. "sessions" \in failed => "sessions" \in failed'
      BY <2>1
    <3>2. QED
      BY <1>7, <2>2, <2>3, <2>4, <2>7, <3>1
  <2>9. QED
    BY <2>6, <2>8
<1>22. CASE RequestsFail
  <2>1. PICK l \in loads :
          /\ loads' = loads \ {l}
          /\ failed' = failed \cup {"requests"}
          /\ IF l.by = 0 THEN EndRefresh ELSE UNCHANGED <<pending, busy, timers, refresh>>
          /\ UNCHANGED <<indexVars, streamVars, userVars, list, table, late, listing>>
    BY <1>22 DEF RequestsFail, Fail
  <2>2. ListHolds /\ RowsHold
    BY <1>11, <1>22 DEF Fetch
  <2>3. /\ l.by = 0 => refresh = "requests" /\ refresh' = "none"
        /\ l.by # 0 => refresh' = refresh
    <3>1. l.by = 0 => Own(loads) # {}
      BY DEF Own
    <3>2. QED
      BY <1>4, <2>1, <3>1, OwnCalls DEF EndRefresh
  <2>4. QED
    BY <1>7, <2>1, <2>2, <2>3 DEF userVars
<1>16. CASE SelectSession
  <2>1. PICK s \in list : selected' = s /\ loads' = loads \cup {Load(clicks', s)}
    BY <1>16 DEF SelectSession
  <2>2. UNCHANGED <<refreshVars, list, table, late, failed>>
    BY <1>16 DEF SelectSession, Click
  <2>3. Loading(selected)'
    <3>1. Load(clicks', s) \in loads' /\ Load(clicks', s).session = s /\ ~Load(clicks', s).answered
      BY <2>1 DEF Load
    <3>2. QED
      BY <2>1, <3>1 DEF Loading
  <2>4. ListHolds /\ RowsHold
    BY <1>11, <1>16
  <2>5. ListHolds'
    <3>1. Load(clicks', s).by # 0
      BY <1>4, <1>16 DEF Load, SelectSession, Click, PageTypeOK
    <3>2. QED
      BY <1>7, <2>1, <2>2, <2>4, <3>1 DEF refreshVars
  <2>6. RowsHold'
    BY <1>7, <2>1, <2>2, <2>3, <2>4 DEF refreshVars
  <2>7. QED
    BY <2>5, <2>6
<1>17. CASE CheckRow \/ Export \/ UNCHANGED vars
  <2>1. UNCHANGED <<refreshVars, list, table, late, loads, failed, selected>>
    BY <1>17 DEF CheckRow, Export, Click, vars, userVars, screenVars
  <2>2. ListHolds /\ RowsHold
    BY <1>11, <1>17
  <2>3. selected \in Sessions \cup {None}
    BY <1>4 DEF PageTypeOK
  <2>4. QED
    BY <1>7, <2>1, <2>2, <2>3 DEF refreshVars, Loading
<1>18. QED
  BY <1>5, <1>6, <1>9, <1>12, <1>20, <1>21, <1>14, <1>15, <1>22, <1>16, <1>17
  DEF Next, Page, Fetch, User

-----------------------------------------------------------------------------
(* The theorems.                                                           *)

\* The first rows, and what the page and the stream know of them.
LEMMA InitInv == ASSUME Init PROVE ViewInv
<1>1. PICK number \in [Sessions -> 1..Cardinality(Sessions)] :
        /\ IsInjective(number)
        /\ file = [s \in Sessions |-> <<number[s]>>] /\ ids = file
  BY DEF Init
<1>2. PICK n : n = Cardinality(Sessions)
  OBVIOUS
<1>3. n \in Nat
  BY <1>2, ViewAssumption, FS_CardinalityType
<1>4. \A s \in Sessions : number[s] \in 1..n /\ number[s] \in Nat
  BY <1>1, <1>2, <1>3
<1>5. \A s \in Sessions : <<number[s]>> \in Seq(Nat) /\ Len(<<number[s]>>) = 1
  BY <1>4
<1>6. ASSUME NEW r \in AllRows
      PROVE  \E s \in Sessions : r = [session |-> s, id |-> number[s], request |-> number[s]]
  <2>1. PICK s \in Sessions : r \in Rows(s)
    BY DEF AllRows
  <2>2. PICK i \in DOMAIN ids[s] : r = [session |-> s, id |-> ids[s][i], request |-> file[s][i]]
    BY <2>1 DEF Rows
  <2>3. ids[s] = <<number[s]>> /\ file[s] = <<number[s]>> /\ i = 1
    BY <1>1, <2>2
  <2>4. QED
    BY <2>2, <2>3
<1>7. /\ epoch = [s \in Sessions |-> 1] /\ lastId = n /\ reborn = FALSE /\ changes = 0
      /\ server = Opened /\ reconnects = 0
      /\ list = Sessions /\ selected \in Sessions /\ table = [rows |-> Rows(selected), at |-> 0]
      /\ late = FALSE /\ loads = {} /\ failed = {} /\ failures = 0
      /\ checked = {} /\ export = None /\ clicks = 0 /\ paused = FALSE /\ toggles = 0
      /\ pending = FALSE /\ busy = FALSE /\ timers = 0 /\ refresh = "none" /\ listing = {}
  BY <1>2 DEF Init
<1>8. IndexTypeOK
  <2>1. file \in [Sessions -> Seq(Nat)] /\ ids \in [Sessions -> {None} \cup Seq(Nat)]
    BY <1>1, <1>5
  <2>2. \A r \in AllRows : r.id \in 1..lastId
    BY <1>4, <1>6, <1>7
  <2>3. epoch \in [Sessions -> Nat] /\ \A s \in Sessions : epoch[s] > 0
    BY <1>7
  <2>4. \A s \in Sessions : Len(ids[s]) = Len(file[s])
    BY <1>1
  <2>5. reborn \in BOOLEAN /\ changes \in 0..MaxChanges
    <3>1. reborn \in BOOLEAN
      BY <1>7
    <3>2. changes \in 0..MaxChanges
      BY <1>7, ViewAssumption
    <3>3. QED
      BY <3>1, <3>2
  <2>6. QED
    BY <1>3, <1>7, <2>1, <2>2, <2>3, <2>4, <2>5 DEF IndexTypeOK
<1>9. UniqueIds
  <2>1. ASSUME NEW r \in AllRows, NEW q \in AllRows, r.id = q.id PROVE r = q
    <3>1. PICK s \in Sessions : r = [session |-> s, id |-> number[s], request |-> number[s]]
      BY <1>6
    <3>2. PICK t \in Sessions : q = [session |-> t, id |-> number[t], request |-> number[t]]
      BY <1>6
    <3>3. s = t
      BY <1>1, <2>1, <3>1, <3>2 DEF IsInjective
    <3>4. QED
      BY <3>1, <3>2, <3>3
  <2>2. QED
    BY <2>1 DEF UniqueIds
<1>10. MaxId \in 0..lastId /\ \A r \in AllRows : r.id <= MaxId
  BY <1>8, MaxIdBounds
<1>11. StreamTypeOK /\ EveryRowTold
  BY <1>7, <1>10, ViewAssumption DEF StreamTypeOK, EveryRowTold, Connected, Opened, Closed
<1>12. Rows(selected) \subseteq RowRecords /\ Rows(selected) \subseteq AllRows
  BY <1>7, <1>8, RowIs
<1>13. PageTypeOK
  <2>1. IsFiniteSet(loads) /\ IsFiniteSet(checked) /\ Cardinality({l \in loads : l.by = 0}) = 0
    BY <1>7, FS_EmptySet
  <2>2. table \in [rows : SUBSET RowRecords, at : Nat]
    BY <1>7, <1>12
  <2>3. /\ busy \in BOOLEAN /\ ~busy /\ paused \in BOOLEAN /\ pending \in BOOLEAN /\ late \in BOOLEAN
    BY <1>7
  <2>4. QED
    BY <1>7, <2>1, <2>2, <2>3, ViewAssumption DEF PageTypeOK
<1>14. MemoryIsTrue
  <2>1. Remembered \subseteq AllRows
    BY <1>7, <1>12 DEF Remembered
  <2>2. ASSUME NEW m \in AllRows
        PROVE  m.id <= lastId /\ \A r \in AllRows : r.id = m.id => r.request = m.request
    <3>1. m.id \in 1..lastId
      BY <1>8 DEF IndexTypeOK
    <3>2. QED
      BY <1>3, <1>7, <1>9, <3>1 DEF UniqueIds
  <2>3. QED
    BY <2>1, <2>2 DEF MemoryIsTrue
<1>15. ExportIsTrue
  BY <1>7 DEF ExportIsTrue
<1>16. QED
  BY <1>8, <1>9, <1>11, <1>13, <1>14, <1>15 DEF ViewInv, TypeOK

\* At the start every session is indexed.
LEMMA IndexedAtFirst == ASSUME Init PROVE \A s \in Sessions : ids[s] # None
<1>1. PICK number \in [Sessions -> 1..Cardinality(Sessions)] :
        file = [s \in Sessions |-> <<number[s]>>] /\ ids = file
  BY DEF Init
<1>2. SUFFICES ASSUME NEW s \in Sessions, ids[s] = None PROVE FALSE
  OBVIOUS
<1>3. None = <<number[s]>>
  BY <1>1, <1>2
<1>4. number[s] \in Nat
  BY <1>1, FS_CardinalityType, ViewAssumption
<1>5. <<number[s]>> \in Seq(Nat)
  BY <1>4
<1>6. QED
  BY <1>3, <1>5, ViewAssumption

\* At the start every session is indexed, the stream has told it, and the page shows
\* the one it has selected.
LEMMA InitSettling == ASSUME Init PROVE SettlingInv
<1>1. ViewInv
  BY InitInv
<1>2. /\ epoch = [s \in Sessions |-> 1] /\ reborn = FALSE /\ changes = 0 /\ server = Opened
      /\ queue = <<>> /\ list = Sessions /\ selected \in Sessions
      /\ table = [rows |-> Rows(selected), at |-> 0] /\ late = FALSE /\ loads = {} /\ checked = {}
      /\ pending = FALSE /\ paused = FALSE /\ refresh = "none" /\ timers = 0
  BY DEF Init
<1>3. IndexTypeOK
  BY <1>1 DEF ViewInv, TypeOK
<1>4. \A s \in Sessions : ids[s] # None
  BY IndexedAtFirst
<1>5. server.stage = "idle" /\ server.revision = Revision /\ server.epochs = epoch
  BY <1>2 DEF Opened
<1>6. RevisionInv
  <2>1. \A s \in Sessions : /\ Revision[s] # None /\ Revision[s][1] = epoch[s]
                            /\ Revision[s][2] = file[s] /\ epoch[s] \in Nat /\ Len(file[s]) \in Nat
    BY <1>3, <1>4, RevisionIs DEF IndexTypeOK
  <2>2. queue \in Seq(SUBSET Sessions)
    BY <1>2
  <2>3. Revision \in [Sessions -> {None} \cup (Nat \X Seq(Nat))]
    BY <1>3, RevisionIs
  <2>4. QED
    BY <1>5, <2>1, <2>2, <2>3 DEF RevisionInv
<1>7. BoxInv
  <2>1. /\ epoch \in [Sessions -> Nat]
        /\ \A s \in Sessions : Revision[s][1] = epoch[s] /\ epoch[s] \in Nat
    BY <1>3, <1>4, RevisionIs DEF IndexTypeOK
  <2>2. QED
    BY <1>2, <1>5, <2>1 DEF BoxInv, Connected
<1>8. AnswersInv
  BY <1>2 DEF AnswersInv
<1>9. FreshInv
  BY <1>2, <1>4 DEF FreshInv
<1>10. QED
  BY <1>1, <1>6, <1>7, <1>8, <1>9 DEF SettlingInv

\* Ids are given out once; what the stream has told, and what the page remembers,
\* is true of every row that is still there.
THEOREM ViewInvHolds == Spec => []ViewInv
<1>1. ASSUME ViewInv, [Next]_vars PROVE ViewInv'
  <2>1. CASE Index
    BY <1>1, <2>1, IndexInv
  <2>2. CASE Stream
    BY <1>1, <2>2, StreamInv
  <2>3. CASE Page
    BY <1>1, <2>3, EventInv, TimerInv, ListSessionsInv, SessionsLoadedInv, SessionsFailInv,
       ListRequestsInv, RequestsLoadedInv, RequestsFailInv
    DEF Page, Fetch
  <2>4. CASE User
    BY <1>1, <2>4, ToggleInv, SelectSessionInv, CheckRowInv, ExportInv DEF User
  <2>5. CASE UNCHANGED vars
    <3>1. PageTypeOK' /\ ExportIsTrue' /\ Remembered' = Remembered
      BY <1>1, <2>5
      DEF vars, streamVars, refreshVars, userVars, screenVars, ViewInv, TypeOK, PageTypeOK, ExportIsTrue,
          Remembered
    <3>2. QED
      BY <1>1, <2>5, <3>1, PageStep DEF vars, streamVars
  <2>6. QED
    BY <1>1, <2>1, <2>2, <2>3, <2>4, <2>5 DEF Next
<1>2. QED
  BY <1>1, InitInv, PTL DEF Spec

\* Every row up to the last id of the stream was told, however the index changes
\* between the reads of a tick and however many events the rows take.
THEOREM RowsTold == Spec => []EveryRowTold
BY ViewInvHolds, PTL DEF ViewInv

\* An export has nothing but what was checked, and all of it when it is complete.
THEOREM ExportTrue == Spec => []ExportIsTrue
BY ViewInvHolds, PTL DEF ViewInv

\* The stream is not ahead of the index, a reset is on its way for every box that
\* lost its row, an answer is as old as it says, and what the page shows or is about
\* to show is what the index has, once nothing more is to come.
THEOREM SettlingInvHolds == Spec => []SettlingInv
<1>1. ASSUME SettlingInv, ViewInv', [Next]_vars PROVE SettlingInv'
  <2>1. RevisionInv'
    BY <1>1, RevisionStep DEF SettlingInv
  <2>2. BoxInv'
    BY <1>1, <2>1, BoxStep DEF SettlingInv
  <2>3. AnswersInv'
    BY <1>1, AnswersStep DEF SettlingInv
  <2>4. FreshInv'
    BY <1>1, FreshStep DEF SettlingInv
  <2>5. QED
    BY <1>1, <2>1, <2>2, <2>3, <2>4 DEF SettlingInv
<1>2. QED
  BY <1>1, InitSettling, ViewInvHolds, PTL DEF Spec

\* On a page that waits for nothing, the box of a row that is gone is gone too.
THEOREM BoxesCleared == Spec => []ResetClearsBoxes
<1>1. ASSUME SettlingInv PROVE ResetClearsBoxes
  <2>1. SUFFICES ASSUME Settled, reconnects = 0, ~reborn, NEW c \in checked,
                        c.live, ids[c.session] # None
                 PROVE  \E r \in Rows(c.session) : r.id = c.id
    BY DEF ResetClearsBoxes
  <2>2. IndexTypeOK /\ c.session \in Sessions
    BY <1>1 DEF SettlingInv, ViewInv, TypeOK, PageTypeOK
  <2>3. PICK s \in Sessions : s = c.session
    BY <2>2
  <2>4. server.stage = "idle" /\ server.revision = Revision /\ queue = <<>>
    BY <2>1 DEF Settled
  <2>5. server.revision[s][1] = epoch[s]
    BY <2>1, <2>2, <2>3, <2>4, RevisionIs
  <2>6. /\ server.epochs[s] \in Nat /\ epoch[s] \in Nat
        /\ server.revision[s][1] <= server.epochs[s]
    BY <1>1, <2>1, <2>2, <2>3, <2>4 DEF SettlingInv, BoxInv, IndexTypeOK
  <2>7. ~(server.epochs[s] < epoch[s])
    BY <2>5, <2>6
  <2>8. ~\E i \in 1..Len(queue) : s \in queue[i]
    BY <2>4
  <2>9. QED
    BY <1>1, <2>1, <2>3, <2>7, <2>8 DEF SettlingInv, BoxInv
<1>2. QED
  BY <1>1, SettlingInvHolds, PTL

\* A page that waits for nothing and was never paused shows the requests of the
\* session it has selected, unless an answer came late, a session was reborn, or one of
\* its requests failed and no refresh since has succeeded (app.js:102, 209).
THEOREM FreshPage == Spec => []FreshUnlessPaused
<1>1. ASSUME SettlingInv PROVE FreshUnlessPaused
  <2>1. SUFFICES ASSUME toggles = 0, ~late, ~reborn, failed = {}, Settled, selected # None
                 PROVE  ids[selected] # None /\ {r.request : r \in table.rows} = Range(file[selected])
    BY DEF FreshUnlessPaused, SettledIsFresh
  <2>2. IndexTypeOK /\ PageTypeOK
    BY <1>1 DEF SettlingInv, ViewInv, TypeOK
  <2>3. StreamQuiet /\ ~RefreshDue
    BY <2>1 DEF Settled, StreamQuiet, RefreshDue
  <2>4. refresh = "none"
    BY <2>1, <2>2 DEF Settled, PageTypeOK
  <2>5. ~Loading(selected)
    BY <2>1 DEF Settled, Loading
  <2>6. selected \in Sessions /\ ids[selected] # None /\ table.rows = Rows(selected)
    BY <1>1, <2>1, <2>2, <2>3, <2>4, <2>5 DEF SettlingInv, FreshInv, PageTypeOK
  <2>7. /\ ids[selected] \in Seq(Nat) /\ file[selected] \in Seq(Nat)
        /\ Len(ids[selected]) = Len(file[selected])
    BY <2>2, <2>6 DEF IndexTypeOK
  <2>8. DOMAIN ids[selected] = DOMAIN file[selected]
    BY <2>7
  <2>9. Range(file[selected]) = {file[selected][i] : i \in DOMAIN ids[selected]}
    BY <2>8 DEF Range
  <2>10. ASSUME NEW r \in Rows(selected) PROVE r.request \in Range(file[selected])
    BY <2>6, <2>9 DEF Rows
  <2>11. ASSUME NEW i \in DOMAIN ids[selected]
         PROVE  \E r \in Rows(selected) : r.request = file[selected][i]
    <3>1. [session |-> selected, id |-> ids[selected][i], request |-> file[selected][i]]
            \in Rows(selected)
      BY <2>6 DEF Rows
    <3>2. QED
      BY <3>1
  <2>12. QED
    BY <2>6, <2>9, <2>10, <2>11
<1>2. QED
  BY <1>1, SettlingInvHolds, PTL

-----------------------------------------------------------------------------
(* What the index is taken to promise.                                     *)

\* A session that is not indexed has lost its epoch too.
EpochsGone == \A s \in Sessions : ids[s] = None => epoch[s] = 0

\* What the contract calls the rows of a session.
LEMMA IndexedRowsType == ASSUME IndexTypeOK PROVE IndexedRows \in [Sessions -> Seq(Nat)]
<1>1. \A s \in Sessions : <<>> \in Seq(Nat) /\ file[s] \in Seq(Nat)
  BY DEF IndexTypeOK
<1>2. QED
  BY <1>1 DEF IndexedRows

\* A change of one session is one commit.
LEMMA OneSession ==
  ASSUME IndexTypeOK, IndexTypeOK', NEW s \in Sessions,
         \A t \in Sessions \ {s} : ids'[t] = ids[t] /\ file'[t] = file[t] /\ epoch'[t] = epoch[t]
  PROVE  Contract!Commit(s)
<1>1. /\ IndexedRows \in [Sessions -> Seq(Nat)] /\ IndexedRows' \in [Sessions -> Seq(Nat)]
      /\ epoch \in [Sessions -> Nat] /\ epoch' \in [Sessions -> Nat]
  <2>1. IndexedRows' \in [Sessions -> Seq(Nat)]
    <3>1. \A t \in Sessions : <<>> \in Seq(Nat) /\ file'[t] \in Seq(Nat)
      BY DEF IndexTypeOK
    <3>2. QED
      BY <3>1 DEF IndexedRows
  <2>2. QED
    BY <2>1, IndexedRowsType DEF IndexTypeOK
<1>2. \A t \in Sessions \ {s} : IndexedRows'[t] = IndexedRows[t]
  BY DEF IndexedRows
<1>3. /\ IndexedRows' = [IndexedRows EXCEPT ![s] = IndexedRows'[s]]
      /\ epoch' = [epoch EXCEPT ![s] = epoch'[s]]
      /\ IndexedRows'[s] \in Seq(Nat)
  BY <1>1, <1>2
<1>4. QED
  BY <1>3 DEF Contract!Commit

\* Rows that are inserted leave the session indexed.
LEMMA InsertedIsIndexed ==
  ASSUME IndexTypeOK, NEW s \in Sessions, NEW kept \in Seq(Nat), NEW f \in Seq(Nat),
         Len(kept) <= Len(f), Insert(s, kept, f)
  PROVE  /\ ids'[s] # None /\ file'[s] = f
         /\ \A t \in Sessions \ {s} : ids'[t] = ids[t] /\ file'[t] = file[t]
<1> DEFINE n == Len(f) - Len(kept)
           added == [i \in 1..n |-> lastId + i]
<1>1. n \in Nat /\ lastId \in Nat
  BY DEF IndexTypeOK
<1>2. /\ file' = [file EXCEPT ![s] = f] /\ ids' = [ids EXCEPT ![s] = kept \o added]
  BY DEF Insert
<1> HIDE DEF n
<1>3. added \in [1..n -> Nat]
  BY <1>1
<1> HIDE DEF added
<1>4. added \in Seq(Nat)
  BY <1>1, <1>3, SeqDef
<1>5. kept \o added \in Seq(Nat)
  BY <1>4, ConcatProperties
<1>6. kept \o added # None
  BY <1>5, ViewAssumption
<1>7. QED
  BY <1>2, <1>6 DEF IndexTypeOK

\* What a rescan may find keeps the contract.
LEMMA IndexKeepsContract ==
  ASSUME IndexTypeOK, UniqueIds, EpochsGone, Index
  PROVE  Contract!Next /\ EpochsGone'
<1>1. PICK s \in Sessions : Grow(s) \/ Rebuild(s) \/ Drop(s) \/ IndexAgain(s)
  BY DEF Index
<1>2. IndexTypeOK'
  BY IndexStep
<1>3. /\ file \in [Sessions -> Seq(Nat)] /\ ids \in [Sessions -> {None} \cup Seq(Nat)]
      /\ epoch \in [Sessions -> Nat] /\ \A t \in Sessions : epoch[t] \in Nat
      /\ \A t \in Sessions : ids[t] # None => epoch[t] > 0
  BY DEF IndexTypeOK
<1>4. Fresh \in Nat
  <2>1. Cardinality(Sessions) \in Nat
    BY ViewAssumption, FS_CardinalityType
  <2>2. QED
    BY <2>1, ViewAssumption DEF Fresh, IndexTypeOK
<1>5. /\ \A t \in Sessions \ {s} : ids'[t] = ids[t] /\ file'[t] = file[t] /\ epoch'[t] = epoch[t]
      /\ \/ /\ ids[s] # None /\ ids'[s] # None /\ epoch'[s] = epoch[s]
            /\ file'[s] = Append(file[s], Fresh)
         \/ ids'[s] # None /\ epoch'[s] = epoch[s] + 1
         \/ ids'[s] = None /\ epoch'[s] = 0
  <2>1. CASE Grow(s)
    <3>1. ids[s] # None /\ epoch' = epoch /\ Insert(s, ids[s], Append(file[s], Fresh))
      BY <2>1 DEF Grow
    <3>2. ids[s] \in Seq(Nat) /\ file[s] \in Seq(Nat) /\ Len(ids[s]) = Len(file[s])
      BY <1>3, <3>1 DEF IndexTypeOK
    <3>3. Append(file[s], Fresh) \in Seq(Nat) /\ Len(ids[s]) <= Len(Append(file[s], Fresh))
      BY <1>4, <3>2
    <3>4. QED
      BY <3>1, <3>2, <3>3, InsertedIsIndexed
  <2>2. ASSUME NEW f \in {file[s], <<Fresh>>}, Insert(s, <<>>, f)
        PROVE  /\ ids'[s] # None
               /\ \A t \in Sessions \ {s} : ids'[t] = ids[t] /\ file'[t] = file[t]
    <3>1. f \in Seq(Nat) /\ Len(f) \in Nat /\ <<>> \in Seq(Nat) /\ Len(<<>>) = 0
      <4>1. <<Fresh>> \in Seq(Nat) /\ <<>> \in Seq(Nat)
        BY <1>4
      <4>2. f \in Seq(Nat)
        BY <1>3, <2>2, <4>1
      <4>3. QED
        BY <4>1, <4>2, LenProperties
    <3>2. Len(<<>>) <= Len(f)
      BY <3>1
    <3>3. QED
      BY <2>2, <3>1, <3>2, InsertedIsIndexed
  <2>3. CASE Rebuild(s)
    <3>1. epoch' = [epoch EXCEPT ![s] = epoch[s] + 1]
      BY <2>3 DEF Rebuild
    <3>2. PICK f \in {file[s], <<Fresh>>} : Insert(s, <<>>, f)
      BY <2>3 DEF Rebuild
    <3>3. QED
      BY <1>3, <2>2, <3>1, <3>2
  <2>4. CASE IndexAgain(s)
    <3>1. epoch[s] = 0 /\ epoch' = [epoch EXCEPT ![s] = 1]
      BY <2>4 DEF IndexAgain, EpochsGone
    <3>2. PICK f \in {file[s], <<Fresh>>} : Insert(s, <<>>, f)
      BY <2>4 DEF IndexAgain
    <3>3. epoch'[s] = epoch[s] + 1 /\ \A t \in Sessions \ {s} : epoch'[t] = epoch[t]
      BY <1>3, <3>1
    <3>4. QED
      BY <2>2, <3>2, <3>3
  <2>5. CASE Drop(s)
    BY <1>3, <2>5 DEF Drop
  <2>6. QED
    BY <1>1, <2>1, <2>3, <2>4, <2>5
<1>6. Contract!Commit(s)
  BY <1>2, <1>5, OneSession
<1>7. Contract!Grow(s) \/ Contract!Reset(s) \/ Contract!Forget(s)
  <2>1. CASE /\ ids[s] # None /\ ids'[s] # None /\ epoch'[s] = epoch[s]
             /\ file'[s] = Append(file[s], Fresh)
    <3>1. IndexedRows[s] = file[s] /\ IndexedRows'[s] = Append(file[s], Fresh)
      BY <2>1 DEF IndexedRows
    <3>2. file[s] \in Seq(Nat) /\ epoch[s] > 0
      BY <1>3, <2>1
    <3>3. Contract!IsPrefix(IndexedRows[s], IndexedRows'[s])
      <4>1. Len(file[s]) <= Len(Append(file[s], Fresh))
        BY <1>4, <3>2
      <4>2. SubSeq(Append(file[s], Fresh), 1, Len(file[s])) = SubSeq(file[s], 1, Len(file[s]))
        BY <1>4, <3>2
      <4>3. QED
        BY <3>1, <4>1, <4>2 DEF Contract!IsPrefix
    <3>4. QED
      BY <1>6, <2>1, <3>2, <3>3 DEF Contract!Grow
  <2>2. CASE ids'[s] # None /\ epoch'[s] = epoch[s] + 1
    BY <1>6, <2>2 DEF Contract!Reset
  <2>3. CASE ids'[s] = None /\ epoch'[s] = 0
    <3>1. IndexedRows'[s] = <<>>
      BY <2>3 DEF IndexedRows
    <3>2. QED
      BY <1>6, <2>3, <3>1 DEF Contract!Forget
  <2>4. QED
    BY <1>5, <2>1, <2>2, <2>3
<1>8. EpochsGone'
  <2>1. ASSUME NEW t \in Sessions, ids'[t] = None PROVE epoch'[t] = 0
    BY <1>5, <2>1 DEF EpochsGone
  <2>2. QED
    BY <2>1 DEF EpochsGone
<1>9. QED
  BY <1>7, <1>8 DEF Contract!Next

\* The index that the stream and the page are shown to cope with does to the rows and
\* the epochs of the sessions only what WebIndex is shown to do.
THEOREM ContractRead == Spec => ReadsContract
<1>1. ASSUME Init PROVE Contract!Init /\ EpochsGone
  <2>1. IndexTypeOK
    BY <1>1, InitInv DEF ViewInv, TypeOK
  <2>2. epoch = [s \in Sessions |-> 1] /\ \A s \in Sessions : epoch[s] = 1
    BY <1>1 DEF Init
  <2>3. epoch \in [Sessions -> Nat] /\ IndexedRows \in [Sessions -> Seq(Nat)]
    BY <2>1, IndexedRowsType DEF IndexTypeOK
  <2>4. Contract!Init
    BY <2>2, <2>3 DEF Contract!Init
  <2>5. \A s \in Sessions : ids[s] # None
    BY <1>1, IndexedAtFirst
  <2>6. QED
    BY <2>4, <2>5 DEF EpochsGone
<1>2. ASSUME ViewInv, EpochsGone, [Next]_vars
      PROVE  [Contract!Next]_(Contract!contractVars) /\ EpochsGone'
  <2>1. CASE Index
    BY <1>2, <2>1, IndexKeepsContract DEF ViewInv, TypeOK
  <2>2. CASE Stream \/ Page \/ User \/ UNCHANGED vars
    <3>1. UNCHANGED <<ids, file, epoch>>
      BY <2>2, PageLeaves, StreamLeaves DEF indexVars
    <3>2. IndexedRows' = IndexedRows
      BY <3>1 DEF IndexedRows
    <3>3. QED
      BY <1>2, <3>1, <3>2 DEF Contract!contractVars, EpochsGone
  <2>3. QED
    BY <1>2, <2>1, <2>2 DEF Next
<1>3. QED
  BY <1>1, <1>2, ViewInvHolds, PTL DEF Spec, ReadsContract, Contract!Spec
=============================================================================
