-------------------------- MODULE FileLogger_proofs --------------------------
(***************************************************************************)
(* Proofs about FileLogger for any number of backlog files, any limits and *)
(* any number of writes.  The inductive invariant adds to the checked ones *)
(* how old the records of each file are, and what the rotation has done    *)
(* down to the file it has reached.                                        *)
(***************************************************************************)
EXTENDS FileLogger, TLAPS

\* Numbers are given out once.
Numbered == \A k \in Indices : \A r \in In(k) :
              r.no <= written /\ (pc # "idle" => r.no < written)

\* Has file k still to be moved by the rotation under way?
IsAhead(k) == (pc = "remove" /\ k <= i + 1) \/ (pc = "rename" /\ k <= i)

\* A record in file k has seen at least k rotations begin, and the rotation
\* under way besides if it has not come to the file.
Aged == \A k \in Indices : \A r \in In(k) :
          begun - r.at >= k + (IF IsAhead(k) THEN 1 ELSE 0)

\* What a rotation has done so far: the file it moves next has a place to go.
Rotated ==
  /\ pc # "idle" => file = "closed" /\ rotateCount > 0 /\ written > 0
  /\ file = "open" => Exists(0)
  /\ pc = "remove" => \A k \in Indices : k > i + 1 /\ Exists(k) => k <= rotateCount
  /\ pc = "remove" /\ i + 1 < rotateCount => ~Exists(i + 1)
  /\ pc = "rename" => \A k \in Indices : k > i /\ Exists(k) => k <= rotateCount
  /\ pc = "rename" => ~Exists(i + 1)

IInv == /\ TypeOK /\ AgesInOrder /\ BacklogIsBounded
        /\ Numbered /\ Aged /\ Rotated

NewRecord == [no |-> written', at |-> begun]

\* A record put down goes behind those in file 0, and no other file changes.
LEMMA PutsAppends ==
  ASSUME IInv, Puts, written' \in 1 .. MaxWrites,
         \A k \in Indices : \A r \in In(k) : r.no < written',
         \E n \in FileSizes : (IF Exists(0) THEN Len(disk[0]) ELSE 0) + 1 <= n
  PROVE  /\ disk' \in [Indices -> Seq(Records) \cup {NoFile}]
         /\ Exists(0)'
         /\ \A k \in Indices : Exists(k)' => \E n \in FileSizes : Len(disk'[k]) <= n
         /\ In(0)' = In(0) \cup {NewRecord}
         /\ \A k \in Indices \ {0} : disk'[k] = disk[k] /\ In(k)' = In(k)
         /\ AgesInOrder'
<1> DEFINE old == IF Exists(0) THEN disk[0] ELSE << >>
<1> USE LoggerAssumption
<1>1. /\ 0 \in Indices /\ disk \in [Indices -> Seq(Records) \cup {NoFile}]
      /\ begun \in 0 .. MaxWrites
  BY DEF IInv, TypeOK, Indices
<1>2. NewRecord \in Records
  BY <1>1 DEF NewRecord, Records
<1>3. old \in Seq(Records)
  BY <1>1 DEF Exists
<1>4. Append(old, NewRecord) \in Seq(Records)
  BY <1>2, <1>3
<1>5. disk' = [disk EXCEPT ![0] = Append(old, NewRecord)]
  BY DEF Puts, NewRecord
<1>6. disk'[0] = Append(old, NewRecord) /\ \A k \in Indices \ {0} : disk'[k] = disk[k]
  BY <1>1, <1>5
<1>7. disk' \in [Indices -> Seq(Records) \cup {NoFile}]
  BY <1>1, <1>4, <1>5
<1>8. Exists(0)'
  BY <1>4, <1>6 DEF Exists
<1>9. Len(disk'[0]) = (IF Exists(0) THEN Len(disk[0]) ELSE 0) + 1
  BY <1>2, <1>3, <1>6
<1>10. \A k \in Indices : Exists(k)' => \E n \in FileSizes : Len(disk'[k]) <= n
  BY <1>1, <1>6, <1>9 DEF IInv, TypeOK, Exists
<1>11. \A k \in Indices \ {0} : In(k)' = In(k)
  BY <1>6 DEF In, Exists
<1>12. In(0) = ToSet(old)
  BY DEF In, ToSet
<1>13. ToSet(Append(old, NewRecord)) = ToSet(old) \cup {NewRecord}
  <2> DEFINE new == Append(old, NewRecord)
  <2>1. /\ DOMAIN old = 1 .. Len(old) /\ Len(old) \in Nat
        /\ DOMAIN new = 1 .. (Len(old) + 1)
        /\ \A n \in 1 .. Len(old) : new[n] = old[n]
        /\ new[Len(old) + 1] = NewRecord
    BY <1>2, <1>3
  <2>2. \A r \in ToSet(new) : r \in ToSet(old) \cup {NewRecord}
    BY <2>1 DEF ToSet
  <2>3. NewRecord \in ToSet(new)
    <3>1. Len(old) + 1 \in DOMAIN new
      BY <2>1
    <3> QED
      BY <2>1, <3>1 DEF ToSet
  <2>4. ASSUME NEW n \in 1 .. Len(old) PROVE old[n] \in ToSet(new)
    <3>1. n \in DOMAIN new /\ new[n] = old[n]
      BY <2>1
    <3> QED
      BY <3>1 DEF ToSet
  <2>5. \A r \in ToSet(old) : r \in ToSet(new)
    BY <2>1, <2>4 DEF ToSet
  <2> QED
    BY <2>2, <2>3, <2>5
<1>14. In(0)' = In(0) \cup {NewRecord}
  BY <1>6, <1>8, <1>12, <1>13 DEF In
<1>15. NewRecord.no = written' /\ \A k \in Indices : \A r \in In(k) : NewRecord.no > r.no
  <2>1. \A k \in Indices : \A r \in In(k) : r \in Records
    BY <1>1 DEF In, ToSet, Exists
  <2> QED
    BY <2>1 DEF NewRecord, Records
<1>16. \A k \in Indices : Exists(k)' =>
         \A m, n \in DOMAIN disk'[k] : m < n => disk'[k][m].no < disk'[k][n].no
  <2> SUFFICES ASSUME NEW m \in DOMAIN disk'[0], NEW n \in DOMAIN disk'[0], m < n
               PROVE  disk'[0][m].no < disk'[0][n].no
    BY <1>6 DEF IInv, AgesInOrder, Exists
  <2>1. m \in 1 .. Len(old) /\ disk'[0][m] = old[m]
    BY <1>2, <1>3, <1>6
  <2>2. CASE n \in 1 .. Len(old)
    <3>1. Exists(0) /\ disk'[0][n] = old[n]
      BY <1>2, <1>3, <1>6, <2>2
    <3> QED
      BY <1>1, <1>3, <2>1, <2>2, <3>1 DEF IInv, AgesInOrder
  <2>3. CASE n = Len(old) + 1
    <3>1. disk'[0][n] = NewRecord
      BY <1>2, <1>3, <1>6, <2>3
    <3>2. old[m] \in In(0)
      BY <1>3, <1>12, <2>1 DEF ToSet
    <3> QED
      BY <1>1, <1>15, <2>1, <3>1, <3>2
  <2> QED
    BY <1>2, <1>3, <1>6, <2>2, <2>3
<1>17. \A k, l \in Indices : k < l => \A r \in In(k)', s \in In(l)' : r.no > s.no
  <2> SUFFICES ASSUME NEW k \in Indices, NEW l \in Indices, k < l
               PROVE  \A r \in In(k)', s \in In(l)' : r.no > s.no
    OBVIOUS
  <2>1. l # 0
    BY DEF Indices
  <2> QED
    BY <1>11, <1>14, <1>15, <2>1 DEF IInv, AgesInOrder
<1> QED
  BY <1>7, <1>8, <1>10, <1>11, <1>14, <1>6, <1>16, <1>17 DEF AgesInOrder

\* A file that is renamed takes its records along; the others stay as they are.
LEMMA MovedFile ==
  ASSUME IInv, NEW k \in Indices, k + 1 \in Indices, disk' = Moved(k)
  PROVE  /\ disk' \in [Indices -> Seq(Records) \cup {NoFile}]
         /\ disk'[k + 1] = disk[k] /\ disk'[k] = NoFile
         /\ \A l \in Indices \ {k, k + 1} : disk'[l] = disk[l]
         /\ In(k + 1)' = In(k) /\ In(k)' = {}
         /\ \A l \in Indices \ {k, k + 1} : In(l)' = In(l)
<1>1. k # k + 1
  BY DEF Indices
<1>2. /\ disk' \in [Indices -> Seq(Records) \cup {NoFile}]
      /\ disk'[k + 1] = disk[k] /\ disk'[k] = NoFile
      /\ \A l \in Indices \ {k, k + 1} : disk'[l] = disk[l]
  BY <1>1 DEF Moved, IInv, TypeOK
<1> QED
  BY <1>2 DEF In, Exists

LEMMA IInvInit == Init => IInv
<1> SUFFICES ASSUME Init PROVE IInv
  OBVIOUS
<1>1. \A k \in Indices : ~Exists(k) /\ In(k) = {}
  BY DEF Init, Exists, In
<1>2. TypeOK
  BY <1>1, LoggerAssumption DEF Init, TypeOK, Indices
<1> QED
  BY <1>1, <1>2 DEF Init, IInv, AgesInOrder, BacklogIsBounded, Numbered, Aged, Rotated

\* Steps that leave the files alone, and neither begin a rotation nor take it on
LEMMA Elsewhere ==
  ASSUME IInv, UNCHANGED <<disk, begun>>, TypeOK',
         written' \in Nat, written' >= written,
         pc' = "idle", file' = "open" => Exists(0)
  PROVE  IInv'
<1>1. \A k \in Indices : In(k)' = In(k) /\ (Exists(k)' <=> Exists(k))
  BY DEF In, Exists
<1>2. \A k \in Indices : \A r \in In(k) : r \in Records
  BY DEF In, ToSet, Exists, IInv, TypeOK
<1>3. AgesInOrder'
  BY <1>1 DEF IInv, AgesInOrder
<1>4. Numbered'
  BY <1>1, <1>2 DEF IInv, TypeOK, Numbered, Records
<1>5. Aged'
  <2> SUFFICES ASSUME NEW k \in Indices, NEW r \in In(k) PROVE begun - r.at >= k
    BY <1>1 DEF Aged, IsAhead, Indices
  <2>1. begun - r.at >= k + (IF IsAhead(k) THEN 1 ELSE 0)
    BY DEF IInv, Aged
  <2>2. r.at \in Nat /\ begun \in Nat /\ k \in Nat
    BY <1>2 DEF Records, IInv, TypeOK, Indices
  <2> QED
    BY <2>1, <2>2
<1>6. Rotated' /\ BacklogIsBounded'
  BY <1>1, LoggerAssumption DEF Rotated, BacklogIsBounded, Indices
<1> QED
  BY <1>3, <1>4, <1>5, <1>6 DEF IInv

\* The steps that put a record down: with room in the file, or in the new file
LEMMA PutsKeepsIInv ==
  ASSUME IInv, Puts, pc' = "idle", file' = "open", i' = 0,
         UNCHANGED <<rotateCount, maxFileSize, begun>>,
         pc \in {"idle", "open"}, written' \in 1 .. MaxWrites,
         pc = "idle" => written' = written + 1,
         pc = "open" => written' = written,
         \E n \in FileSizes : (IF Exists(0) THEN Len(disk[0]) ELSE 0) + 1 <= n
  PROVE  IInv'
<1> USE LoggerAssumption
<1>1. \A k \in Indices : \A r \in In(k) : r \in Records
  BY DEF In, ToSet, Exists, IInv, TypeOK
<1>2. \A k \in Indices : \A r \in In(k) : r.no < written'
  BY <1>1 DEF IInv, TypeOK, Numbered, Records
<1>3. /\ disk' \in [Indices -> Seq(Records) \cup {NoFile}] /\ Exists(0)'
      /\ \A k \in Indices : Exists(k)' => \E n \in FileSizes : Len(disk'[k]) <= n
      /\ In(0)' = In(0) \cup {NewRecord}
      /\ \A k \in Indices \ {0} : disk'[k] = disk[k] /\ In(k)' = In(k)
      /\ AgesInOrder'
  BY <1>2, PutsAppends
<1>4. TypeOK'
  BY <1>3 DEF IInv, TypeOK
<1>5. Numbered'
  <2>1. NewRecord.no = written'
    BY DEF NewRecord
  <2> QED
    BY <1>1, <1>2, <1>3, <2>1 DEF Numbered, IInv, TypeOK, Records
<1>6. Aged'
  <2> SUFFICES ASSUME NEW k \in Indices, NEW r \in In(k)' PROVE begun - r.at >= k
    BY DEF Aged, IsAhead, Indices
  <2>1. CASE r = NewRecord /\ k = 0
    BY <2>1 DEF NewRecord, IInv, TypeOK
  <2>2. CASE r \in In(k)
    <3>1. begun - r.at >= k /\ r.at \in Nat
      BY <1>1, <2>2 DEF IInv, Aged, IsAhead, TypeOK, Indices, Records
    <3> QED
      BY <3>1
  <2> QED
    BY <1>3, <2>1, <2>2
<1>7. Rotated' /\ BacklogIsBounded'
  BY <1>3 DEF Rotated, BacklogIsBounded, Indices
<1> QED
  BY <1>3, <1>4, <1>5, <1>6, <1>7 DEF IInv

\* The next step of a rotation: the file above the one to be moved goes.
LEMMA RemovesKeepsIInv == IInv /\ Removes => IInv'
<1> SUFFICES ASSUME IInv, Removes, NEW j \in Nat, j = i PROVE IInv'
  BY DEF IInv, TypeOK
<1> USE LoggerAssumption
<1>1. j + 1 \in Indices /\ j + 1 # 0
  BY DEF IInv, TypeOK, Indices
<1>2. /\ disk' \in [Indices -> Seq(Records) \cup {NoFile}]
      /\ disk'[j + 1] = NoFile /\ \A k \in Indices \ {j + 1} : disk'[k] = disk[k]
  BY <1>1 DEF Removes, IInv, TypeOK
<1>3. In(j + 1)' = {} /\ ~Exists(j + 1)'
      /\ \A k \in Indices \ {j + 1} : In(k)' = In(k) /\ (Exists(k)' <=> Exists(k))
  BY <1>1, <1>2 DEF In, Exists, Removes
<1>4. TypeOK'
  BY <1>2 DEF IInv, TypeOK, Removes, parameters, Exists
<1>5. AgesInOrder'
  BY <1>2, <1>3 DEF IInv, AgesInOrder
<1>6. Numbered'
  BY <1>3 DEF IInv, Numbered, Removes
<1>7. Aged'
  BY <1>1, <1>3 DEF IInv, Aged, IsAhead, Removes, Indices
<1>8. Rotated' /\ BacklogIsBounded'
  BY <1>1, <1>2 DEF IInv, Rotated, BacklogIsBounded, parameters, Removes, Indices, Exists
<1> QED
  BY <1>4, <1>5, <1>6, <1>7, <1>8 DEF IInv

\* The file i is moved to the free place above it, or it is not one to be kept.
LEMMA RenamesKeepsIInv == IInv /\ Renames => IInv'
<1> SUFFICES ASSUME IInv, Renames, NEW j \in Nat, j = i PROVE IInv'
  BY DEF IInv, TypeOK
<1> USE LoggerAssumption
<1>1. j \in Indices /\ j + 1 \in Indices /\ rotateCount \in Nat
  BY DEF IInv, TypeOK, Indices
<1>2. CASE IsKept(j)
  <2>1. disk' = Moved(j)
    BY <1>2 DEF Renames
  <2>2. /\ disk' \in [Indices -> Seq(Records) \cup {NoFile}]
        /\ disk'[j + 1] = disk[j] /\ disk'[j] = NoFile
        /\ \A l \in Indices \ {j, j + 1} : disk'[l] = disk[l]
        /\ In(j + 1)' = In(j) /\ In(j)' = {}
        /\ \A l \in Indices \ {j, j + 1} : In(l)' = In(l)
    BY <1>1, <2>1, MovedFile
  <2>3. /\ Exists(j + 1)' <=> Exists(j) /\ ~Exists(j)'
        /\ \A l \in Indices \ {j, j + 1} : Exists(l)' <=> Exists(l)
    BY <2>2 DEF Exists
  <2>4. TypeOK'
    BY <1>1, <2>2 DEF IInv, TypeOK, Renames, parameters, Exists
  <2>5. AgesInOrder'
    <3>1. In(j + 1) = {}
      BY DEF IInv, Rotated, Renames, In
    <3>2. \A k \in Indices : Exists(k)' =>
            \A m, n \in DOMAIN disk'[k] : m < n => disk'[k][m].no < disk'[k][n].no
      BY <1>1, <2>2 DEF IInv, AgesInOrder, Exists
    <3>3. \A k, l \in Indices : k < l => \A r \in In(k)', s \in In(l)' : r.no > s.no
      BY <1>1, <2>2, <3>1 DEF IInv, AgesInOrder, Indices
    <3> QED
      BY <3>2, <3>3 DEF AgesInOrder
  <2>6. Numbered'
    BY <1>1, <2>2 DEF IInv, Numbered, Renames
  <2>7. Aged'
    BY <1>1, <2>2 DEF IInv, Aged, IsAhead, Renames, Indices
  <2>8. Rotated' /\ BacklogIsBounded'
    BY <1>1, <1>2, <2>2 DEF IInv, Rotated, BacklogIsBounded, parameters, Renames, Indices, IsKept,
                            Exists
  <2> QED
    BY <2>4, <2>5, <2>6, <2>7, <2>8 DEF IInv
<1>3. CASE ~IsKept(j)
  <2>1. disk' = disk /\ j > 0
    BY <1>1, <1>3 DEF Renames, IsKept, IInv, Rotated
  <2>2. \A k \in Indices : In(k)' = In(k) /\ (Exists(k)' <=> Exists(k))
    BY <2>1 DEF In, Exists
  <2>3. TypeOK'
    BY <2>1 DEF IInv, TypeOK, Renames, parameters, Exists
  <2>4. AgesInOrder'
    BY <2>1, <2>2 DEF IInv, AgesInOrder
  <2>5. Numbered'
    BY <2>2 DEF IInv, Numbered, Renames
  <2>6. Aged'
    BY <1>1, <2>1, <2>2 DEF IInv, Aged, IsAhead, Renames, Indices
  <2>7. Rotated' /\ BacklogIsBounded'
    BY <1>1, <1>3, <2>1 DEF IInv, Rotated, BacklogIsBounded, parameters, Renames, Indices, IsKept,
                            Exists
  <2> QED
    BY <2>3, <2>4, <2>5, <2>6, <2>7 DEF IInv
<1> QED
  BY <1>2, <1>3

\* A rotation begins: every file is ahead of it.
LEMMA RotatesKeepsIInv == IInv /\ Rotates => IInv'
<1> SUFFICES ASSUME IInv, Rotates PROVE IInv'
  OBVIOUS
<1> USE LoggerAssumption
<1>1. \A k \in Indices : In(k)' = In(k) /\ (Exists(k)' <=> Exists(k))
  BY DEF In, Exists, Rotates
<1>2. \A k \in Indices : \A r \in In(k) : r \in Records
  BY DEF In, ToSet, Exists, IInv, TypeOK
<1>3. TypeOK'
  BY DEF IInv, TypeOK, Rotates, parameters, Exists, First
<1>4. AgesInOrder'
  BY <1>1 DEF IInv, AgesInOrder, Rotates
<1>5. Numbered'
  BY <1>1, <1>2 DEF IInv, TypeOK, Numbered, Records, Rotates
<1>6. Aged'
  <2>1. \A k \in Indices : \A r \in In(k) : (begun + 1) - r.at >= k + 1
    <3> SUFFICES ASSUME NEW k \in Indices, NEW r \in In(k) PROVE (begun + 1) - r.at >= k + 1
      OBVIOUS
    <3>1. begun - r.at >= k
      BY DEF IInv, Aged, IsAhead, Rotates, Indices
    <3> QED
      BY <1>2, <3>1 DEF IInv, TypeOK, Indices, Records
  <2>2. begun' = begun + 1 /\ pc' = "remove" /\ i' = MaxRotateCount - 1
    BY DEF Rotates, First
  <2>3. ASSUME NEW k \in Indices, NEW r \in In(k)'
        PROVE  begun' - r.at >= k + (IF IsAhead(k)' THEN 1 ELSE 0)
    <3>1. r \in In(k) /\ k <= MaxRotateCount
      BY <1>1, <2>3 DEF Indices
    <3>2. IsAhead(k)'
      BY <2>2, <3>1 DEF IsAhead, Indices
    <3>3. begun' - r.at >= k + 1
      BY <2>1, <2>2, <2>3, <3>1
    <3> QED
      BY <3>2, <3>3, Zenon
  <2> QED
    BY <2>3 DEF Aged
<1>7. Rotated' /\ BacklogIsBounded'
  BY DEF Rotated, BacklogIsBounded, Rotates, First, Indices, parameters, IInv, TypeOK
<1> QED
  BY <1>3, <1>4, <1>5, <1>6, <1>7 DEF IInv

\* A file that is created empty has no records, and had none before ...
LEMMA CreatedIsEmpty ==
  ASSUME IInv, ~Exists(0), disk' = [disk EXCEPT ![0] = << >>]
  PROVE  /\ 0 \in Indices /\ disk'[0] = << >>
         /\ \A k \in Indices \ {0} : disk'[k] = disk[k]
         /\ \A k \in Indices : In(k)' = In(k)
<1>1. /\ 0 \in Indices /\ disk'[0] = << >>
      /\ \A k \in Indices \ {0} : disk'[k] = disk[k]
  BY LoggerAssumption DEF IInv, TypeOK, Indices
<1>2. ToSet(<< >>) = {}
  BY DEF ToSet
<1>3. In(0)' = {} /\ In(0) = {}
  BY <1>1, <1>2 DEF In, Exists
<1>4. \A k \in Indices \ {0} : In(k)' = In(k)
  BY <1>1 DEF In, Exists
<1> QED
  BY <1>1, <1>3, <1>4

\* ... so that the invariant holds on.
LEMMA CreatedKeepsIInv ==
  ASSUME IInv, ~Exists(0), disk' = [disk EXCEPT ![0] = << >>], TypeOK',
         UNCHANGED <<written, begun>>, pc' = "idle"
  PROVE  IInv'
<1> USE LoggerAssumption
<1>1. /\ 0 \in Indices /\ disk'[0] = << >>
      /\ \A k \in Indices \ {0} : disk'[k] = disk[k]
  BY CreatedIsEmpty
<1>2. \A k \in Indices : In(k)' = In(k)
  BY CreatedIsEmpty
<1>3. \A k \in Indices : \A r \in In(k) : r \in Records
  BY DEF In, ToSet, Exists, IInv, TypeOK
<1>4. AgesInOrder'
  BY <1>1, <1>2 DEF IInv, AgesInOrder, Exists
<1>5. Numbered'
  BY <1>2 DEF IInv, Numbered
<1>6. Aged'
  <2> SUFFICES ASSUME NEW k \in Indices, NEW r \in In(k) PROVE begun - r.at >= k
    BY <1>2 DEF Aged, IsAhead, Indices
  <2>1. begun - r.at >= k + (IF IsAhead(k) THEN 1 ELSE 0)
    BY DEF IInv, Aged
  <2> QED
    BY <1>3, <2>1 DEF IInv, TypeOK, Indices, Records
<1>7. Rotated' /\ BacklogIsBounded'
  <2>1. << >> # NoFile
    <3>1. << >> \in Seq(Records)
      OBVIOUS
    <3> QED
      BY <3>1
  <2> QED
    BY <1>1, <2>1 DEF Rotated, BacklogIsBounded, Exists
<1> QED
  BY <1>4, <1>5, <1>6, <1>7 DEF IInv

LEMMA IInvNext == IInv /\ [Next]_vars => IInv'
<1> SUFFICES ASSUME IInv, [Next]_vars PROVE IInv'
  OBVIOUS
<1> USE LoggerAssumption
<1>0. /\ written \in Nat /\ 0 \in Indices /\ i \in 0 .. (MaxRotateCount - 1)
      /\ MaxRotateCount - 1 >= 0
  BY DEF IInv, TypeOK, Indices
<1>1. CASE SetFile
  <2>1. CASE Exists(0) \/ disk' = disk
    <3>1. disk' = disk
      BY <1>1, <2>1 DEF SetFile, IInv, TypeOK, Exists
    <3>2. TypeOK' /\ (file' = "open" => Exists(0))
      <4>1. << >> # NoFile
        <5>1. << >> \in Seq(Records)
          OBVIOUS
        <5> QED
          BY <5>1
      <4>2. file' = "open" => Exists(0)
        BY <1>0, <1>1, <3>1, <4>1 DEF SetFile, IInv, TypeOK, Exists
      <4>3. TypeOK'
        BY <1>1, <3>1 DEF SetFile, IInv, TypeOK, Exists, parameters
      <4> QED
        BY <4>2, <4>3
    <3> QED
      BY <1>0, <1>1, <3>1, <3>2, Elsewhere DEF SetFile
  <2>2. CASE ~Exists(0) /\ disk' # disk
    <3>1. disk' = [disk EXCEPT ![0] = << >>]
      BY <1>1, <2>2 DEF SetFile
    <3>2. TypeOK'
      BY <1>0, <1>1, <3>1 DEF SetFile, IInv, TypeOK, Exists, parameters
    <3> QED
      BY <1>1, <2>2, <3>1, <3>2, CreatedKeepsIInv DEF SetFile
  <2> QED
    BY <2>1, <2>2
<1>2. CASE Writes
  <2>1. Exists(0) /\ Len(disk[0]) + 1 <= maxFileSize /\ maxFileSize \in FileSizes
    BY <1>2 DEF Writes, Fits, IInv, Rotated, TypeOK
  <2>2. written' \in 1 .. MaxWrites
    BY <1>0, <1>2 DEF Writes
  <2> QED
    BY <1>2, <2>1, <2>2, PutsKeepsIInv DEF Writes, Returns, parameters
<1>3. CASE WriteFails
  <2>1. TypeOK'
    BY <1>0, <1>3 DEF WriteFails, Returns, IInv, TypeOK, Exists, parameters
  <2> QED
    BY <1>0, <1>3, <2>1, Elsewhere DEF WriteFails, Returns
<1>4. CASE Rotates
  BY <1>4, RotatesKeepsIInv
<1>5. CASE RotatesNothing
  <2>1. TypeOK'
    BY <1>0, <1>5 DEF RotatesNothing, Returns, IInv, TypeOK, Exists, parameters
  <2> QED
    BY <1>0, <1>5, <2>1, Elsewhere DEF RotatesNothing, Returns
<1>6. CASE Removes
  BY <1>6, RemovesKeepsIInv
<1>7. CASE Renames
  BY <1>7, RenamesKeepsIInv
<1>8. CASE RotateFails
  <2>1. TypeOK'
    BY <1>0, <1>8 DEF RotateFails, Returns, IInv, TypeOK, Exists, parameters
  <2> QED
    BY <1>0, <1>8, <2>1, Elsewhere DEF RotateFails, Returns
<1>9. CASE Reopens
  <2>1. ~Exists(0)
    BY <1>0, <1>9 DEF Reopens, IInv, BacklogIsBounded
  <2>2. \E n \in FileSizes : 0 + 1 <= n
    BY DEF IInv, TypeOK
  <2>3. written' \in 1 .. MaxWrites
    BY <1>9 DEF Reopens, IInv, TypeOK, Rotated
  <2> QED
    BY <1>9, <2>1, <2>2, <2>3, PutsKeepsIInv DEF Reopens, Returns, parameters
<1>10. CASE ReopenFails
  <2>1. ~Exists(0)
    BY <1>0, <1>10 DEF ReopenFails, IInv, BacklogIsBounded
  <2>2. TypeOK'
    BY <1>0, <1>10 DEF ReopenFails, Returns, IInv, TypeOK, Exists, parameters
  <2>3. CASE disk' = disk
    BY <1>0, <1>10, <2>2, <2>3, Elsewhere DEF ReopenFails, Returns
  <2>4. CASE disk' = [disk EXCEPT ![0] = << >>]
    BY <1>10, <2>1, <2>2, <2>4, CreatedKeepsIInv DEF ReopenFails, Returns
  <2> QED
    BY <1>10, <2>3, <2>4 DEF ReopenFails
<1>11. CASE Restarts
  <2>1. TypeOK'
    BY <1>0, <1>11 DEF Restarts, Returns, IInv, TypeOK, Exists
  <2> QED
    BY <1>0, <1>11, <2>1, Elsewhere DEF Restarts, Returns
<1>12. CASE (\E n \in FileSizes : SetMaxLogSize(n)) \/ (\E n \in Indices : SetRotateCount(n))
  <2>1. TypeOK' /\ (file' = "open" => Exists(0))
    BY <1>0, <1>12 DEF SetMaxLogSize, SetRotateCount, IInv, TypeOK, Exists, Rotated, parameters
  <2> QED
    BY <1>0, <1>12, <2>1, Elsewhere DEF SetMaxLogSize, SetRotateCount
<1>13. CASE UNCHANGED vars
  BY <1>13 DEF vars, parameters, IInv, TypeOK, AgesInOrder, BacklogIsBounded, Numbered, Aged,
               IsAhead, Rotated, In, Exists
<1> QED
  BY <1>1, <1>2, <1>3, <1>4, <1>5, <1>6, <1>7, <1>8, <1>9, <1>10, <1>11, <1>12, <1>13
     DEF Next

THEOREM Inductive == Spec => []IInv
BY IInvInit, IInvNext, PTL DEF Spec

\* Every variable has its type, and no file outgrows the limits that were set.
THEOREM TypeCorrect == Spec => []TypeOK
BY Inductive, PTL DEF IInv

\* Whatever rotations are cut off and whatever the file system refuses, newer
\* records are in files of lower number, and each is in one place.
THEOREM FilesInOrder == Spec => []AgesInOrder
BY Inductive, PTL DEF IInv

\* A rotation that comes to its end has kept no more files than were asked for.
THEOREM BacklogBounded == Spec => []BacklogIsBounded
BY Inductive, PTL DEF IInv

\* Only Removes takes records away, and from a file whose number is not less
\* than that of the backlog files; a record there is old enough.
LEMMA StepOutlives ==
  ASSUME IInv, IInv', [Next]_vars, NEW k \in Indices, NEW r \in In(k),
         \A l \in Indices : r \notin In(l)'
  PROVE  begun - r.at > rotateCount
<1> USE LoggerAssumption
<1>1. CASE UNCHANGED disk
  BY <1>1 DEF In, Exists
<1>2. CASE disk' = [disk EXCEPT ![0] = << >>] /\ ~Exists(0)
  <2>1. \A l \in Indices : In(l)' = In(l)
    BY <1>2, CreatedIsEmpty
  <2> QED
    BY <2>1
<1>3. CASE Puts /\ pc \in {"idle", "open"} /\ (Writes \/ Reopens)
  <2>1. written' \in 1 .. MaxWrites
        /\ \E n \in FileSizes : (IF Exists(0) THEN Len(disk[0]) ELSE 0) + 1 <= n
    BY <1>3 DEF Writes, Reopens, Fits, IInv, Rotated, TypeOK, BacklogIsBounded, Indices
  <2>2. \A l \in Indices : \A s \in In(l) : s.no < written'
    <3>1. \A l \in Indices : \A s \in In(l) : s \in Records
      BY DEF In, ToSet, Exists, IInv, TypeOK
    <3> QED
      BY <1>3, <3>1 DEF Writes, Reopens, IInv, TypeOK, Numbered, Records
  <2>3. r \in In(k)'
    BY <1>3, <2>1, <2>2, PutsAppends
  <2> QED
    BY <2>3
<1>4. CASE Removes
  <2>1. PICK j \in Nat : j = i /\ j + 1 \in Indices
    BY DEF IInv, TypeOK, Indices
  <2>2. \A l \in Indices \ {j + 1} : In(l)' = In(l)
    BY <1>4, <2>1 DEF Removes, In, Exists, IInv, TypeOK
  <2>3. k = j + 1 /\ pc = "remove"
    BY <1>4, <2>2 DEF Removes
  <2>4. Exists(k)
    BY DEF In
  <2>5. k >= rotateCount
    BY <2>1, <2>3, <2>4 DEF IInv, Rotated, TypeOK, Indices
  <2>6. begun - r.at >= k + 1
    BY <2>1, <2>3 DEF IInv, Aged, IsAhead
  <2>7. r \in Records
    BY DEF In, ToSet, Exists, IInv, TypeOK
  <2> QED
    BY <2>5, <2>6, <2>7, SMTT(60) DEF IInv, TypeOK, Indices, Records
<1>5. CASE Renames
  <2>1. PICK j \in Nat : j = i /\ j \in Indices /\ j + 1 \in Indices
    BY DEF IInv, TypeOK, Indices
  <2>2. CASE disk' = Moved(j)
    <3>1. In(j + 1)' = In(j) /\ \A l \in Indices \ {j, j + 1} : In(l)' = In(l)
      BY <2>1, <2>2, MovedFile
    <3>2. In(j + 1) = {}
      BY <1>5, <2>1 DEF IInv, Rotated, Renames, In
    <3> QED
      BY <2>1, <3>1, <3>2
  <2>3. CASE disk' = disk
    BY <1>1, <2>3
  <2> QED
    BY <1>5, <2>1, <2>2, <2>3 DEF Renames
<1>6. CASE SetFile \/ ReopenFails
  <2>1. CASE Exists(0)
    <3>1. SetFile /\ disk' = disk
      BY <1>6, <2>1 DEF SetFile, ReopenFails, IInv, TypeOK, BacklogIsBounded, Exists, Indices
    <3> QED
      BY <1>1, <3>1
  <2>2. CASE ~Exists(0)
    BY <1>1, <1>2, <1>6, <2>2 DEF SetFile, ReopenFails
  <2> QED
    BY <2>1, <2>2
<1>7. CASE WriteFails \/ Rotates \/ RotatesNothing \/ RotateFails \/ Restarts
  BY <1>1, <1>7 DEF WriteFails, Rotates, RotatesNothing, RotateFails, Restarts
<1>8. CASE (\E n \in FileSizes : SetMaxLogSize(n)) \/ (\E n \in Indices : SetRotateCount(n))
  BY <1>1, <1>8 DEF SetMaxLogSize, SetRotateCount
<1>9. (Writes => pc = "idle" /\ Puts) /\ (Reopens => pc = "open" /\ Puts)
  BY DEF Writes, Reopens
<1>10. UNCHANGED vars => UNCHANGED disk
  BY DEF vars
<1> QED
  BY <1>1, <1>3, <1>4, <1>5, <1>6, <1>7, <1>8, <1>9, <1>10 DEF Next

\* A record is lost only to rotations, and to more of them than there are
\* backlog files.
THEOREM RecordsKept == Spec => RecordsOutliveRotations
<1>1. IInv /\ IInv' /\ [Next]_vars
        => [\A r \in UNION {In(k) : k \in Indices} :
              (\A k \in Indices : r \notin In(k)') => begun - r.at > rotateCount]_vars
  BY StepOutlives
<1> QED
  BY <1>1, Inductive, PTL DEF Spec, RecordsOutliveRotations

-----------------------------------------------------------------------------
(* The log is a journal                                                    *)

\* What leaves the records of each file in it, or moves them to another file,
\* leaves the journal alone.
LEMMA SameRecords ==
  ASSUME UNCHANGED disk \/ \A k \in Indices : In(k)' = In(k)
  PROVE  Kept' = Kept
BY DEF Kept, In, Exists

\* A record put down becomes the last of the journal.
LEMMA PutsIsPuts ==
  ASSUME IInv, Writes \/ Reopens
  PROVE  Log!Puts
<1> USE LoggerAssumption
<1>1. Puts /\ UNCHANGED <<rotateCount, begun>> /\ written' \in {written, written + 1}
  BY DEF Writes, Reopens, parameters
<1>2. written' \in 1 .. MaxWrites
  BY DEF Writes, Reopens, IInv, TypeOK, Rotated
<1>3. \E n \in FileSizes : (IF Exists(0) THEN Len(disk[0]) ELSE 0) + 1 <= n
  BY DEF Writes, Reopens, Fits, IInv, Rotated, TypeOK, BacklogIsBounded, Indices
<1>4. \A l \in Indices : \A s \in In(l) : s.no < written'
  <2>1. \A l \in Indices : \A s \in In(l) : s \in Records
    BY DEF In, ToSet, Exists, IInv, TypeOK
  <2> QED
    BY <2>1 DEF Writes, Reopens, IInv, TypeOK, Numbered, Records
<1>5. /\ In(0)' = In(0) \cup {NewRecord} /\ 0 \in Indices
      /\ \A k \in Indices \ {0} : In(k)' = In(k)
  BY <1>1, <1>2, <1>3, <1>4, PutsAppends DEF Indices
<1>6. Kept' = Kept \cup {NewRecord}
  BY <1>5 DEF Kept
<1>7. \A r \in Kept : r.no < written'
  BY <1>4 DEF Kept
<1> QED
  BY <1>1, <1>6, <1>7 DEF Log!Puts, NewRecord

\* The file that a rotation removes is the last one that exists, or there is none:
\* what goes is older than all that stays, and as old as it has to be.
LEMMA RemovesForgets ==
  ASSUME IInv, IInv', Removes
  PROVE  Log!Forgets
<1> USE LoggerAssumption
<1>1. PICK j \in Nat : j = i /\ j + 1 \in Indices
  BY DEF IInv, TypeOK, Indices
<1>2. /\ In(j + 1)' = {}
      /\ \A l \in Indices \ {j + 1} : In(l)' = In(l)
  BY <1>1 DEF Removes, In, Exists, IInv, TypeOK
<1>3. UNCHANGED <<rotateCount, written, begun>>
  BY DEF Removes, parameters
<1>4. Kept' \subseteq Kept
  BY <1>1, <1>2 DEF Kept
<1>5. ASSUME NEW r \in Kept \ Kept'
      PROVE  /\ begun > r.at + rotateCount
             /\ \A s \in Kept' : r.no < s.no
  <2>1. r \in In(j + 1) /\ \A l \in Indices : r \notin In(l)'
    BY <1>1, <1>2 DEF Kept
  <2>2. begun - r.at > rotateCount
    BY <1>1, <2>1, StepOutlives DEF Next
  <2>3. r \in Records /\ begun \in Nat /\ rotateCount \in Nat
    BY <1>1, <2>1 DEF In, ToSet, Exists, IInv, TypeOK, Indices
  <2>4. Exists(j + 1) /\ pc = "remove"
    BY <2>1 DEF In, Removes
  <2>5. j + 1 >= rotateCount
    BY <1>1, <2>3, <2>4 DEF IInv, Rotated
  <2>6. \A l \in Indices : l > j + 1 => In(l) = {}
    BY <1>1, <2>3, <2>4, <2>5 DEF IInv, Rotated, Indices, In
  <2>7. ASSUME NEW s \in Kept' PROVE r.no < s.no
    <3>1. PICK l \in Indices : s \in In(l)'
      BY DEF Kept
    <3>2. s \in In(l) /\ l < j + 1
      BY <1>1, <1>2, <2>6, <3>1 DEF Indices
    <3>3. s.no > r.no
      BY <1>1, <2>1, <3>2 DEF IInv, AgesInOrder
    <3>4. s \in Records
      BY <3>2 DEF In, ToSet, Exists, IInv, TypeOK
    <3> QED
      BY <2>3, <3>3, <3>4 DEF Records
  <2>8. begun > r.at + rotateCount
    BY <2>2, <2>3 DEF Records
  <2> QED
    BY <2>7, <2>8
<1> QED
  BY <1>3, <1>4, <1>5 DEF Log!Forgets

\* Every step is a step of the journal, or is invisible to it.
LEMMA JournalStep ==
  ASSUME IInv, IInv', [Next]_vars
  PROVE  [Log!Next]_<<Kept, rotateCount, written, begun>>
<1> USE LoggerAssumption DEF Log!Next
<1>1. CASE Writes \/ Reopens
  BY <1>1, PutsIsPuts
<1>2. CASE WriteFails \/ Rotates \/ RotatesNothing
  <2>1. UNCHANGED <<disk, rotateCount>> /\ written' = written + 1
        /\ begun' \in {begun, begun + 1}
    BY <1>2 DEF WriteFails, Rotates, RotatesNothing, parameters
  <2> QED
    BY <2>1, SameRecords DEF Log!Calls
<1>3. CASE Removes
  BY <1>3, RemovesForgets
<1>4. CASE Renames
  <2>1. PICK j \in Nat : j = i /\ j \in Indices /\ j + 1 \in Indices
    BY DEF IInv, TypeOK, Indices
  <2>2. CASE disk' = Moved(j)
    <3>1. /\ In(j + 1)' = In(j) /\ In(j)' = {}
          /\ \A l \in Indices \ {j, j + 1} : In(l)' = In(l)
      BY <2>1, <2>2, MovedFile
    <3>2. In(j + 1) = {}
      BY <1>4, <2>1 DEF IInv, Rotated, Renames, In
    <3>3. Kept' = Kept
      <4>1. \A r : (\E l \in Indices : r \in In(l)') <=> (\E l \in Indices : r \in In(l))
        BY <2>1, <3>1, <3>2
      <4> QED
        BY <4>1 DEF Kept
    <3> QED
      BY <1>4, <3>3 DEF Renames, parameters
  <2>3. CASE disk' = disk
    BY <1>4, <2>3, SameRecords DEF Renames, parameters
  <2> QED
    BY <1>4, <2>1, <2>2, <2>3 DEF Renames
<1>5. CASE SetFile \/ ReopenFails
  <2>1. UNCHANGED <<rotateCount, written, begun>>
    BY <1>5 DEF SetFile, ReopenFails, parameters
  <2>2. CASE disk' = disk
    BY <2>1, <2>2, SameRecords
  <2>3. CASE ~Exists(0) /\ disk' = [disk EXCEPT ![0] = << >>]
    <3>1. \A l \in Indices : In(l)' = In(l)
      BY <2>3, CreatedIsEmpty
    <3> QED
      BY <2>1, <3>1, SameRecords
  <2>4. Exists(0) => SetFile /\ disk' = disk
    BY <1>5 DEF SetFile, ReopenFails, IInv, TypeOK, BacklogIsBounded, Exists, Indices
  <2> QED
    BY <1>5, <2>2, <2>3, <2>4 DEF SetFile, ReopenFails
<1>6. CASE RotateFails \/ \E n \in FileSizes : SetMaxLogSize(n)
  BY <1>6, SameRecords DEF RotateFails, SetMaxLogSize, parameters
<1>7. CASE Restarts \/ \E n \in Indices : SetRotateCount(n)
  <2>1. UNCHANGED <<disk, written, begun>> /\ rotateCount' \in Nat
    BY <1>7 DEF Restarts, SetRotateCount, Indices
  <2> QED
    BY <2>1, SameRecords DEF Log!Configures
<1>8. CASE UNCHANGED vars
  BY <1>8, SameRecords DEF vars, parameters
<1> QED
  BY <1>1, <1>2, <1>3, <1>4, <1>5, <1>6, <1>7, <1>8 DEF Next

\* For any number of files, any limits and any number of calls, the files of a
\* logger taken together are a journal: no restart, no file that cannot be moved
\* and no change of the parameters loses a record that is young enough, one in
\* the midst of others that stay, or puts one out of its order.
THEOREM LogIsAJournal == Spec => IsJournal
<1>1. Init => Log!Init
  <2>1. Init => Kept = {} /\ rotateCount \in Nat
    BY DEF Init, Kept, In, Exists, Indices
  <2> QED
    BY <2>1 DEF Init, Log!Init
<1>2. IInv /\ IInv' /\ [Next]_vars => [Log!Next]_<<Kept, rotateCount, written, begun>>
  BY JournalStep
<1> QED
  BY <1>1, <1>2, Inductive, PTL DEF Spec, IsJournal, Log!Spec
=============================================================================
