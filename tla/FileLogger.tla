----------------------------- MODULE FileLogger -----------------------------
(***************************************************************************)
(* ccxx::FileLogger: records are appended to name.log (file 0 here) until  *)
(* it is full; then name.8.log is renamed to name.9.log, and so on down to *)
(* name.log, as far as there are to be backlog files.  Each call is made   *)
(* under the lock of Log, so there is one at a time; but the program may   *)
(* die, and the file system may refuse, between any two steps of it.       *)
(*                                                                         *)
(* A record has its number and the count of rotations begun before it was  *)
(* written; every record has size 1, and write() puts it down whole.       *)
(***************************************************************************)
EXTENDS SequencesExt, Naturals

CONSTANTS MaxRotateCount, \* MAX_ROTATE_COUNT
          FileSizes,      \* values of _maxFileSize (a bound)
          MaxWrites,      \* calls of write() (a bound)
          NoFile          \* not a file

Records == [no : 1 .. MaxWrites, at : 0 .. MaxWrites]

ASSUME LoggerAssumption ==
  /\ MaxRotateCount \in Nat \ {0} /\ FileSizes \subseteq Nat \ {0}
  /\ MaxWrites \in Nat /\ NoFile \notin Seq(Records)

VARIABLES
  disk,                        \* what is in each file
  file,                        \* _file: "none", "open" or "closed"
  rotateCount, maxFileSize,    \* _rotateCount, _maxFileSize
  pc, i,                       \* where write() and _rotate() are
  written, begun               \* calls of write(), and rotations, so far

vars == <<disk, file, rotateCount, maxFileSize, pc, i, written, begun>>
parameters == <<rotateCount, maxFileSize>>

Indices == 0 .. MaxRotateCount

Exists(k) == disk[k] # NoFile

Init ==
  /\ disk = [k \in Indices |-> NoFile] /\ file = "none"
  /\ rotateCount \in Indices /\ maxFileSize \in FileSizes
  /\ pc = "idle" /\ i = 0 /\ written = 0 /\ begun = 0

\* setFile(): the file is opened, or created; or that fails.
SetFile ==
  /\ pc = "idle"
  /\ \/ /\ file' = "open"
        /\ disk' = [disk EXCEPT ![0] = IF Exists(0) THEN @ ELSE << >>]
     \/ file' = "none" /\ UNCHANGED disk
  /\ UNCHANGED <<parameters, pc, i, written, begun>>

SetMaxLogSize(n) ==
  /\ pc = "idle" /\ maxFileSize' = n
  /\ UNCHANGED <<disk, file, rotateCount, pc, i, written, begun>>

SetRotateCount(n) ==
  /\ pc = "idle" /\ rotateCount' = n
  /\ UNCHANGED <<disk, file, maxFileSize, pc, i, written, begun>>

-----------------------------------------------------------------------------
(* write(buffer) and _rotate(), with the steps between which they may be   *)
(* cut off                                                                 *)

\* The call ends; f is what becomes of _file.
Returns(f) == pc' = "idle" /\ file' = f /\ i' = 0

\* file->write(buffer)
Puts == disk' = [disk EXCEPT ![0] = Append(IF Exists(0) THEN @ ELSE << >>,
                                           [no |-> written', at |-> begun])]

\* Mutant of Fits: the size of the record is forgotten.
FitsBarely == Len(disk[0]) <= maxFileSize

Fits == Len(disk[0]) + 1 <= maxFileSize

\* seek(), and file->write() if there is room
Writes ==
  /\ pc = "idle" /\ file = "open" /\ written < MaxWrites /\ Fits
  /\ written' = written + 1
  /\ Puts /\ Returns("open")
  /\ UNCHANGED <<parameters, begun>>

\* seek() or file->write() throws: the former does when the file was left closed.
WriteFails ==
  /\ pc = "idle" /\ file # "none" /\ written < MaxWrites
  /\ written' = written + 1
  /\ Returns("none")
  /\ UNCHANGED <<disk, parameters, begun>>

\* Mutant of First: from the first file that is kept.
FirstKept == rotateCount - 1

First == MaxRotateCount - 1

\* There is no room: the file is closed, and _rotate() begins.
Rotates ==
  /\ pc = "idle" /\ file = "open" /\ written < MaxWrites /\ ~Fits
  /\ rotateCount > 0
  /\ written' = written + 1 /\ begun' = begun + 1
  /\ file' = "closed" /\ pc' = "remove" /\ i' = First
  /\ UNCHANGED <<disk, parameters>>

\* Without backlog files _rotate() removes `name', not name.log: there is no
\* such file, and write() returns with the file closed.
RotatesNothing ==
  /\ pc = "idle" /\ file = "open" /\ written < MaxWrites /\ ~Fits
  /\ rotateCount = 0
  /\ written' = written + 1
  /\ Returns("closed")
  /\ UNCHANGED <<disk, parameters, begun>>

\* File::remove(newPath), when it exists
Removes ==
  /\ pc = "remove" /\ pc' = "rename"
  /\ disk' = [disk EXCEPT ![i + 1] = NoFile]
  /\ UNCHANGED <<file, parameters, i, written, begun>>

\* Mutant of IsKept: one file less is kept.
IsKeptShort(k) == k + 1 < rotateCount

IsKept(k) == k < rotateCount

\* Mutant of Moved: the file is copied.
Copied(k) == [disk EXCEPT ![k + 1] = disk[k]]

Moved(k) == [disk EXCEPT ![k + 1] = disk[k], ![k] = NoFile]

\* File::rename(oldPath, newPath), when oldPath is one to be kept and exists
Renames ==
  /\ pc = "rename"
  /\ disk' = IF IsKept(i) THEN Moved(i) ELSE disk
  /\ IF i > 0 THEN pc' = "remove" /\ i' = i - 1 ELSE pc' = "open" /\ UNCHANGED i
  /\ UNCHANGED <<file, parameters, written, begun>>

\* One of them fails: write() returns with the file closed.
RotateFails ==
  /\ \/ pc = "remove" /\ Exists(i + 1)
     \/ pc = "rename" /\ IsKept(i) /\ Exists(i)
  /\ Returns("closed")
  /\ UNCHANGED <<disk, parameters, written, begun>>

\* openFile() creates the file, and file->write()
Reopens ==
  /\ pc = "open" /\ UNCHANGED written
  /\ Puts /\ Returns("open")
  /\ UNCHANGED <<parameters, begun>>

\* openFile() or file->write() throws; the former before there is a file.
ReopenFails ==
  /\ pc = "open"
  /\ disk' \in {disk, [disk EXCEPT ![0] = << >>]}
  /\ Returns("none")
  /\ UNCHANGED <<parameters, written, begun>>

\* The program ends, perhaps in the middle of a call, and is started again.
Restarts ==
  /\ Returns("none")
  /\ rotateCount' \in Indices /\ maxFileSize' \in FileSizes
  /\ UNCHANGED <<disk, written, begun>>

Next ==
  \/ SetFile \/ Writes \/ WriteFails \/ Rotates \/ RotatesNothing \/ Removes
  \/ Renames \/ RotateFails \/ Reopens \/ ReopenFails \/ Restarts
  \/ \E n \in FileSizes : SetMaxLogSize(n)
  \/ \E n \in Indices : SetRotateCount(n)

Spec == Init /\ [][Next]_vars

-----------------------------------------------------------------------------
(* Properties                                                              *)

\* Every variable has its type, and no file is longer than a limit ever set.
TypeOK ==
  /\ disk \in [Indices -> Seq(Records) \cup {NoFile}]
  /\ \A k \in Indices : Exists(k) => \E n \in FileSizes : Len(disk[k]) <= n
  /\ file \in {"none", "open", "closed"}
  /\ rotateCount \in Indices /\ maxFileSize \in FileSizes
  /\ pc \in {"idle", "remove", "rename", "open"} /\ i \in 0 .. (MaxRotateCount - 1)
  /\ written \in 0 .. MaxWrites /\ begun \in 0 .. written

In(k) == IF Exists(k) THEN ToSet(disk[k]) ELSE {}

\* The files are in the order of their age, and so are the records in each; no
\* record is in two of them.  Neither a rotation that is cut off half-way, nor
\* the next one, which starts from the gap it left, mixes them up.
AgesInOrder ==
  /\ \A k \in Indices : Exists(k) =>
       \A m, n \in DOMAIN disk[k] : m < n => disk[k][m].no < disk[k][n].no
  /\ \A k, l \in Indices : k < l => \A r \in In(k), s \in In(l) : r.no > s.no

\* A rotation that comes to its end leaves a place for the new file and no more
\* backlog files than were asked for, although the number may have been lowered.
BacklogIsBounded ==
  pc = "open" => \A k \in Indices : Exists(k) => k \in 1 .. rotateCount

\* A record that was written goes only when more rotations have begun since than
\* there are backlog files, whether they came to their end or not.
RecordsOutliveRotations ==
  [][\A r \in UNION {In(k) : k \in Indices} :
       (\A k \in Indices : r \notin In(k)') => begun - r.at > rotateCount]_vars

\* The log as a whole is a journal: what is in its files, taken together, is
\* added to at its end only and shortened from its beginning only, by records
\* that saw more rotations begin than there are backlog files, whether these came
\* to their end or not.
Kept == UNION {In(k) : k \in Indices}
Log == INSTANCE Journal WITH kept <- Kept, backlog <- rotateCount
IsJournal == Log!Spec
=============================================================================
