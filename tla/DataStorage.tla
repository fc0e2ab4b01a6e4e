---------------------------- MODULE DataStorage ----------------------------
(***************************************************************************)
(* The storage that recorders, PLCs, records and commands append values to *)
(* (misc/ecmcDataStorage.cpp and its commands in misc/ecmcMisc.cpp).  A    *)
(* value is the number of the append that brought it.                      *)
(***************************************************************************)
EXTENDS Integers, Sequences, SequencesExt, FiniteSets

CONSTANTS Sizes,        \* sizes of the storage
          MaxAppends    \* bound of this model: values appended to the storage

VARIABLES storage,      \* members of ecmcDataStorage
          stored        \* history: values appended since the buffer was cleared, and
                        \* whether the index or a cell was set meanwhile

storageVars == <<storage, stored>>

BufferTypes == {"normal", "ring", "fifo"}

NoValue == 0

Cleared(size) == [i \in 1..size |-> NoValue]

StorageInit ==
    /\ \E size \in Sizes, type \in BufferTypes :
          storage = [size |-> size, type |-> type, index |-> 0, count |-> 0,
                     cells |-> Cleared(size)]
    /\ stored = [appended |-> 0, edited |-> FALSE]

Counted(s, n) == Min({s.count + n, s.size})

\* The rest of a full buffer is discarded.
AppendNormal(s, values) ==
    LET n == Min({Len(values), s.size - s.index})
    IN [s EXCEPT !.index = @ + n, !.count = Counted(s, n),
                 !.cells = [i \in 1..s.size |->
                     IF i \in s.index + 1 .. s.index + n THEN values[i - s.index]
                     ELSE s.cells[i]]]

\* Mutant: the last value is forgotten in the index.
AppendRingShort(s, values) ==
    LET n == Min({Len(values), s.size - s.index})
        rest == Len(values) - n
    IN [s EXCEPT !.index = IF rest > 0 THEN rest - 1 ELSE @ + n, !.count = Counted(s, n),
                 !.cells = [i \in 1..s.size |->
                     IF i \in s.index + 1 .. s.index + n THEN values[i - s.index]
                     ELSE IF i <= rest THEN values[n + i] ELSE s.cells[i]]]

\* What does not fit is written from the beginning, and is not counted.
AppendRing(s, values) ==
    LET n == Min({Len(values), s.size - s.index})
        rest == Len(values) - n
    IN [s EXCEPT !.index = IF rest > 0 THEN rest ELSE @ + n, !.count = Counted(s, n),
                 !.cells = [i \in 1..s.size |->
                     IF i \in s.index + 1 .. s.index + n THEN values[i - s.index]
                     ELSE IF i <= rest THEN values[n + i] ELSE s.cells[i]]]

\* Old data moves to the left.
AppendFifo(s, values) ==
    [s EXCEPT !.count = Counted(s, Len(values)),
              !.cells = SubSeq(s.cells \o values, Len(values) + 1, Len(values) + s.size)]

Fits(s, n) == n <= s.size

\* setBufferSize() keeps the index: behind the end of the buffer the copies of a normal
\* and of a ring buffer have no defined effect.  There the model stops.
Defined(s) == s.type = "fifo" \/ s.index <= s.size

(***************************************************************************)
(* Commands; an append that does not fit is refused.                       *)
(***************************************************************************)
Appended(s, values) ==
    CASE s.type = "normal" -> AppendNormal(s, values)
      [] s.type = "ring" -> AppendRing(s, values)
      [] s.type = "fifo" -> AppendFifo(s, values)

Numbers(n) == [i \in 1..n |-> stored.appended + i]

AppendData(n) ==
    /\ Fits(storage, n) /\ Defined(storage) /\ stored.appended + n <= MaxAppends
    /\ storage' = Appended(storage, Numbers(n))
    /\ stored' = [stored EXCEPT !.appended = @ + n]

\* The data starts at the beginning, what has been counted stays counted.  The index goes
\* there also when the data is too long and refused.
SetData(n) ==
    /\ stored.appended + n <= MaxAppends
    /\ LET start == [storage EXCEPT !.index = 0]
       IN storage' = IF Fits(storage, n) THEN Appended(start, Numbers(n)) ELSE start
    /\ stored' = [appended |-> stored.appended + IF Fits(storage, n) THEN n ELSE 0,
                  edited |-> stored.edited \/ stored.appended > 0]

\* A PLC sets the value at an index.
SetDataElement(i) ==
    /\ i \in 1..storage.size
    /\ storage' = [storage EXCEPT !.cells[i] = NoValue]
    /\ stored' = [stored EXCEPT !.edited = TRUE]

SetCurrentPosition(position) ==
    /\ position <= storage.size
    /\ storage' = [storage EXCEPT !.index = position]
    /\ stored' = [stored EXCEPT !.edited = TRUE]

ClearBuffer ==
    /\ storage' = [storage EXCEPT !.cells = Cleared(storage.size), !.index = 0, !.count = 0]
    /\ stored' = [appended |-> 0, edited |-> FALSE]

\* The new buffer is not written, and the index stays.
SetBufferSize(size) ==
    /\ storage' = [storage EXCEPT !.cells = Cleared(size), !.count = 0, !.size = size]
    /\ stored' = [appended |-> 0, edited |-> storage.index # 0]

StorageNext ==
    \/ \E n \in 1..2 : AppendData(n)
    \/ \E n \in 1..3 : SetData(n)
    \/ \E i \in 1..Max(Sizes) : SetDataElement(i)
    \/ \E position \in 0..Max(Sizes) : SetCurrentPosition(position)
    \/ ClearBuffer
    \/ \E size \in Sizes : SetBufferSize(size)

StorageSpec == StorageInit /\ [][StorageNext]_storageVars

(***************************************************************************)
(* Properties                                                              *)
(***************************************************************************)
\* The cells that getAvg(), getMin() and getMax() look at.
CountedCells(s) ==
    IF s.type = "fifo" THEN {s.cells[i] : i \in s.size - s.count + 1 .. s.size}
    ELSE {s.cells[i] : i \in 1 .. s.count}

\* The values that the storage should have kept: a normal buffer the first, the others
\* the last.
Kept(s, appended) ==
    LET n == Min({appended, s.size})
    IN IF s.type = "normal" THEN 1..n ELSE appended - n + 1 .. appended

\* As long as nobody has set the index or a cell, the average, the least and the greatest value
\* are those of the values that recorders and commands have appended, of all that still
\* are in the buffer and of nothing else, whoever appended how many at a time
\* (ecmcDataStorage.cpp:232-331, 581-656).
StatisticsAreOfData ==
    ~stored.edited => CountedCells(storage) = Kept(storage, stored.appended)
=============================================================================
