------------------------------ MODULE EcImage ------------------------------
(***************************************************************************)
(* The process image of a slave (ethercat/ecmcEc.cpp, ecmcEcSlave.cpp,     *)
(* ecmcEcSyncManager.cpp, ecmcEcPdo.cpp, ecmcEcEntry.cpp, ecmcEcMemMap.cpp):*)
(* entries and memory maps are added by commands, get their place in the   *)
(* image when the configuration is applied, their address when the master  *)
(* is activated, and are then exchanged with the image in every cycle.     *)
(* Bits of the image are numbered, Byte of them make a byte.               *)
(***************************************************************************)
EXTENDS Integers, Sequences, SequencesExt

CONSTANTS Kinds,       \* what an entry may be: [name, sm, pdo, out, bits]
          MapKinds,    \* what a memory map may be: [start, bytes, out]
          MaxEntries,  \* bounds of this model: entries and memory maps that are added,
          MaxMaps,
          MaxOdd       \* and how many of them are refused, late or not updated

Byte == 4
Bytes(bits) == (bits + Byte - 1) \div Byte

VARIABLES entry,   \* the entry objects, as they were created
          list,    \* entryList_
          inUse,   \* entryListInUse_
          map,     \* ecMemMapArray_
          phase,   \* "config", "applied", "refused", "running", "undefined"
          image    \* what the cycle wrote to each bit of the outputs

imageVars == <<entry, list, inUse, map, phase, image>>

ImageInit ==
    /\ entry = <<>> /\ list = <<>> /\ inUse = <<>> /\ map = <<>>
    /\ phase = "config"
    /\ image = << >>

(***************************************************************************)
(* Finding things                                                          *)
(***************************************************************************)
\* Sync managers and, in them, PDOs stand in the order of their first entries.
SmAge(i) == Min({j \in DOMAIN entry : entry[j].sm = entry[i].sm})
PdoAge(i) == Min({j \in DOMAIN entry : entry[j].sm = entry[i].sm
                                           /\ entry[j].pdo = entry[i].pdo})

\* findEntry(): the first sync manager and PDO with that name, the last entry there.
FindEntry(name) ==
    LET named == {i \in DOMAIN entry : entry[i].name = name}
        sm == {i \in named : \A j \in named : SmAge(i) <= SmAge(j)}
        pdo == {i \in sm : \A j \in sm : PdoAge(i) <= PdoAge(j)}
    IN IF named = {} THEN {} ELSE {Max(pdo)}

\* findEntryIndex() of the slave: the first of the list.
FindEntryIndex(name) ==
    LET named == {i \in DOMAIN list : entry[list[i]].name = name}
    IN IF named = {} THEN {} ELSE {Min(named)}

(***************************************************************************)
(* The configuration                                                       *)
(***************************************************************************)
Odd == Cardinality({i \in DOMAIN entry : \/ entry[i].refusal # "none" \/ entry[i].late
                                        \/ i \notin Range(inUse) \/ ~entry[i].update})
       + Cardinality({m \in DOMAIN map : ~map[m].param \/ map[m].late})

Open == phase \in {"config", "applied", "running"}

\* The first entry of a sync manager decides on the direction, whatever the others say.
DirectionOf(k) ==
    LET same == {j \in DOMAIN entry : entry[j].sm = k.sm}
    IN IF same = {} THEN k.out ELSE entry[Min(same)].out

\* addEntry() of the master, the slave, the sync manager and the PDO.  The object stays
\* in its PDO when the master ("mapping") or asyn ("param") refuses it; only entries that
\* are used in realtime have a parameter.
AddEntry(k, realtime, refusal) ==
    /\ Open
    /\ Len(entry) < MaxEntries
    /\ (refusal = "none" /\ realtime /\ phase = "config") \/ Odd < MaxOdd
    /\ refusal = "param" => realtime
    /\ entry' = Append(entry, [name |-> k.name, sm |-> k.sm, pdo |-> k.pdo,
                               out |-> DirectionOf(k), bits |-> k.bits,
                               refusal |-> refusal, place |-> 0, registered |-> FALSE,
                               addressed |-> FALSE, update |-> TRUE,
                               late |-> phase # "config"])
    /\ LET id == Len(entry) + 1 IN
         /\ list' = IF refusal = "none" THEN Append(list, id) ELSE list
         /\ inUse' = IF refusal = "none" /\ realtime THEN Append(inUse, id) ELSE inUse
    /\ image' = << >>
    /\ UNCHANGED <<map, phase>>

\* addMemMap(): one that asyn refuses stays in the array.
AddMemMap(k, refused) ==
    /\ Open
    /\ Len(map) < MaxMaps
    /\ (~refused /\ phase # "running") \/ Odd < MaxOdd
    /\ \E start \in FindEntry(k.start) :
         map' = Append(map, [start |-> start, bytes |-> k.bytes, out |-> k.out,
                             param |-> ~refused, domain |-> 0, addressed |-> FALSE,
                             late |-> phase = "running"])
    /\ image' = << >>
    /\ UNCHANGED <<entry, list, inUse, phase>>

\* ecSetEntryUpdateInRealtime()
SetUpdateInRealtime(name, update) ==
    /\ Open
    /\ update \/ Odd < MaxOdd
    /\ \E i \in FindEntry(name) :
         entry' = [entry EXCEPT ![i].update = update]
    /\ image' = << >>
    /\ UNCHANGED <<list, inUse, map, phase>>

(***************************************************************************)
(* The master gives each sync manager the bytes its entries need, in the   *)
(* order in which they are registered; the entries follow one another.     *)
(***************************************************************************)
Mapped == {i \in DOMAIN entry : entry[i].refusal # "mapping"}
SumBits(ids) == FoldSet(LAMBDA i, n : entry[i].bits + n, 0, ids)
RegionOf(i) == {j \in Mapped : entry[j].sm = entry[i].sm}
Turn(i) == Min({k \in DOMAIN list : entry[list[k]].sm = entry[i].sm})

Before(i) == {j \in RegionOf(i) : \/ PdoAge(j) < PdoAge(i)
                                  \/ PdoAge(j) = PdoAge(i) /\ j < i}
Regions == {Min({j \in Range(list) : entry[j].sm = entry[i].sm}) : i \in Range(list)}
RegionBytes(ids) == FoldSet(LAMBDA i, n : Bytes(SumBits(RegionOf(i))) + n, 0, ids)

PlaceOf(i) ==
    Byte * RegionBytes({j \in Regions : Turn(j) < Turn(i)}) + SumBits(Before(i))

DomainBytes == RegionBytes(Regions)

\* ecApplyConfig(), compileRegInfo(): once (bound of this model).
ApplyConfig ==
    /\ phase = "config"
    /\ phase' = "applied"
    /\ entry' = [i \in DOMAIN entry |->
                    IF i \in Range(list)
                    THEN [entry[i] EXCEPT !.place = PlaceOf(i), !.registered = TRUE]
                    ELSE entry[i]]
    /\ map' = [m \in DOMAIN map |-> [map[m] EXCEPT !.domain = DomainBytes]]
    /\ UNCHANGED <<list, inUse, image>>

(***************************************************************************)
(* activate(), after checkReadyForRuntime(): the entries get the address   *)
(* of the domain and are validated one by one, then the memory maps.  One  *)
(* that was added after the configuration was applied has the offset 0,    *)
(* which is valid.                                                         *)
(***************************************************************************)
ByteOffset(i) == entry[i].place \div Byte
BitOffset(i) == entry[i].place % Byte

ValidEntry(i) == entry[i].bits > 0
ValidMap(m) ==
    /\ map[m].start \in Range(list)
    /\ ByteOffset(map[m].start) + map[m].bytes <= map[m].domain

Activate(answer) ==
    LET badEntry == {k \in DOMAIN list : ~ValidEntry(list[k])}
        badMap == {m \in DOMAIN map : ~ValidMap(m)}
        good == {list[k] : k \in {n \in DOMAIN list : \A b \in badEntry : n < b}}
    IN /\ phase = "applied"
       /\ list # <<>>
       /\ entry' = IF answer
                   THEN [i \in DOMAIN entry |-> [entry[i] EXCEPT !.addressed = i \in good]]
                   ELSE entry
       /\ map' = IF answer /\ badEntry = {}
                 THEN [m \in DOMAIN map |->
                         [map[m] EXCEPT !.addressed = \A b \in badMap : m < b]]
                 ELSE map
       /\ phase' = IF answer /\ badEntry = {} /\ badMap = {} THEN "running" ELSE "refused"
       /\ UNCHANGED <<list, inUse, image>>

(***************************************************************************)
(* The cycle                                                               *)
(***************************************************************************)
Span(first, count) == first..(first + count - 1)

\* The bits an entry owns; the bits it reads and those it writes.  What is less than a byte
\* is read at the bit offset, up to the end of the byte; only single bits are written there,
\* everything else at the beginning of the byte.
OwnBits(i) == Span(entry[i].place, entry[i].bits)
ReadBits(i) ==
    IF entry[i].bits < Byte
    THEN Span(Byte * ByteOffset(i) + BitOffset(i), entry[i].bits)
            \cap Span(Byte * ByteOffset(i), Byte)
    ELSE Span(Byte * ByteOffset(i), entry[i].bits)
\* Mutant: a bit is written to the beginning of its byte as well.
WrittenFromByte(i) == Span(Byte * ByteOffset(i), entry[i].bits)
WrittenBits(i) ==
    Span(Byte * ByteOffset(i) + (IF entry[i].bits = 1 THEN BitOffset(i) ELSE 0),
         entry[i].bits)
MapBits(m) == Span(Byte * ByteOffset(map[m].start), Byte * map[m].bytes)

Cycled == {k \in DOMAIN inUse : entry[inUse[k]].update}
Writing == {k \in Cycled : entry[inUse[k]].out}
MapsOut == {m \in DOMAIN map : map[m].out}

Bits == 0..(Byte * (DomainBytes + MaxEntries) - 1)

\* What a bit of the outputs is after the cycle: <<"entry", i, which of its bits>>, then
\* the memory maps, in the order in which they are written.
ByEntry(b) == {k \in Writing : b \in WrittenBits(inUse[k])}
ByMap(b) == {m \in MapsOut : b \in MapBits(m)}
Written(b) ==
    IF ByMap(b) # {} THEN <<"map", Max(ByMap(b)), 0>>
    ELSE IF ByEntry(b) # {}
    THEN LET i == inUse[Max(ByEntry(b))]
         IN <<"entry", i, b - Min(WrittenBits(i))>>
    ELSE <<"none", 0, 0>>

\* updateInputProcessImage() and updateOutProcessImage().  An entry or a memory map that
\* was added after the activation has no address, a refused input map no parameter.
Cycle ==
    LET wild == \/ \E k \in Cycled : ~entry[inUse[k]].addressed
                \/ \E m \in DOMAIN map : ~map[m].addressed \/ (~map[m].out /\ ~map[m].param)
    IN /\ phase = "running"
       /\ phase' = IF wild THEN "undefined" ELSE phase
       /\ image' = IF wild THEN << >> ELSE [b \in Bits |-> Written(b)]
       /\ UNCHANGED <<entry, list, inUse, map>>

Names == {k.name : k \in Kinds}

ImageNext ==
    \/ \E k \in Kinds, realtime \in BOOLEAN, refusal \in {"none", "mapping", "param"} :
         AddEntry(k, realtime, refusal)
    \/ \E k \in MapKinds, refused \in BOOLEAN : AddMemMap(k, refused)
    \/ \E name \in Names, update \in BOOLEAN : SetUpdateInRealtime(name, update)
    \/ ApplyConfig
    \/ \E answer \in BOOLEAN : Activate(answer)
    \/ Cycle

ImageSpec == ImageInit /\ [][ImageNext]_imageVars

(***************************************************************************)
(* Properties                                                              *)
(***************************************************************************)
\* Two things that the code gets wrong and that the property leaves out: a value of more
\* than a bit that does not begin with a byte is written to the beginning of its byte, and
\* what was added after the configuration was applied is taken to be in the first byte.
Misplaced(i) ==
    entry[i].late \/ (entry[i].bits > 1 /\ entry[i].place % Byte # 0)

\* Otherwise every bit of an output arrives in its own place of the image, and nothing
\* but a memory map takes it away again: whatever the order of the commands, the
\* entries that were refused in between and the names that are the same
\* (ecmcEc.cpp:324-383, ecmcEcEntry.cpp:398-483).
OutputsArrive ==
    phase = "running" /\ image # << >> =>
        \A k \in Writing :
            LET i == inUse[k]
                strays == UNION {WrittenBits(inUse[n]) : n \in {w \in Writing : Misplaced(inUse[w])}}
            IN ~Misplaced(i) =>
                \A b \in OwnBits(i) \ strays :
                    \/ ByMap(b) # {}
                    \/ image[b] = <<"entry", i, b - entry[i].place>>

\* What the code cannot read: what was added late, less than a byte that goes on in the
\* next one (its bits there are taken to be 0), and more that does not begin with a byte.
Unreadable(i) ==
    \/ entry[i].late
    \/ IF entry[i].bits < Byte THEN BitOffset(i) + entry[i].bits > Byte ELSE BitOffset(i) # 0

\* Every other input reads its own bits (ecmcEcEntry.cpp:311-396); and no memory map
\* reaches past the domain that was there when the configuration was applied.
InputsAndMapsInside ==
    phase = "running" =>
        /\ \A i \in Range(list) :
              ~entry[i].out /\ ~Unreadable(i) /\ entry[i].addressed => ReadBits(i) = OwnBits(i)
        /\ \A m \in DOMAIN map : map[m].addressed =>
              MapBits(m) \subseteq 0..(Byte * map[m].domain - 1)

\* The index that a name is given leads to the entry that the name itself leads to, when
\* the name is used once.
IndexAgrees ==
    \A name \in Names :
        Cardinality({i \in DOMAIN entry : entry[i].name = name}) = 1 =>
            \A k \in FindEntryIndex(name) : FindEntry(name) = {list[k]}

ImageSafe == OutputsArrive /\ InputsAndMapsInside /\ IndexAgrees
============================================================================
