------------------------------- MODULE EcSdo -------------------------------
(***************************************************************************)
(* The SDO commands of the configuration (ethercat/ecmcEcSDO.cpp): values  *)
(* that the master writes whenever the slave starts, and direct downloads  *)
(* and uploads.  Data is scaled: a byte has the values 0 and 1, the object *)
(* has two of them, and the code's 4 bytes are MaxSize.                    *)
(***************************************************************************)
EXTENDS Integers, Sequences, SequencesExt

CONSTANTS Texts,       \* texts that a command may bring, sequences of bytes and Blank
          MaxConfig    \* bound of this model: length of the list of startup values

MaxSize == 2
Blank == -1
Sizes == 0..(MaxSize + 1)
Values == 0..(2^MaxSize - 1)
Cut(v, size) == v % 2^size

VARIABLES object,     \* the value in the slave
          startup,    \* what the master writes when the slave starts, in this order
          result      \* of the last command: which, success, value, whether it was read

esdoVars == <<object, startup, result>>

Command(name, ok, value) == [name |-> name, ok |-> ok, value |-> value, read |-> TRUE]

SdoInit ==
    /\ object \in Values
    /\ startup = <<>>
    /\ result = Command("none", FALSE, 0)

(***************************************************************************)
(* The parser of a buffer: from every place that follows a blank it takes  *)
(* the next number, so two blanks yield the number after them twice.       *)
(***************************************************************************)
NumberAt(text, place) ==
    LET later == {i \in place..Len(text) : text[i] # Blank}
    IN IF later = {} THEN <<>> ELSE <<text[CHOOSE i \in later : \A j \in later : i <= j]>>

Starts(text) == {1} \cup {i \in 2..Len(text) : text[i] = Blank}

Bytes(text) ==
    IF text = <<>> THEN <<>>
    ELSE FlattenSeq([k \in 1..Len(text) |->
                        IF k \in Starts(text) THEN NumberAt(text, k) ELSE <<>>])

\* The bytes are sent in this order, the lowest first.
Number(bytes) == FoldRight(LAMBDA b, n : 2 * n + b, bytes, 0)

(***************************************************************************)
(* Actions                                                                 *)
(***************************************************************************)
\* addSdoConfig(): the sizes 1, 2 and 4 of the code; another one that is not too
\* large adds nothing and is a success.
AddSdo(v, size, accepted) ==
    LET known == size \in 1..MaxSize
        ok == size <= MaxSize /\ (known => accepted)
    IN /\ known /\ accepted => Len(startup) < MaxConfig
       /\ startup' = IF known /\ accepted THEN Append(startup, [value |-> Cut(v, size),
                                                                size |-> size])
                     ELSE startup
       /\ result' = Command("add", ok, v)
       /\ UNCHANGED object

\* addSdoConfigBuffer() and addWriteComplete().
AddBuffer(text, size, accepted) ==
    LET bytes == Bytes(text)
        ok == bytes # <<>> /\ Len(bytes) = size /\ accepted
    IN /\ ok => Len(startup) < MaxConfig
       /\ Len(bytes) <= MaxSize
       /\ startup' = IF ok THEN Append(startup, [value |-> Number(bytes), size |-> size])
                     ELSE startup
       /\ result' = Command("add_buffer", ok, Number(bytes))
       /\ UNCHANGED object

\* Writing "size" bytes leaves the others of the object alone.
Write(old, v, size) == Cut(v, size) + (old - Cut(old, size))

\* write(): the abort code of a slave that refuses is printed and not returned.
Download(v, size, answer) ==
    /\ object' = IF size <= MaxSize /\ answer = "done" THEN Write(object, v, size)
                 ELSE object
    /\ result' = Command("write", size <= MaxSize /\ answer # "failed", v)
    /\ UNCHANGED startup

\* read() always succeeds; of a failed upload the value is 0.
Uploaded(v, answer) == IF answer = "done" THEN v ELSE 0

Upload(answer) ==
    /\ result' = [Command("read", TRUE, Uploaded(object, answer))
                  EXCEPT !.read = answer = "done"]
    /\ UNCHANGED <<object, startup>>

\* ecVerifySdo() compares, and writeAndVerify() writes before.
Verify(v, answer) ==
    /\ result' = [Command("verify", Uploaded(object, answer) = v, v)
                  EXCEPT !.read = answer = "done"]
    /\ UNCHANGED <<object, startup>>

\* Mutant: only the bytes that were written are compared.
WriteAndVerifyBytes(v, size, answer, readBack) ==
    LET stored == IF answer = "done" THEN Write(object, v, size) ELSE object
        fits == size <= MaxSize
    IN /\ object' = IF fits THEN stored ELSE object
       /\ result' = [Command("verify", fits /\ answer # "failed"
                             /\ Cut(Uploaded(stored, readBack), size) = Cut(v, size), v)
                     EXCEPT !.read = readBack = "done"]
       /\ UNCHANGED startup

WriteAndVerify(v, size, answer, readBack) ==
    LET stored == IF answer = "done" THEN Write(object, v, size) ELSE object
        fits == size <= MaxSize
    IN /\ object' = IF fits THEN stored ELSE object
       /\ result' = [Command("verify", fits /\ answer # "failed"
                                            /\ Uploaded(stored, readBack) = v, v)
                     EXCEPT !.read = readBack = "done"]
       /\ UNCHANGED startup

\* The slave starts: the master writes the list, whatever was written before is gone.
SlaveStarts ==
    /\ object' = FoldLeft(LAMBDA old, c : Write(old, c.value, c.size), 0, startup)
    /\ result' = Command("start", TRUE, 0)
    /\ UNCHANGED startup

Answers == {"done", "failed", "aborted"}

SdoNext ==
    \/ \E v \in Values, size \in Sizes, accepted \in BOOLEAN : AddSdo(v, size, accepted)
    \/ \E text \in Texts, size \in Sizes, accepted \in BOOLEAN :
         AddBuffer(text, size, accepted)
    \/ \E v \in Values, size \in Sizes, answer \in Answers : Download(v, size, answer)
    \/ \E answer \in Answers : Upload(answer)
    \/ \E v \in Values, answer \in Answers : Verify(v, answer)
    \/ \E v \in Values, size \in Sizes, answer \in Answers, readBack \in Answers :
         WriteAndVerify(v, size, answer, readBack)
    \/ SlaveStarts

SdoSpec == SdoInit /\ [][SdoNext]_esdoVars

(***************************************************************************)
(* Properties                                                              *)
(***************************************************************************)
\* A value that was verified is in the slave, whatever the slave answered and however many
\* bytes were written - except that a failed upload counts as a 0, so that a 0 is verified
\* by a slave that does not answer (ecmcEcSDO.cpp:300, ecmcEthercat.cpp:571).
VerifiedIsStored ==
    result.name = "verify" /\ result.ok =>
        object = result.value \/ (~result.read /\ result.value = 0)
=============================================================================
