---------------------------- MODULE FolderBundle ----------------------------
(***************************************************************************)
(* A folder as one tar stream: doBulkDownload() extracts what a `tar c' of *)
(* the server writes (runCommandToFile, extractTarFile), doBulkUpload()    *)
(* hands what createTarFile() writes to a `tar x' there.  A stream is a    *)
(* sequence of units of half a block, so that a header, which fills a      *)
(* block, may be cut in two and a file may end within a block.             *)
(***************************************************************************)
EXTENDS Integers, Sequences

CONSTANTS
    Files,      \* members of the folder
    LongNames,  \* those whose name does not fit a header
    MaxUnits,   \* bound: units of a file
    OctalLimit  \* the first size that is too long for the field of a header

VARIABLES
    down,      \* doBulkDownload() or doBulkUpload()
    format,    \* of the writer's archives: "gnu" or "pax"
    todo,      \* files that are not in the archive yet
    archive,   \* the stream as it is written
    temp,      \* what of it has reached the other end
    at,        \* units that its reader has read
    longName,  \* pendingLongName
    out,       \* the files extracted
    step,      \* "write", "carry", "read" or "done"
    outcome,   \* ok
    source,    \* history: per file, the data it is to have at the other end
    misfit,    \* history: a header tells another size than its file has
    cut        \* history: the channel broke and was taken for ended

writerVars == <<down, format, todo, archive, source, misfit>>
readerVars == <<at, longName, out>>
bundleVars == <<writerVars, temp, cut, readerVars, step, outcome>>

None == "none"
Prefix == "first hundred bytes"  \* what a header holds of a long name
NoFiles == [f \in {} |-> << >>]
Placed(files, f, data) == [g \in DOMAIN files \union {f} |-> IF g = f THEN data ELSE files[g]]

Zero == [kind |-> "zero"]
Zeros(n) == [i \in 1 .. n |-> Zero]
Header(type, name, size) ==
    <<[kind |-> "header", type |-> type, name |-> name, size |-> size], [kind |-> "rest"]>>

\* A block has two units.
Padding(size) == size % 2

Init ==
    /\ down \in BOOLEAN /\ format \in {"gnu", "pax"} /\ (~down => format = "gnu")
    /\ todo = Files /\ archive = Header("5", None, 0) /\ source = NoFiles /\ misfit = FALSE
    /\ temp = << >> /\ cut = FALSE /\ at = 0 /\ longName = None /\ out = NoFiles
    /\ step = "write" /\ outcome = None

Ends(ok) == step' = "done" /\ outcome' = IF ok THEN "done" ELSE "failed"

-----------------------------------------------------------------------------
(* The archive. *)

\* putOctal(): snprintf() drops the last digit that the field has no room for.
Octal(size) == IF size < OctalLimit THEN size ELSE size \div 8

\* A name that does not fit is the data of an entry before.
NameEntry(type, f) == Header(type, None, 1) \o <<[kind |-> "name", name |-> f], Zero>>
EntryHeader(f, size) ==
    IF f \in LongNames
    THEN NameEntry(IF format = "gnu" THEN "L" ELSE "x", f) \o Header("0", Prefix, size)
    ELSE Header("0", f, size)

\* A file of text, or of zeros: a hole, the image of a disk.
Contents(f, n) == {Zeros(n), [i \in 1 .. n |-> [kind |-> "data", file |-> f, unit |-> i]]}

\* createTarFile(): the size is that of the file as it is opened.  What there is
\* to read then may be less, which is filled up, or more within the last buffer.
FileData(read, size) ==
    IF size = 0 THEN << >> ELSE read \o Zeros(IF Len(read) < size THEN size - Len(read) ELSE 0)

Write(f, size, field, data) ==
    /\ archive' = archive \o EntryHeader(f, field) \o data \o Zeros(Padding(size))
    /\ source' = Placed(source, f, SubSeq(data, 1, size))
    /\ misfit' = (misfit \/ field # Len(data))
    /\ todo' = todo \ {f}
    /\ UNCHANGED <<down, format, temp, cut, readerVars, step, outcome>>

AddFile ==
    /\ step = "write" /\ ~down
    /\ \E f \in todo, size, now \in 0 .. MaxUnits : \E read \in Contents(f, now) :
          Write(f, size, Octal(size), FileData(read, size))

CreateFails ==
    /\ step = "write" /\ ~down /\ Ends(FALSE)
    /\ UNCHANGED <<writerVars, temp, cut, readerVars>>

\* The server's tar, which writes a size that is too long in base 256.
ServerAddsFile ==
    /\ step = "write" /\ down
    /\ \E f \in todo, size \in 0 .. MaxUnits : \E data \in Contents(f, size) :
          Write(f, size, size, data)

CloseArchive ==
    /\ step = "write" /\ todo = {} /\ archive' = archive \o Zeros(4) /\ step' = "carry"
    /\ UNCHANGED <<down, format, todo, source, misfit, temp, cut, readerVars, outcome>>

-----------------------------------------------------------------------------
(* The channel of the command. *)

Carries(units, broken) ==
    /\ temp' = SubSeq(archive, 1, units) /\ cut' = broken /\ step' = "read"
    /\ UNCHANGED <<writerVars, readerVars, outcome>>

\* runCommandToFile() and runCommandFromFile() to the end of the stream.
Carry == step = "carry" /\ Carries(Len(archive), FALSE)

\* A read that fails ends the loop of runCommandToFile() as the end of the stream
\* does.  In runCommandFromFile() what was written last may be lost with the
\* connection.  The status of a command that told none is 0.
ConnectionBreaks ==
    step = "carry" /\ \E units \in 0 .. Len(archive) - 1 : Carries(units, TRUE)

\* A cancel, a write that fails, a command whose status is not 0.
CarryFails ==
    /\ step = "carry" /\ Ends(FALSE)
    /\ UNCHANGED <<writerVars, temp, cut, readerVars>>

-----------------------------------------------------------------------------
(* Reading: extractTarFile(), or the server's tar, whose failure is known from *)
(* its status.                                                                *)

Left == Len(temp) - at
Stops(ok) == Ends(ok) /\ UNCHANGED <<writerVars, temp, cut, at, longName>>
ReadOk(ok) == Stops(ok \/ (~down /\ cut))

\* The padding at the end of a cut stream is not missed.
Forward(units) == at' = IF at + units < Len(temp) THEN at + units ELSE Len(temp)

\* A file as far as it has been read.
Extracted(units) ==
    LET name == IF longName # None THEN longName ELSE temp[at + 1].name
    IN  Placed(out, name, SubSeq(temp, at + 3, at + 2 + units))

EndOfArchive ==
    /\ step = "read" /\ ReadOk(TRUE) /\ out' = out
    /\ \/ Left = 0
       \/ Left > 1 /\ temp[at + 1] = Zero /\ temp[at + 2] = Zero

AtHeader(types) ==
    /\ step = "read" /\ Left > 1 /\ temp[at + 1].kind = "header"
    /\ temp[at + 1].type \in types

\* What is passed over is read with its padding, which may else be missing.
Needed(entry) == entry.size + (IF entry.type \in {"0", "L"} THEN 0 ELSE Padding(entry.size))

\* Data that is cut short, a half header, or for a tar that compares the
\* checksum something that is no header.
Broken ==
    \/ Left = 1
    \/ Left > 1 /\ \/ temp[at + 1].kind # "header" /\ <<temp[at + 1], temp[at + 2]>> # Zeros(2)
                   \/ temp[at + 1].kind = "header" /\ Left < 2 + Needed(temp[at + 1])

\* The file whose data end early stays as far as it came.
ReadFails ==
    /\ step = "read" /\ Broken /\ ReadOk(FALSE)
    /\ out' = IF AtHeader({"0"}) THEN Extracted(Left - 2) ELSE out

\* Between two members or within one; a file that cannot be written.
Cancel ==
    /\ step = "read" /\ down /\ Stops(FALSE)
    /\ \/ out' = out
       \/ AtHeader({"0"}) /\ ~Broken
          /\ \E units \in 0 .. temp[at + 1].size : out' = Extracted(units)

ReadLongName ==
    /\ AtHeader({"L"}) /\ ~Broken
    /\ longName' = temp[at + 3].name /\ Forward(4)
    /\ UNCHANGED <<writerVars, temp, cut, out, step, outcome>>

AfterName_Kept == longName
AfterName == None

\* Records of pax, which are passed over, and directories.
Skip ==
    /\ AtHeader({"x", "5"}) /\ ~Broken
    /\ LET size == temp[at + 1].size
       IN  /\ Forward(2 + size + Padding(size))
           /\ longName' = IF temp[at + 1].type = "5" THEN AfterName ELSE longName
    /\ UNCHANGED <<writerVars, temp, cut, out, step, outcome>>

ReadFile ==
    /\ AtHeader({"0"}) /\ ~Broken
    /\ LET size == temp[at + 1].size
       IN  out' = Extracted(size) /\ Forward(2 + size + Padding(size))
    /\ longName' = AfterName
    /\ UNCHANGED <<writerVars, temp, cut, step, outcome>>

Next ==
    \/ AddFile \/ CreateFails \/ ServerAddsFile \/ CloseArchive
    \/ Carry \/ ConnectionBreaks \/ CarryFails
    \/ EndOfArchive \/ ReadFails \/ Cancel \/ ReadLongName \/ Skip \/ ReadFile

Spec == Init /\ [][Next]_bundleVars

-----------------------------------------------------------------------------
(* Properties. *)

\* The records of pax are passed over, and with them its long names.
Named(files) == DOMAIN files \ (IF format = "pax" THEN LongNames \union {Prefix} ELSE {})

\* A whole archive is not refused.  A bundle that is done has brought each file as
\* it was and under its name: the whole folder, or where the channel broke some
\* files of a download and no part of another.  Headers that tell a wrong size, of
\* a file that grew meanwhile or is too large for the field, are left out.
BundleKept ==
    /\ step = "read" /\ ~cut /\ ~misfit => ~Broken
    /\ outcome = "done" /\ ~misfit =>
        /\ down \/ ~cut => \A f \in Named(out) : f \in DOMAIN source /\ out[f] = source[f]
        /\ ~cut => Named(source) \subseteq DOMAIN out

\* "0 = EOF": a download that is done has extracted all that the command wrote.
StreamWhole == down /\ outcome = "done" => temp = archive
=============================================================================
