------------------------------ MODULE CsvFile ------------------------------
(***************************************************************************)
(* The CSV file of a client service, kept over restarts and crashes:       *)
(* ensureCsvHasHeader (services/common/csv_utils.cpp), the opening in      *)
(* append mode and the rows the callback writes and flushes for a view, in *)
(* the main() of each of the three services.                               *)
(*                                                                         *)
(* The contents are tokens: the header text, line ends, rows, the torn     *)
(* piece of a row, and runs of NUL bytes, which a power failure can leave  *)
(* in the place of the last write.                                         *)
(***************************************************************************)
EXTENDS Integers, Sequences, SequencesExt

CONSTANTS Bands,        \* bands of a view: offsets or thresholds
          MaxViews,     \* bound: views received
          MaxCrashes    \* bound: crashes

ASSUME CsvAssumption == {Bands, MaxViews, MaxCrashes} \subseteq Nat

Mark(kind) == [kind |-> kind, number |-> 0]
Row(view) == [kind |-> "row", number |-> view]
Rows(view, count) == FlattenSeq([k \in 1 .. count |-> <<Row(view), Mark("newline")>>])

VARIABLES
    file,       \* what is on the disk; <<>> also when there is no file
    phase,      \* the part of main() that is executed
    sanitized,  \* the local of ensureCsvHasHeader, while it rewrites
    program,    \* which service it is
    flushed,    \* history: the number of rows of each view written and flushed
    struck,     \* history: a crash during a rewrite, or a power failure
    crashes     \* history: crashes

vars == <<file, phase, sanitized, program, flushed, struck, crashes>>

Init == /\ file = <<>> /\ phase = "stopped" /\ sanitized = <<>>
        /\ program \in {"bbo", "price bands", "volume bands"}
        /\ flushed = <<>> /\ struck = FALSE /\ crashes = 0

Has(contents, kind) == \E k \in DOMAIN contents : contents[k].kind = kind

Start == /\ phase = "stopped" /\ phase' = "check"
         /\ UNCHANGED <<file, sanitized, program, flushed, struck, crashes>>

\* The first line is the header, and there is no NUL byte anywhere.
Intact(contents) ==
    /\ ~Has(contents, "nul")
    /\ contents # <<>> /\ Head(contents) = Mark("header")
    /\ Len(contents) > 1 => contents[2] = Mark("newline")

\* The tokens of a set that the contents hold, in their order.
Keep(tokens, contents) ==
    FlattenSeq([k \in DOMAIN contents |-> IF contents[k] \in tokens THEN <<contents[k]>> ELSE <<>>])

Erase(contents) == Keep({t \in Range(contents) : t.kind # "nul"}, contents)

\* Fault: a header that is there is kept below the new one.
KeepHeader(data) == data

StripHeaderIfPresent(data) ==
    IF data = <<>> \/ Head(data) # Mark("header") THEN data
    ELSE IF Len(data) > 1 /\ data[2] = Mark("newline") THEN Tail(Tail(data))
    ELSE Tail(data)

\* ensureCsvHasHeader: a good file is left alone, another one is read and
\* truncated, to be written again.
EnsureHeader ==
    /\ phase = "check"
    /\ IF Intact(file)
       THEN phase' = "open" /\ UNCHANGED <<file, sanitized>>
       ELSE /\ phase' = "rewrite"
            /\ sanitized' = StripHeaderIfPresent(Erase(file))
            /\ file' = <<>>
    /\ UNCHANGED <<program, flushed, struck, crashes>>

\* Lines 34 and 86-87.  The code does not look at the outcome of these writes,
\* nor of those of the rows; here they succeed: a full disk, which can leave
\* half a header line in front of the next row, is not modelled.
Rewritten == <<Mark("header"), Mark("newline")>> \o sanitized

Rewrite == /\ phase = "rewrite" /\ phase' = "open"
           /\ file' = Rewritten
           /\ sanitized' = <<>>
           /\ UNCHANGED <<program, flushed, struck, crashes>>

\* Fault: the file is opened without std::ios::app.
OpenTruncating == /\ phase = "open" /\ phase' = "running"
                  /\ file' = <<>>
                  /\ UNCHANGED <<sanitized, program, flushed, struck, crashes>>

Open == /\ phase = "open" /\ phase' = "running"
        /\ UNCHANGED <<file, sanitized, program, flushed, struck, crashes>>

Streaming == phase \in {"running", "interrupted"}

\* The callback writes the rows of a view and flushes them.
Write(count) ==
    /\ Streaming /\ Len(flushed) < MaxViews
    /\ flushed' = Append(flushed, count)
    /\ file' = file \o Rows(Len(flushed'), count)
    /\ UNCHANGED <<phase, sanitized, program, struck, crashes>>

WriteBbo == program = "bbo" /\ Write(1)

\* Without live or cached quotes there are no bands (BandPublishers).
WritePriceBands == program = "price bands" /\ (Write(0) \/ Write(Bands))

WriteVolumeBands == program = "volume bands" /\ Write(Bands)

\* handleSignal; until main() looks and stops the client, rows are written.
Signal == /\ phase = "running" /\ phase' = "interrupted"
          /\ UNCHANGED <<file, sanitized, program, flushed, struck, crashes>>

Stop == /\ phase = "interrupted" /\ phase' = "stopped"
        /\ UNCHANGED <<file, sanitized, program, flushed, struck, crashes>>

\* The file cannot be opened, or read: main() returns 1.
FailToOpen == /\ phase \in {"check", "open"} /\ phase' = "stopped"
              /\ UNCHANGED <<file, sanitized, program, flushed, struck, crashes>>

(***************************************************************************)
(* The process dies, at any point: a rewrite leaves nothing, or the header *)
(* line and some of the rest; the rows under way, numbered 0, leave some   *)
(* lines and perhaps a piece of one.                                       *)
(***************************************************************************)
Crash ==
    /\ phase # "stopped" /\ crashes < MaxCrashes
    /\ phase' = "stopped"
    /\ crashes' = crashes + 1
    /\ sanitized' = <<>>
    /\ IF phase = "rewrite"
       THEN \E k \in {0} \cup 2 .. Len(Rewritten) : file' = SubSeq(Rewritten, 1, k)
       ELSE \/ UNCHANGED file
            \/ /\ Streaming
               /\ \E k \in 0 .. (IF program = "bbo" THEN 0 ELSE Bands - 1), piece \in {<<>>, <<Mark("torn")>>} :
                    file' = file \o Rows(0, k) \o piece
    /\ struck' = (struck \/ phase = "rewrite")
    /\ UNCHANGED <<program, flushed>>

\* The machine dies: flush() is no fsync(), the last writes may read as NULs.
PowerFailure ==
    /\ crashes < MaxCrashes
    /\ phase' = "stopped"
    /\ crashes' = crashes + 1
    /\ sanitized' = <<>>
    /\ \E k \in 0 .. Len(file) : file' = Append(SubSeq(file, 1, k), Mark("nul"))
    /\ struck' = TRUE
    /\ UNCHANGED <<program, flushed>>

Next == \/ Start \/ EnsureHeader \/ Rewrite \/ Open
        \/ WriteBbo \/ WritePriceBands \/ WriteVolumeBands
        \/ Signal \/ Stop \/ FailToOpen \/ Crash \/ PowerFailure

Spec == Init /\ [][Next]_vars

(***************************************************************************)
(* Properties.                                                             *)
(***************************************************************************)

(***************************************************************************)
(* However often the service crashed and whatever the crashes left behind, *)
(* while it runs the file starts with the header line, has it once, and    *)
(* has no NUL bytes.                                                       *)
(***************************************************************************)
HeaderOnce ==
    Streaming =>
        /\ Len(file) >= 2 /\ SubSeq(file, 1, 2) = <<Mark("header"), Mark("newline")>>
        /\ ~Has(SubSeq(file, 3, Len(file)), "header")
        /\ ~Has(file, "nul")

(***************************************************************************)
(* The rows of a view that were flushed are on the disk for good, in order *)
(* and once, except while the file is rewritten, and after a crash just    *)
(* then or a power failure.                                                *)
(***************************************************************************)
FlushedRows == FlattenSeq([v \in DOMAIN flushed |-> [k \in 1 .. flushed[v] |-> Row(v)]])

RowsKept ==
    ~struck /\ phase # "rewrite" =>
        Keep({Row(v) : v \in 1 .. MaxViews}, file) = FlushedRows

=============================================================================
