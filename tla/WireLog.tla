------------------------------ MODULE WireLog ------------------------------
(***************************************************************************)
(* One wire log file and its generations (internal/wirelog/wirelog.go): a  *)
(* line at a time is written under the file's mutex, and the file is       *)
(* rotated first when the line would not fit.  Every call to the operating *)
(* system may fail, and the process may stop between any two of them.      *)
(* What a line says, and the masking of secrets in it, are left out.       *)
(***************************************************************************)
EXTENDS Integers, Sequences, Functions

CONSTANTS
  MaxBytes,  \* size a file is rotated at
  MaxFiles,  \* rotated generations kept
  Sizes,     \* of lines
  MaxLines   \* bound on the lines emitted

ASSUME WireLogAssumption ==
  /\ MaxBytes \in Nat \ {0} /\ MaxFiles \in Nat \ {0} /\ MaxLines \in Nat \ {0}
  /\ Sizes # {} /\ Sizes \subseteq Nat \ {0}

Current == 0
Generations == 0 .. MaxFiles

VARIABLES
  disk,      \* the files there are: path, path.1, ..., path.MaxFiles
  handle,    \* l.f is open
  filled,    \* l.size
  at,        \* the next step of write
  from,      \* the generation rotate moves next
  line,      \* the line in hand
  \* History, read by the properties only.
  written,   \* lines that reached the file
  emitted,
  failed,    \* a file could not be removed, renamed or sized up
  cut        \* the process stopped within a rotation

wireVars == <<disk, handle, filled, at, from, line, written, emitted, failed, cut>>

Line == [no : 1 .. MaxLines, size : Sizes]

\* bytes is what Stat reports.
File == [lines : Seq(Line), bytes : Nat]

WireTypeOK ==
  /\ DOMAIN disk \subseteq Generations /\ \A g \in DOMAIN disk : disk[g] \in File
  /\ handle \in BOOLEAN /\ filled \in Nat
  /\ at \in {"rest", "open", "fit", "remove", "rename", "reopen", "write"}
  /\ from \in Generations
  /\ line \in Line
  /\ written \subseteq Line /\ emitted \in 0 .. MaxLines
  /\ failed \in BOOLEAN /\ cut \in BOOLEAN

NewFile == [lines |-> <<>>, bytes |-> 0]

NoLine == [no |-> 1, size |-> CHOOSE s \in Sizes : TRUE]

WireInit ==
  /\ disk = [g \in {} |-> NewFile] /\ handle = FALSE /\ filled = 0
  /\ at = "rest" /\ from = Current /\ line = NoLine
  /\ written = {} /\ emitted = 0 /\ failed = FALSE /\ cut = FALSE

Rest == at' = "rest" /\ line' = NoLine

\* The mutex is taken.
Emit(s) ==
  /\ at = "rest" /\ emitted < MaxLines
  /\ line' = [no |-> emitted + 1, size |-> s] /\ emitted' = emitted + 1
  /\ at' = IF handle THEN "fit" ELSE "open"
  /\ UNCHANGED <<disk, handle, filled, from, written, failed, cut>>

\* O_CREATE, and O_APPEND to what is there.
Opened ==
  /\ handle' = TRUE
  /\ disk' = [g \in DOMAIN disk \cup {Current} |-> IF g \in DOMAIN disk THEN disk[g] ELSE NewFile]

Open ==
  /\ at \in {"open", "reopen"} /\ Opened
  /\ at' = IF at = "open" THEN "fit" ELSE "write"
  /\ filled' = disk'[Current].bytes
  /\ UNCHANGED <<from, line, written, emitted, failed, cut>>

\* Stat fails: the size stays what it was.
OpenUnsized ==
  /\ at \in {"open", "reopen"} /\ Opened
  /\ at' = IF at = "open" THEN "fit" ELSE "write"
  /\ failed' = TRUE
  /\ UNCHANGED <<filled, from, line, written, emitted, cut>>

\* The line is dropped: at once, or by the write to a file that is not open.
OpenFails ==
  /\ at \in {"open", "reopen"}
  /\ Rest
  /\ UNCHANGED <<disk, handle, filled, from, written, emitted, failed, cut>>

Fit ==
  /\ at = "fit"
  /\ IF filled + line.size > MaxBytes
     THEN at' = "remove" /\ handle' = FALSE
     ELSE at' = "write" /\ UNCHANGED handle
  /\ UNCHANGED <<disk, filled, from, line, written, emitted, failed, cut>>

\* A deviation: the loop leaves the last but one generation where it is.
MovesTooFew(g) == g - 2

\* The loop starts at the generation before the oldest.
MovedBefore(g) == g - 1

RemoveOldest ==
  /\ at = "remove"
  /\ at' = "rename" /\ from' = MovedBefore(MaxFiles)
  /\ \/ disk' = Restrict(disk, DOMAIN disk \ {MaxFiles}) /\ UNCHANGED failed
     \/ MaxFiles \in DOMAIN disk /\ failed' = TRUE /\ UNCHANGED disk
  /\ UNCHANGED <<handle, filled, line, written, emitted, cut>>

Moved(g) == [o \in (DOMAIN disk \ {g}) \cup {g + 1} |-> IF o = g + 1 THEN disk[g] ELSE disk[o]]

\* The renames, oldest generation first; the last one is the file itself.
Rename ==
  /\ at = "rename"
  /\ IF from \in DOMAIN disk
     THEN \/ disk' = Moved(from) /\ UNCHANGED failed
          \/ failed' = TRUE /\ UNCHANGED disk
     ELSE UNCHANGED <<disk, failed>>
  /\ IF from = Current
     THEN at' = "reopen" /\ filled' = 0 /\ from' = Current
     ELSE from' = from - 1 /\ UNCHANGED <<at, filled>>
  /\ UNCHANGED <<handle, line, written, emitted, cut>>

Write ==
  /\ at = "write"
  /\ disk' = [disk EXCEPT ![Current] = [lines |-> Append(@.lines, line), bytes |-> @.bytes + line.size]]
  /\ written' = written \cup {line}
  /\ filled' = filled + line.size
  /\ Rest
  /\ UNCHANGED <<handle, from, emitted, failed, cut>>

\* The handle is dropped; the next line opens the file again.
WriteFails ==
  /\ at = "write"
  /\ handle' = FALSE
  /\ Rest
  /\ UNCHANGED <<disk, filled, from, written, emitted, failed, cut>>

\* The process stops and starts again.
RestartLog ==
  /\ cut' = (cut \/ at \in {"rename", "reopen"})
  /\ handle' = FALSE /\ filled' = 0 /\ from' = Current
  /\ Rest
  /\ UNCHANGED <<disk, written, emitted, failed>>

WireNext ==
  \/ \E s \in Sizes : Emit(s)
  \/ Open \/ OpenUnsized \/ OpenFails \/ Fit \/ RemoveOldest \/ Rename
  \/ Write \/ WriteFails \/ RestartLog

WireSpec == WireInit /\ [][WireNext]_wireVars
-----------------------------------------------------------------------------
OnDisk(l) == \E g \in DOMAIN disk : \E i \in 1 .. Len(disk[g].lines) : disk[g].lines[i] = l

Dropped == {l \in written : ~OnDisk(l)}

\* The generation that is missing while the others are being moved.
Hole == IF at = "rename" THEN from + 1 ELSE Current

\* Read from the oldest generation to the current file, the lines come in the
\* order they were written, none twice.
InOrder ==
  \A g, h \in DOMAIN disk : \A i \in 1 .. Len(disk[g].lines), j \in 1 .. Len(disk[h].lines) :
    g > h \/ (g = h /\ i < j) => disk[g].lines[i].no < disk[h].lines[j].no

\* Whatever fails and wherever the process stops, the lines that remain are in
\* order.  As long as no file failed to be removed, renamed or sized up, those
\* that are gone are the oldest ones, no file outgrows its limit unless by one
\* long line, and, if no rotation was cut short either, lines are gone only once
\* all generations are in use.
WireLogInv ==
  /\ WireTypeOK
  /\ InOrder /\ \A o \in Line : OnDisk(o) => o \in written
  /\ ~failed =>
       /\ \A l \in Dropped : \A o \in Line : OnDisk(o) => l.no < o.no
       /\ \A g \in DOMAIN disk : Len(disk[g].lines) > 1 => disk[g].bytes <= MaxBytes
       /\ ~cut /\ Dropped # {} => DOMAIN disk \cup {Hole} = Generations
=============================================================================
