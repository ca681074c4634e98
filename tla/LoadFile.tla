------------------------------ MODULE LoadFile ------------------------------
(***************************************************************************)
(* utils::load_file as create_kernel calls it, while an editor may save    *)
(* the source file again: the length is asked for first and the text read  *)
(* after, both from a file that can change in between.                     *)
(*                                                                         *)
(* A cell of the file is <<save, position>>: which save wrote it, and      *)
(* where.  The file can be positioned: no pipe and no directory.           *)
(***************************************************************************)
EXTENDS Naturals, Sequences

CONSTANTS
  Lengths,           \* the lengths the file can have
  PreambleLengths,   \* the lengths of cPreamble; create_kernel's is empty
  MaxSaves           \* bound on the saves of the editor

ASSUME LoadFileAssumption ==
  Lengths \subseteq Nat /\ PreambleLengths \subseteq Nat /\ MaxSaves \in Nat

VARIABLES
  file, saves,               \* the cells of the file; the saves so far
  preamble_length,
  source_length, position,   \* what ftell said; how far fread is
  measured,                  \* history: the cells of the file when ftell was asked
  source,                    \* the allocated cells, <<>> when there are none
  stream, memory,            \* "none", "open" or "closed"; "none", "held" or "freed"
  kernel_len,                \* create_kernel's, and *szFinalLength
  host_pc

editing == <<file, saves>>
vars == <<editing, preamble_length, source_length, position, measured, source, stream, memory,
          kernel_len, host_pc>>

Garbage == <<0, 0>>                     \* a cell of memory no one wrote
Terminator == <<0, 1>>
Preamble(n) == [i \in 1 .. n |-> <<0, i + 1>>]
Saved(save, n) == [i \in 1 .. n |-> <<save, i>>]

Init ==
  /\ \E n \in Lengths : file = Saved(1, n)
  /\ saves = 1
  /\ preamble_length \in PreambleLengths
  /\ source_length = 0 /\ position = 0 /\ measured = <<>> /\ source = <<>>
  /\ stream = "none" /\ memory = "none" /\ kernel_len = 0
  /\ host_pc = "fopen"

\* An editor truncates the file, and writes it again; a crash of the editor leaves it empty.
Truncate ==
  /\ saves < MaxSaves /\ file # <<>>
  /\ file' = <<>>
  /\ UNCHANGED <<saves, preamble_length, source_length, position, measured, source, stream,
                 memory,
                 kernel_len, host_pc>>
Save ==
  /\ saves < MaxSaves
  /\ saves' = saves + 1
  /\ \E n \in Lengths : file' = Saved(saves', n)
  /\ UNCHANGED <<preamble_length, source_length, position, measured, source, stream, memory,
                 kernel_len, host_pc>>

Fopen ==
  /\ host_pc = "fopen"
  /\ \/ host_pc' = "check" /\ UNCHANGED stream
     \/ host_pc' = "ftell" /\ stream' = "open"
  /\ UNCHANGED <<editing, preamble_length, source_length, position, measured, source, memory,
                 kernel_len>>

Ftell ==
  /\ host_pc = "ftell" /\ host_pc' = "malloc"
  /\ source_length' = Len(file) /\ measured' = file
  /\ UNCHANGED <<editing, preamble_length, position, source, stream, memory, kernel_len>>

\* One cell more than the text has, for its end.
Malloc ==
  /\ host_pc = "malloc" /\ host_pc' = "fread"
  /\ memory' = "held"
  /\ source' = [i \in 1 .. preamble_length + source_length + 1 |->
                  IF i <= preamble_length THEN Preamble(preamble_length)[i] ELSE Garbage]
  /\ UNCHANGED <<editing, preamble_length, source_length, position, measured, stream, kernel_len>>

\* fread takes what is there, some cells at a time.
FreadSome ==
  /\ host_pc = "fread" /\ position < source_length
  /\ \E n \in 1 .. source_length - position :
       /\ position + n <= Len(file)
       /\ position' = position + n
       /\ source' = [i \in DOMAIN source |->
                       IF i - preamble_length \in position + 1 .. position + n
                         THEN file[i - preamble_length] ELSE source[i]]
  /\ UNCHANGED <<editing, preamble_length, source_length, measured, stream, memory, kernel_len,
                 host_pc>>

\* The end of the text, and its length to the caller.
ReturnSource ==
  /\ stream' = "closed"
  /\ kernel_len' = source_length + preamble_length
  /\ source' = [source EXCEPT ![source_length + preamble_length + 1] = Terminator]
  /\ host_pc' = "check"
  /\ UNCHANGED <<editing, preamble_length, source_length, position, measured, memory>>

ReturnNull ==
  /\ stream' = "closed"
  /\ memory' = "freed" /\ source' = <<>>
  /\ host_pc' = "check"
  /\ UNCHANGED <<editing, preamble_length, source_length, position, measured, kernel_len>>

\* A slip in FreadEnd: whatever fread read is good enough.
FreadEndUnchecked ==
  /\ host_pc = "fread"
  /\ position = source_length \/ position >= Len(file)
  /\ ReturnSource

\* fread returns 1 when it read all of one element of source_length bytes, and that is not
\* nothing; it stops short at the end of the file or on an error.
FreadEnd ==
  /\ host_pc = "fread"
  /\ \/ position = source_length /\ source_length > 0 /\ ReturnSource
     \/ position = source_length /\ source_length = 0 /\ ReturnNull
     \/ position < source_length /\ ReturnNull

\* create_kernel: no length, no kernel.
CheckLength ==
  /\ host_pc = "check"
  /\ host_pc' = IF kernel_len > 0 THEN "create" ELSE "threw"
  /\ UNCHANGED <<editing, preamble_length, source_length, position, measured, source, stream,
                 memory, kernel_len>>

\* A slip in CreateProgram: the text is not freed.
CreateProgramKeepsSource ==
  /\ host_pc = "create" /\ host_pc' = "created"
  /\ UNCHANGED <<editing, preamble_length, source_length, position, measured, source, stream,
                 memory, kernel_len>>

\* clCreateProgramWithSource takes kernel_len bytes of the text, which is then freed; when
\* it fails, the text is lost (Context.cpp:148-149).
CreateProgram ==
  /\ host_pc = "create"
  /\ \/ host_pc' = "lost" /\ UNCHANGED memory
     \/ host_pc' = "created" /\ memory' = "freed"
  /\ UNCHANGED <<editing, preamble_length, source_length, position, measured, source, stream,
                 kernel_len>>

Ended == host_pc \in {"threw", "lost", "created"} /\ UNCHANGED vars

Next ==
  \/ Truncate \/ Save
  \/ Fopen \/ Ftell \/ Malloc \/ FreadSome \/ FreadEnd
  \/ CheckLength \/ CreateProgram
  \/ Ended

Spec == Init /\ [][Next]_vars

-----------------------------------------------------------------------------
(* Properties *)

\* What the compiler gets is the file that was measured, or newer: the preamble, and then
\* as many cells as the file had when ftell was asked, each the one found there or the one
\* a later save put in its place; nothing uninitialised, shifted or short of that length.
\* That is the file as it is saved unless the editor came between the calls: of a file
\* that grew, the rest is missing, and the cells of two saves may stand side by side.
SourceAsMeasured ==
  host_pc = "create" =>
    /\ kernel_len = preamble_length + Len(measured)
    /\ Len(source) = kernel_len + 1 /\ source[kernel_len + 1] = Terminator
    /\ \A i \in 1 .. preamble_length : source[i] = Preamble(preamble_length)[i]
    /\ \A i \in DOMAIN measured :
         \E save \in measured[i][1] .. saves : source[preamble_length + i] = <<save, i>>

\* However the loading ends, the file is closed; and the text is freed but where
\* clCreateProgramWithSource failed, the leak Context.cpp:148-149 admits.
NothingHeld ==
  host_pc \in {"threw", "created"} => stream # "open" /\ memory # "held"

=============================================================================
