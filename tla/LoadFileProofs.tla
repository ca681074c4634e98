--------------------------- MODULE LoadFileProofs ---------------------------
(***************************************************************************)
(* Proofs about LoadFile, for files and preambles of any length and any    *)
(* number of saves: what is compiled is what was measured or newer, and    *)
(* nothing is held at the end.                                             *)
(***************************************************************************)
EXTENDS LoadFile, Integers, TLAPS

-----------------------------------------------------------------------------
(* The inductive invariant *)

Cell == Nat \X Nat

Types ==
  /\ file \in Seq(Cell) /\ source \in Seq(Cell) /\ measured \in Seq(Cell)
  /\ saves \in Nat \ {0} /\ preamble_length \in Nat
  /\ source_length \in Nat /\ position \in Nat /\ kernel_len \in Nat
  /\ host_pc \in {"fopen", "ftell", "malloc", "fread", "check", "create",
                  "threw", "lost", "created"}

\* The save that a cell read at place i comes from at the earliest: once the file is
\* measured, the one found there.
Since(i) == IF i \in DOMAIN measured THEN measured[i][1] ELSE 1

\* A cell that such a save put at place i of the file.
FromSave(cell, i) == \E save \in Since(i) .. saves : cell = <<save, i>>

FileInv ==
  /\ \A i \in DOMAIN file : FromSave(file[i], i)
  /\ \A i \in DOMAIN measured : measured[i][1] \in 1 .. saves

\* The first n cells of source are the preamble's, and then a file's.
Filled(n) ==
  \A i \in 1 .. n :
    IF i <= preamble_length THEN source[i] = Preamble(preamble_length)[i]
                            ELSE FromSave(source[i], i - preamble_length)

\* fread has filled the cells up to its position, and no cell outside the text.
TextInv ==
  /\ host_pc = "fread" =>
       /\ Len(source) = preamble_length + source_length + 1
       /\ source_length = Len(measured) /\ position <= source_length
       /\ Filled(preamble_length + position)
  /\ host_pc \in {"check", "create"} /\ kernel_len > 0 =>
       /\ kernel_len + 1 = Len(source) /\ source[kernel_len + 1] = Terminator
       /\ kernel_len = preamble_length + Len(measured)
       /\ Filled(kernel_len)
  /\ host_pc \in {"fopen", "ftell", "malloc"} => position = 0
  /\ host_pc = "malloc" => source_length = Len(measured)
  /\ host_pc \in {"fopen", "ftell"} => measured = <<>>
  /\ host_pc \in {"fopen", "ftell", "malloc", "fread"} => kernel_len = 0
  /\ host_pc = "create" => kernel_len > 0

\* No length, no memory; and no way past fread leaves the file open.
HeldInv ==
  /\ host_pc \in {"fopen", "ftell", "malloc"} => memory = "none"
  /\ host_pc = "fopen" => stream = "none"
  /\ host_pc \in {"check", "create", "threw", "lost", "created"} => stream # "open"
  /\ host_pc = "check" /\ kernel_len = 0 => memory # "held"
  /\ host_pc \in {"threw", "created"} => memory # "held"

LoadInv == Types /\ FileInv /\ TextInv /\ HeldInv

-----------------------------------------------------------------------------
(* Cells and sequences *)

LEMMA CellFacts ==
  /\ Garbage \in Cell /\ Terminator \in Cell
  /\ \A n \in Nat : \A i \in 1 .. n : Preamble(n)[i] \in Cell
  /\ \A save \in Nat, n \in Nat :
       /\ Saved(save, n) \in Seq(Cell) /\ Len(Saved(save, n)) = n
       /\ \A i \in 1 .. n : Saved(save, n)[i] = <<save, i>>
BY DEF Garbage, Terminator, Preamble, Saved, Cell

LEMMA ArrayIsSequence ==
  ASSUME NEW n \in Nat, NEW s \in [1 .. n -> Cell]
  PROVE  s \in Seq(Cell) /\ Len(s) = n
OBVIOUS

\* What a save put in the file stays that when the editor saves again.
LEMMA SavesKeep ==
  ASSUME saves \in Nat, saves' \in Nat, saves <= saves', UNCHANGED measured,
         \A i \in DOMAIN measured : measured[i][1] \in 1 .. saves
  PROVE  \A cell : \A i \in Nat : FromSave(cell, i) => FromSave(cell, i)'
<1>. SUFFICES ASSUME NEW cell, NEW i \in Nat, FromSave(cell, i) PROVE FromSave(cell, i)'
  OBVIOUS
<1>1. Since(i)' = Since(i) /\ Since(i) \in Nat
  BY DEF Since
<1>2. PICK save \in Since(i) .. saves : cell = <<save, i>>
  BY DEF FromSave
<1>3. save \in Since(i) .. saves'
  BY <1>1, <1>2
<1>. QED BY <1>1, <1>2, <1>3 DEF FromSave

LEMMA FilledKeeps ==
  ASSUME NEW n \in Nat, saves \in Nat, saves' \in Nat, saves <= saves', Filled(n),
         UNCHANGED measured, \A i \in DOMAIN measured : measured[i][1] \in 1 .. saves,
         UNCHANGED preamble_length, preamble_length \in Nat,
         \A i \in 1 .. n : source'[i] = source[i]
  PROVE  Filled(n)'
<1>. SUFFICES ASSUME NEW i \in 1 .. n
     PROVE (IF i <= preamble_length THEN source[i] = Preamble(preamble_length)[i]
                                    ELSE FromSave(source[i], i - preamble_length))'
  BY DEF Filled
<1>1. CASE i <= preamble_length
  BY <1>1 DEF Filled, Preamble
<1>2. CASE i > preamble_length
  <2>1. i - preamble_length \in Nat /\ source'[i] = source[i]
    BY <1>2
  <2>2. FromSave(source[i], i - preamble_length)
    BY <1>2 DEF Filled
  <2>3. FromSave(source[i], i - preamble_length)'
    BY <2>1, <2>2, SavesKeep
  <2>. QED BY <1>2, <2>3
<1>. QED BY <1>1, <1>2

-----------------------------------------------------------------------------
(* The invariant is inductive *)

LEMMA LoadInit == Init => LoadInv
<1>. SUFFICES ASSUME Init PROVE LoadInv
  OBVIOUS
<1>1. PICK n \in Lengths : file = Saved(1, n)
  BY DEF Init
<1>2. n \in Nat
  BY LoadFileAssumption
<1>3. Types
  BY <1>1, <1>2, CellFacts, LoadFileAssumption DEF Init, Types
<1>4. FileInv
  <2>1. saves = 1 /\ measured = <<>> /\ 1 \in 1 .. 1 /\ DOMAIN <<>> = {}
    BY DEF Init
  <2>2. DOMAIN file = 1 .. n /\ \A i \in 1 .. n : file[i] = <<1, i>>
    BY <1>1, <1>2, CellFacts DEF Saved
  <2>3. \A i : Since(i) = 1
    BY <2>1 DEF Since
  <2>. QED BY <2>1, <2>2, <2>3 DEF FileInv, FromSave
<1>. QED
  BY <1>3, <1>4 DEF Init, LoadInv, TextInv, HeldInv

LEMMA EditorStep ==
  ASSUME LoadInv, Truncate \/ Save
  PROVE  LoadInv'
<1>1. /\ UNCHANGED <<preamble_length, source_length, position, measured, source, stream,
                     memory, kernel_len, host_pc>>
      /\ saves' \in Nat \ {0} /\ saves <= saves' /\ saves \in Nat
      /\ preamble_length \in Nat /\ kernel_len \in Nat /\ position \in Nat
  BY DEF LoadInv, Types, Truncate, Save
<1>m. /\ \A i \in DOMAIN measured : measured[i][1] \in 1 .. saves
      /\ \A i \in DOMAIN measured' : measured'[i][1] \in 1 .. saves'
  BY <1>1 DEF LoadInv, FileInv
<1>2. file' \in Seq(Cell) /\ FileInv'
  <2>1. CASE Truncate
    BY <1>m, <2>1 DEF Truncate, FileInv
  <2>2. CASE Save
    <3>1. PICK n \in Lengths : file' = Saved(saves', n)
      BY <2>2 DEF Save
    <3>2. n \in Nat
      BY LoadFileAssumption
    <3>3. saves' \in Nat /\ saves' \in 1 .. saves'
      BY <1>1
    <3>4. file' \in Seq(Cell) /\ Len(file') = n /\ \A i \in 1 .. n : file'[i] = <<saves', i>>
      BY <3>1, <3>2, <3>3, CellFacts
    <3>5. DOMAIN file' = 1 .. n
      BY <3>4
    <3>6. \A i \in 1 .. n : saves' \in Since(i)' .. saves'
      BY <1>1, <1>m, <3>3 DEF Since
    <3>. QED BY <1>m, <3>4, <3>5, <3>6 DEF FileInv, FromSave
  <2>. QED BY <2>1, <2>2
<1>3. TextInv'
  BY <1>1, <1>m, FilledKeeps DEF LoadInv, TextInv, Types
<1>. QED
  BY <1>1, <1>2, <1>3 DEF LoadInv, Types, HeldInv

\* A step of the loading leaves the file alone.
LEMMA FileKeeps ==
  ASSUME LoadInv, UNCHANGED <<editing, measured>>
  PROVE  FileInv' /\ saves' = saves /\ file' = file
BY DEF LoadInv, FileInv, FromSave, Since, editing

LEMMA FtellStep ==
  ASSUME LoadInv, Ftell
  PROVE  LoadInv'
<1>1. /\ host_pc = "ftell" /\ host_pc' = "malloc" /\ position = 0 /\ kernel_len = 0
      /\ file' = file /\ saves' = saves /\ measured' = file /\ source_length' = Len(file)
      /\ UNCHANGED <<preamble_length, position, source, stream, memory, kernel_len>>
      /\ saves \in Nat /\ file \in Seq(Cell)
  BY DEF Ftell, editing, LoadInv, TextInv, Types
<1>2. Types'
  BY <1>1 DEF LoadInv, Types
<1>3. FileInv'
  <2>. SUFFICES ASSUME NEW i \in DOMAIN file
       PROVE  /\ file[i][1] \in 1 .. saves
              /\ \E save \in file[i][1] .. saves : file[i] = <<save, i>>
    BY <1>1 DEF FileInv, FromSave, Since
  <2>1. PICK save \in Since(i) .. saves : file[i] = <<save, i>>
    BY DEF LoadInv, FileInv, FromSave
  <2>2. Since(i) \in 1 .. saves \/ Since(i) = 1
    BY DEF LoadInv, FileInv, Since
  <2>3. save \in 1 .. saves /\ file[i][1] = save
    BY <1>1, <2>1, <2>2
  <2>. QED BY <1>1, <2>1, <2>3
<1>4. TextInv'
  BY <1>1 DEF TextInv
<1>. QED
  BY <1>1, <1>2, <1>3, <1>4 DEF LoadInv, HeldInv

LEMMA MallocStep ==
  ASSUME LoadInv, Malloc
  PROVE  LoadInv'
<1> DEFINE size == preamble_length + source_length + 1
<1>1. /\ host_pc = "malloc" /\ host_pc' = "fread" /\ position = 0 /\ kernel_len = 0
      /\ UNCHANGED <<editing, preamble_length, source_length, position, measured, stream,
                     kernel_len>>
      /\ source_length = Len(measured)
      /\ preamble_length \in Nat /\ source_length \in Nat /\ size \in Nat
  BY DEF Malloc, LoadInv, TextInv, Types
<1>2. source' = [j \in 1 .. size |->
                   IF j <= preamble_length THEN Preamble(preamble_length)[j] ELSE Garbage]
  BY DEF Malloc
<1>3. \A j \in 1 .. size :
        (IF j <= preamble_length THEN Preamble(preamble_length)[j] ELSE Garbage) \in Cell
  <2>. SUFFICES ASSUME NEW j \in 1 .. size
       PROVE (IF j <= preamble_length THEN Preamble(preamble_length)[j] ELSE Garbage) \in Cell
    OBVIOUS
  <2>1. j <= preamble_length => j \in 1 .. preamble_length
    BY <1>1
  <2>. QED BY <1>1, <2>1, CellFacts
<1>. HIDE DEF size
<1>4. source' \in Seq(Cell) /\ Len(source') = size
  BY <1>1, <1>2, <1>3, ArrayIsSequence
<1>5. Filled(preamble_length + position)'
  <2>1. \A j \in 1 .. preamble_length : source'[j] = Preamble(preamble_length)[j]
    BY <1>1, <1>2 DEF size
  <2>. QED BY <1>1, <2>1 DEF Filled, Preamble
<1>6. Types' /\ FileInv'
  BY <1>1, <1>4, FileKeeps DEF LoadInv, Types
<1>7. TextInv'
  BY <1>1, <1>4, <1>5 DEF TextInv, size
<1>. QED
  BY <1>1, <1>6, <1>7 DEF LoadInv, HeldInv

LEMMA FreadSomeStep ==
  ASSUME LoadInv, FreadSome
  PROVE  LoadInv'
<1>1. /\ host_pc = "fread" /\ kernel_len = 0 /\ position <= source_length
      /\ Len(source) = preamble_length + source_length + 1
      /\ Filled(preamble_length + position)
      /\ source_length = Len(measured)
      /\ UNCHANGED <<editing, preamble_length, source_length, measured, stream, memory,
                     kernel_len, host_pc>>
      /\ preamble_length \in Nat /\ source_length \in Nat /\ position \in Nat
      /\ source \in Seq(Cell) /\ file \in Seq(Cell)
  BY DEF FreadSome, LoadInv, TextInv, Types
<1>2. PICK n \in 1 .. source_length - position :
        /\ position + n <= Len(file) /\ position' = position + n
        /\ source' = [j \in DOMAIN source |->
                        IF j - preamble_length \in position + 1 .. position + n
                          THEN file[j - preamble_length] ELSE source[j]]
  BY DEF FreadSome
<1>3. n \in Nat /\ position + n \in Nat /\ position + n <= source_length
  BY <1>1, <1>2
<1>4. \A j \in 1 .. Len(source) :
        j - preamble_length \in position + 1 .. position + n => j - preamble_length \in DOMAIN file
  BY <1>1, <1>2, <1>3
<1>5. source' \in Seq(Cell) /\ Len(source') = Len(source)
  <2>1. \A j \in 1 .. Len(source) : source'[j] \in Cell
    BY <1>1, <1>2, <1>4
  <2>2. Len(source) \in Nat /\ DOMAIN source = 1 .. Len(source)
    BY <1>1
  <2>3. source' \in [1 .. Len(source) -> Cell]
    BY <1>2, <2>1, <2>2
  <2>. QED BY <2>2, <2>3, ArrayIsSequence
<1>6. \A j \in 1 .. preamble_length + (position + n) : j \in 1 .. Len(source) /\ j \in DOMAIN source
  <2>1. /\ Len(source) = preamble_length + source_length + 1 /\ DOMAIN source = 1 .. Len(source)
        /\ preamble_length \in Nat /\ source_length \in Nat
    BY <1>1
  <2>. QED BY <1>3, <2>1
<1>7. Filled(preamble_length + position)'
  <2>. SUFFICES ASSUME NEW j \in 1 .. preamble_length + (position + n)
       PROVE IF j <= preamble_length THEN source'[j] = Preamble(preamble_length)[j]
                                     ELSE FromSave(source'[j], j - preamble_length)
    BY <1>1, <1>2 DEF Filled, FromSave, Since, Preamble, editing
  <2>1. j \in 1 .. Len(source) /\ j \in DOMAIN source
    BY <1>6
  <2>2. CASE j > preamble_length + position
    <3>1. j - preamble_length \in position + 1 .. position + n
      <4>1. preamble_length \in Nat /\ position \in Nat /\ n \in Nat
        BY <1>1, <1>3
      <4>. QED BY <2>2, <4>1
    <3>2. source'[j] = file[j - preamble_length] /\ j - preamble_length \in DOMAIN file
      BY <1>2, <1>4, <2>1, <3>1
    <3>. QED BY <1>1, <2>2, <3>2 DEF LoadInv, FileInv
  <2>3. CASE j <= preamble_length + position
    <3>1. source'[j] = source[j] /\ j \in 1 .. preamble_length + position
      BY <1>1, <1>2, <1>3, <2>1, <2>3
    <3>. QED BY <1>1, <3>1 DEF Filled
  <2>. QED BY <1>1, <2>2, <2>3
<1>8. Types' /\ FileInv'
  BY <1>1, <1>2, <1>3, <1>5, FileKeeps DEF LoadInv, Types
<1>9. TextInv'
  BY <1>1, <1>2, <1>3, <1>5, <1>7 DEF TextInv
<1>. QED
  BY <1>1, <1>8, <1>9 DEF LoadInv, HeldInv

LEMMA FreadEndStep ==
  ASSUME LoadInv, FreadEnd
  PROVE  LoadInv'
<1>1. /\ host_pc = "fread" /\ host_pc' = "check" /\ stream' = "closed" /\ kernel_len = 0
      /\ source_length = Len(measured) /\ position <= source_length
      /\ UNCHANGED <<editing, preamble_length, source_length, position, measured>>
      /\ preamble_length \in Nat /\ source_length \in Nat /\ position \in Nat
      /\ source \in Seq(Cell) /\ saves \in Nat
      /\ Len(source) = preamble_length + source_length + 1
      /\ Filled(preamble_length + position)
  BY DEF FreadEnd, ReturnSource, ReturnNull, LoadInv, TextInv, Types
<1>2. CASE ReturnNull
  <2>1. source' = <<>> /\ kernel_len' = 0 /\ memory' = "freed"
    BY <1>1, <1>2 DEF ReturnNull
  <2>2. Types' /\ FileInv'
    BY <1>1, <2>1, FileKeeps DEF LoadInv, Types
  <2>. QED BY <1>1, <2>1, <2>2 DEF LoadInv, TextInv, HeldInv
<1>3. CASE ReturnSource /\ position = source_length /\ source_length > 0
  <2>1. /\ kernel_len' = preamble_length + source_length /\ kernel_len' \in Nat
        /\ kernel_len' > 0 /\ kernel_len' + 1 \in 1 .. Len(source)
        /\ source' = [source EXCEPT ![kernel_len' + 1] = Terminator]
    BY <1>1, <1>3 DEF ReturnSource
  <2>2. /\ source' \in Seq(Cell) /\ Len(source') = Len(source)
        /\ source'[kernel_len' + 1] = Terminator
        /\ \A j \in 1 .. kernel_len' : source'[j] = source[j]
    <3>1. source \in Seq(Cell) /\ Terminator \in Cell /\ kernel_len' \in Nat
      BY <1>1, <2>1, CellFacts
    <3>. DEFINE c == kernel_len'
    <3>2. /\ c \in Nat /\ c + 1 \in 1 .. Len(source)
          /\ source' = [source EXCEPT ![c + 1] = Terminator]
      BY <2>1
    <3>. HIDE DEF c
    <3>3. /\ source' \in Seq(Cell) /\ Len(source') = Len(source)
          /\ source'[c + 1] = Terminator
          /\ \A j \in 1 .. c : source'[j] = source[j]
      BY <3>1, <3>2
    <3>. QED BY <3>3 DEF c
  <2>3. Filled(kernel_len')
    BY <1>1, <1>3, <2>1
  <2>4. (Filled(kernel_len))'
    <3>1. saves' = saves /\ preamble_length' = preamble_length /\ measured' = measured
      BY <1>1 DEF editing
    <3>2. \A cell, i : FromSave(cell, i)' <=> FromSave(cell, i)
      BY <3>1 DEF FromSave, Since
    <3>3. \A i \in 1 .. kernel_len' :
            IF i <= preamble_length THEN source'[i] = Preamble(preamble_length)[i]
                                    ELSE FromSave(source[i], i - preamble_length)
      BY <2>2, <2>3 DEF Filled
    <3>4. ASSUME NEW i \in 1 .. kernel_len', ~(i <= preamble_length)
          PROVE  FromSave(source[i], i - preamble_length)'
      <4>1. source'[i] = source[i] /\ FromSave(source[i], i - preamble_length)
        BY <2>2, <3>3, <3>4
      <4>. QED BY <3>1, <3>2, <4>1
    <3>. QED BY <3>1, <3>3, <3>4 DEF Filled, Preamble
  <2>5. Types' /\ FileInv'
    BY <1>1, <2>1, <2>2, FileKeeps DEF LoadInv, Types
  <2>6. TextInv'
    BY <1>1, <2>1, <2>2, <2>4 DEF TextInv
  <2>. QED BY <1>1, <2>1, <2>5, <2>6 DEF LoadInv, HeldInv
<1>. QED
  BY <1>2, <1>3 DEF FreadEnd

LEMMA OtherStep ==
  ASSUME LoadInv, Fopen \/ CheckLength \/ CreateProgram \/ UNCHANGED vars
  PROVE  LoadInv'
<1>1. UNCHANGED <<editing, preamble_length, source_length, position, measured, source, kernel_len>>
  BY DEF Fopen, CheckLength, CreateProgram, vars, editing
<1>2. saves' = saves /\ FileInv' /\ file' = file
  BY <1>1, FileKeeps
<1>3. Types'
  BY <1>1, <1>2 DEF LoadInv, Types, Fopen, CheckLength, CreateProgram, vars
<1>4. \A n : Filled(n)' <=> Filled(n)
  BY <1>1, <1>2 DEF Filled, FromSave, Since, Preamble
<1>5. TextInv'
  BY <1>1, <1>4 DEF LoadInv, TextInv, Types, Fopen, CheckLength, CreateProgram, vars
<1>6. HeldInv'
  BY <1>1 DEF LoadInv, HeldInv, TextInv, Types, Fopen, CheckLength, CreateProgram, vars
<1>. QED
  BY <1>2, <1>3, <1>5, <1>6 DEF LoadInv

(***************************************************************************)
(* LoadInv holds throughout a loading.                                     *)
(***************************************************************************)
THEOREM LoadInvariance == Spec => []LoadInv
<1>1. LoadInv /\ [Next]_vars => LoadInv'
  BY EditorStep, FtellStep, MallocStep, FreadSomeStep, FreadEndStep, OtherStep DEF Next, Ended
<1>. QED
  BY LoadInit, <1>1, PTL DEF Spec

(***************************************************************************)
(* Whatever the editor does between the question for the length and the    *)
(* last read, the compiler gets the preamble and as many cells as the file *)
(* had at that question, each from its place in the file and none older    *)
(* than the question.  That is less than the file when the file has grown. *)
(***************************************************************************)
THEOREM CompiledTextIsAsMeasured == Spec => []SourceAsMeasured
<1>1. LoadInv => SourceAsMeasured
  <2>. SUFFICES ASSUME LoadInv, host_pc = "create" PROVE
         /\ kernel_len = preamble_length + Len(measured)
         /\ Len(source) = kernel_len + 1 /\ source[kernel_len + 1] = Terminator
         /\ \A i \in 1 .. preamble_length : source[i] = Preamble(preamble_length)[i]
         /\ \A i \in DOMAIN measured :
              \E save \in measured[i][1] .. saves : source[preamble_length + i] = <<save, i>>
    BY DEF SourceAsMeasured
  <2>1. /\ kernel_len + 1 = Len(source) /\ source[kernel_len + 1] = Terminator
        /\ Filled(kernel_len) /\ kernel_len = preamble_length + Len(measured)
        /\ kernel_len \in Nat /\ preamble_length \in Nat /\ measured \in Seq(Cell)
    BY DEF LoadInv, TextInv, Types
  <2>2. \A i \in 1 .. preamble_length : source[i] = Preamble(preamble_length)[i]
    <3>1. \A i \in 1 .. preamble_length : i \in 1 .. kernel_len /\ i <= preamble_length
      BY <2>1
    <3>. QED BY <2>1, <3>1 DEF Filled
  <2>3. ASSUME NEW i \in DOMAIN measured
        PROVE  \E save \in measured[i][1] .. saves : source[preamble_length + i] = <<save, i>>
    <3>1. i \in 1 .. Len(measured) /\ Len(measured) \in Nat
      BY <2>1
    <3>2. /\ preamble_length + i \in 1 .. kernel_len /\ ~(preamble_length + i <= preamble_length)
          /\ (preamble_length + i) - preamble_length = i
      BY <2>1, <3>1
    <3>3. FromSave(source[preamble_length + i], i)
      BY <2>1, <3>2 DEF Filled
    <3>. QED BY <3>3 DEF FromSave, Since
  <2>. QED BY <2>1, <2>2, <2>3
<1>. QED
  BY <1>1, LoadInvariance, PTL

(***************************************************************************)
(* Every way out of load_file closes the file, and the text does not       *)
(* outlive create_kernel but where clCreateProgramWithSource failed.       *)
(***************************************************************************)
THEOREM LoadingHoldsNothing == Spec => []NothingHeld
<1>1. LoadInv => NothingHeld
  BY DEF LoadInv, HeldInv, NothingHeld
<1>. QED
  BY <1>1, LoadInvariance, PTL

=============================================================================
