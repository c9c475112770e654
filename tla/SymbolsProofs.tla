---------------------------- MODULE SymbolsProofs ----------------------------
(***************************************************************************)
(* Proofs about the symbol table, for every file and every moment at which *)
(* a panic may come.                                                       *)
(***************************************************************************)
EXTENDS Symbols, InductionProofs, SequenceTheorems, TLAPS

-----------------------------------------------------------------------------
(* Numbers *)

\* atoh() takes one digit after the other.
LEMMA AtohSteps ==
  ASSUME NEW d \in Seq(Int)
  PROVE  \E h \in [0..Len(d) -> Int] :
           /\ h[0] = 0
           /\ \A k \in 1..Len(d) : h[k] = h[k - 1] * Base + d[k]
           /\ atoh(d) = h[Len(d)]
<1> DEFINE n == Len(d)
           step == [x \in (1..n) \X Int |-> x[2] * Base + d[x[1]]]
<1>1. n \in Nat /\ DOMAIN d = 1..n /\ Base \in Int /\ 0 \in Int
  BY SymbolsAssumption, LenProperties
<1>2. step \in [(1..n) \X Int -> Int]
  <2>1. \A k \in 1..n : d[k] \in Int
    BY <1>1, ElementOfSeq
  <2>2. \A x \in (1..n) \X Int : x[2] * Base + d[x[1]] \in Int
    BY <1>1, <2>1
  <2> QED
    BY <2>2
<1>3. \E g : IsFold(g, Int, n, 0, step)
  <2> HIDE DEF step, n
  <2> QED
    BY <1>1, <1>2, FoldExists
<1> DEFINE Is(g) == g = [s \in SUBSET (1..n) |->
                           IF s = {} THEN 0
                           ELSE g[s \ {Max(s)}] * Base + d[Max(s)]]
           it == CHOOSE g : Is(g)
<1>4. atoh(d) = it[1..n]
  <2> HIDE DEF n
  <2> QED
    BY <1>1 DEF atoh, FoldLeft, MapThenFoldSet
<1>5. PICK g : IsFold(g, Int, n, 0, step)
  BY <1>3
<1>6. \A s \in SUBSET (1..n) : s # {} => Max(s) \in 1..n
  <2> TAKE s \in SUBSET (1..n)
  <2> HAVE s # {}
  <2>1. Max(s) \in s
    BY <1>1, MaxOfRange
  <2> QED
    BY <2>1
<1>7. \A s \in SUBSET (1..n) : s # {} =>
        step[<<Max(s), g[s \ {Max(s)}]>>] = g[s \ {Max(s)}] * Base + d[Max(s)]
  <2> TAKE s \in SUBSET (1..n)
  <2> HAVE s # {}
  <2>1. s \ {Max(s)} \in SUBSET (1..n)
    OBVIOUS
  <2>2. g[s \ {Max(s)}] \in Int /\ Max(s) \in 1..n
    BY <1>5, <1>6, <2>1 DEF IsFold
  <2> HIDE DEF n
  <2> QED
    BY <2>2
<1>8. Is(g)
  <2>1. \A s \in SUBSET (1..n) :
          g[s] = IF s = {} THEN 0 ELSE g[s \ {Max(s)}] * Base + d[Max(s)]
    BY <1>5, <1>7 DEF IsFold
  <2> HIDE DEF n
  <2> QED
    BY <1>5, <2>1 DEF IsFold
<1>9. Is(it)
  <2> HIDE DEF Is
  <2> QED
    BY <1>8
<1> DEFINE h == [k \in 0..n |-> it[1..k]]
           H == {k \in Nat : k <= n => it[1..k] = g[1..k]}
<1>10. \A k \in 1..n : /\ 1..k \in SUBSET (1..n) /\ 1..k # {}
                        /\ Max(1..k) = k /\ (1..k) \ {k} = 1..k - 1
  <2> HIDE DEF n
  <2> QED
    BY <1>1, Prefix
<1>11. it[1..0] = 0 /\ \A k \in 1..n : it[1..k] = it[1..k - 1] * Base + d[k]
  <2>1. 1..0 = {} /\ {} \in SUBSET (1..n)
    OBVIOUS
  <2> HIDE DEF n, it
  <2>2. it[1..0] = 0
    BY <1>9, <2>1
  <2>3. ASSUME NEW k \in 1..n PROVE it[1..k] = it[1..k - 1] * Base + d[k]
    <3> DEFINE s == 1..k
    <3>1. s \in SUBSET (1..n) /\ s # {} /\ Max(s) = k /\ s \ {k} = 1..k - 1
      BY <1>10
    <3> HIDE DEF s
    <3>2. it[s] = it[s \ {Max(s)}] * Base + d[Max(s)]
      BY <1>9, <3>1
    <3> QED
      BY <3>1, <3>2 DEF s
  <2> QED
    BY <2>2, <2>3
<1>12. \A k \in 0..n : g[1..k] \in Int
  <2>1. \A k \in 0..n : 1..k \in SUBSET (1..n)
    BY <1>1
  <2> QED
    BY <1>5, <2>1 DEF IsFold
<1>13. g[1..0] = 0 /\ \A k \in 1..n : g[1..k] = g[1..k - 1] * Base + d[k]
  <2>1. g[1..0] = 0 /\ \A k \in 1..n : g[1..k] = step[<<k, g[1..k - 1]>>]
    <3>1. 1..0 = {} /\ {} \in SUBSET (1..n)
      OBVIOUS
    <3> HIDE DEF n, step
    <3> QED
      BY <1>5, <1>10, <3>1 DEF IsFold
  <2>2. \A k \in 1..n : k - 1 \in 0..n
    BY <1>1
  <2>3. \A k \in 1..n : g[1..k - 1] \in Int
    BY <1>12, <2>2
  <2> HIDE DEF n
  <2> QED
    BY <2>1, <2>3
<1>14. \A k \in Nat : k \in H
  <2>1. 0 \in H
    BY <1>11, <1>13
  <2>2. ASSUME NEW k \in Nat, k \in H PROVE k + 1 \in H
    <3> SUFFICES ASSUME k + 1 <= n PROVE it[1..k + 1] = g[1..k + 1]
      OBVIOUS
    <3>1. k + 1 \in 1..n /\ k + 1 - 1 = k /\ it[1..k] = g[1..k]
      BY <1>1, <2>2
    <3> HIDE DEF n, it, H
    <3> QED
      BY <1>11, <1>13, <3>1
  <2> HIDE DEF H
  <2> QED
    BY <2>1, <2>2, Induction
<1>15. h \in [0..n -> Int]
  <2>1. \A k \in 0..n : it[1..k] = g[1..k]
    <3>1. \A k \in 0..n : k \in Nat /\ k <= n
      BY <1>1
    <3> HIDE DEF n, it
    <3> QED
      BY <1>14, <3>1
  <2> HIDE DEF it, n
  <2> QED
    BY <1>12, <2>1
<1>16. h[0] = 0 /\ h[n] = it[1..n] /\ \A k \in 1..n : h[k] = h[k - 1] * Base + d[k]
  <2>1. 0 \in 0..n /\ n \in 0..n /\ \A k \in 1..n : k \in 0..n /\ k - 1 \in 0..n
    BY <1>1
  <2> HIDE DEF it, n
  <2> QED
    BY <1>11, <2>1
<1> HIDE DEF h, it
<1> QED
  BY <1>4, <1>15, <1>16
LEMMA AtohInt == \A d \in Seq(Int) : atoh(d) \in Int
<1> TAKE d \in Seq(Int)
<1>1. Len(d) \in 0..Len(d)
  BY LenProperties
<1> QED
  BY <1>1, AtohSteps

-----------------------------------------------------------------------------
(* The inductive invariant: how far symbol_init() got *)

\* The steps of parse_symbol_map(), and those of parse_line() in it.
Parsing == {"line", "name", "name_end", "addr", "addr_end", "len", "line_end"}

Entries ==
  [name : {"?"} \cup {file.lines[k].name : k \in 1..NbLines},
   addr : Int, len : Int]

TypeInv ==
  /\ file \in Files
  /\ nb_syms \in Nat /\ i \in Nat /\ ret \in BOOLEAN
  /\ pc \in {"start", "count", "alloc", "check", "free", "fail", "returned"}
             \cup Parsing

\* The walk that counts: nothing is allocated yet.
CountInv ==
  /\ pc \in {"start", "alloc"} => i = 1
  /\ pc \in {"start", "count", "alloc"} => ~ ret /\ table = "null"
  /\ pc = "start" => nb_syms = 0
  /\ pc = "count" => /\ i \in 1..NbLines + 1 /\ nb_syms = i - 1
                     /\ file.tail = "end" => i <= NbLines
  /\ pc = "alloc" => NbLines > 0 /\ file.tail = "end" /\ nb_syms = NbLines

\* Line k is in the table, with the length it brings itself.
Read(k) ==
  /\ WellFormed(file.lines[k])
  /\ symbols[k].name = file.lines[k].name
  /\ symbols[k].addr = Begin(k)

\* The walk that fills the table: what is before line i is complete but for
\* the length of the last symbol.
TableInv ==
  pc \in Parsing =>
    /\ NbLines > 0 /\ file.tail = "end" /\ nb_syms = NbLines
    /\ table = "allocated" /\ i \in 1..NbLines
    /\ symbols \in [1..NbLines -> Entries]
    /\ \A k \in 1..i - 1 : Read(k)
    /\ \A k \in 1..i - 2 : symbols[k].len = Size(k)
    /\ i > 1 => symbols[i - 1].len = atoh(file.lines[i - 1].rest)

\* parse_line(): what was found of line i.
LineInv ==
  /\ pc \in {"name_end", "addr", "addr_end", "len"} => Line.fields >= 2
  /\ pc \in {"addr", "addr_end", "len"} =>
       Line.name \notin {"", LongName} /\ symbols[i].name = Line.name
  /\ pc \in {"addr_end", "len"} => Line.fields >= 4
  /\ pc = "len" => /\ Len(Line.addr) <= MaxDigits /\ Hexadecimal(Line.addr)
                   /\ symbols[i].addr = Begin(i)
  /\ pc = "line_end" =>
       IF ret THEN Read(i) /\ symbols[i].len = atoh(Line.rest)
              ELSE ~ WellFormed(Line)

\* The bytes that are overwritten now.
ErasedInv ==
  erased = (IF pc \in Parsing \ {"line"} THEN {<<i, "eol">>} ELSE {})
             \cup (IF pc = "name_end" THEN {<<i, "1">>} ELSE {})
             \cup (IF pc = "addr_end" THEN {<<i, "3">>} ELSE {})

\* The end of symbol_init().
Complete ==
  /\ GoodFile
  /\ nb_syms = NbLines /\ table = "allocated"
  /\ symbols = [k \in 1..NbLines |->
                  [name |-> file.lines[k].name, addr |-> Begin(k), len |-> Size(k)]]

EndInv ==
  /\ pc = "check" => Complete /\ i = NbLines
  /\ pc \in {"free", "fail"} => ~ GoodFile
  /\ pc = "free" => table = "allocated"
  /\ pc = "returned" => IF ret THEN Complete ELSE ~ GoodFile /\ nb_syms = 0

LoadInv == TypeInv /\ CountInv /\ TableInv /\ LineInv /\ ErasedInv /\ EndInv

\* What a panic leaves behind.
PanicInv ==
  /\ panicked = "no" => ~ fault
  /\ panicked # "no" => stack \in Stacks
  /\ panicked # "no" /\ pc = "returned" => trace = CallTrace(stack)
  /\ fault => pc \in {"count", "alloc", "fail"} /\ nb_syms > 0
  /\ panicked = "abort" =>
       \E k \in 1..NbLines : ~ (Hexadecimal(file.lines[k].addr)
                                /\ Hexadecimal(file.lines[k].rest))

IInv == LoadInv /\ PanicInv

-----------------------------------------------------------------------------
(* symbol_init() keeps the invariant *)

\* The file, in the form the proofs use it.
LEMMA FileFacts ==
  ASSUME file \in Files
  PROVE  /\ file.tail \in {"end", "nul"}
         /\ NbLines \in Nat
         /\ \A k \in 1..NbLines :
              /\ file.lines[k].fields \in 0..4
              /\ Begin(k) \in Int /\ atoh(file.lines[k].rest) \in Int
              /\ Size(k) \in Int
<1>1. /\ file.tail \in {"end", "nul"}
      /\ NbLines \in Nat /\ DOMAIN file.lines = 1..NbLines
      /\ \A k \in 1..NbLines :
           /\ file.lines[k].fields \in 0..4
           /\ file.lines[k].addr \in Seq(0..(Base - 1) \cup {NotADigit})
           /\ file.lines[k].rest \in Seq(0..(Base - 1) \cup {NotADigit})
  BY SymbolsAssumption DEF NbLines
<1>2. 0..(Base - 1) \cup {NotADigit} \subseteq Int
  BY SymbolsAssumption DEF NotADigit
<1>3. \A d \in Seq(0..(Base - 1) \cup {NotADigit}) : d \in Seq(Int)
  <2> DEFINE D == 0..(Base - 1) \cup {NotADigit}
  <2>1. D \subseteq Int
    BY <1>2
  <2> HIDE DEF D
  <2>2. \A d \in Seq(D) : d \in Seq(Int)
    <3> TAKE d \in Seq(D)
    <3>1. Len(d) \in Nat /\ d \in [1..Len(d) -> D]
      BY LenProperties
    <3>2. d \in [1..Len(d) -> Int]
      BY <2>1, <3>1
    <3> QED
      BY <3>1, <3>2, SeqDef
  <2> QED
    BY <2>2 DEF D
<1>4. \A k \in 1..NbLines : Begin(k) \in Int /\ atoh(file.lines[k].rest) \in Int
  BY <1>1, <1>3, AtohInt DEF Begin
<1>5. \A k \in 1..NbLines : Size(k) \in Int
  <2> TAKE k \in 1..NbLines
  <2>1. CASE k < NbLines
    <3>1. k + 1 \in 1..NbLines
      BY <1>1, <2>1
    <3> QED
      BY <1>4, <2>1, <3>1 DEF Size
  <2>2. CASE ~ (k < NbLines)
    BY <1>4, <2>2 DEF Size
  <2> QED
    BY <2>1, <2>2
<1> QED
  BY <1>1, <1>4, <1>5

\* What depends on the file only does not change with it.
LEMMA FileUnchanged ==
  ASSUME file' = file
  PROVE  /\ NbLines' = NbLines /\ GoodFile' = GoodFile
         /\ \A k : Begin(k)' = Begin(k) /\ Size(k)' = Size(k)
BY DEF NbLines, GoodFile, Begin, Size, WellFormed, Hexadecimal

\* A step that leaves the table alone keeps what is known of it.
LEMMA TableKept ==
  ASSUME TableInv, pc \in Parsing, UNCHANGED <<file, nb_syms, symbols, table, i>>
  PROVE  TableInv'
<1>1. \A k \in 1..i - 1 : Read(k) => Read(k)'
  BY DEF Read, Begin, WellFormed, Hexadecimal
<1>2. \A k : Size(k)' = Size(k)
  BY FileUnchanged
<1>3. Entries' = Entries /\ NbLines' = NbLines
  BY DEF Entries, NbLines
<1> QED
  BY <1>1, <1>2, <1>3 DEF TableInv

\* A step that changes the entry of line i only, too.
LEMMA EntryWritten ==
  ASSUME TypeInv, TableInv, pc \in Parsing, UNCHANGED <<file, nb_syms, table, i>>,
         NEW e \in Entries, symbols' = [symbols EXCEPT ![i] = e]
  PROVE  TableInv' /\ symbols'[i] = e
<1> USE DEF TableInv
<1>1. NbLines \in Nat /\ i \in 1..NbLines
  BY FileFacts DEF TypeInv
<1>2. symbols' \in [1..NbLines -> Entries] /\ symbols'[i] = e
  BY <1>1
<1>3. \A k \in 1..i - 1 : symbols'[k] = symbols[k]
  BY <1>1
<1>4. \A k \in 1..i - 1 : Read(k)'
  <2>1. \A k \in 1..i - 1 : Read(k)
    OBVIOUS
  <2> QED
    BY <1>3, <2>1 DEF Read, Begin, WellFormed, Hexadecimal
<1>5. \A k \in 1..i - 2 : symbols'[k].len = Size(k)
  <2>1. \A k \in 1..i - 2 : k \in 1..i - 1
    BY <1>1
  <2> QED
    BY <1>3, <2>1
<1>6. i > 1 => symbols'[i - 1].len = atoh(file.lines[i - 1].rest)
  <2>1. i > 1 => i - 1 \in 1..i - 1
    BY <1>1
  <2> QED
    BY <1>3, <2>1
<1> QED
  BY <1>1, <1>2, <1>4, <1>5, <1>6, FileUnchanged DEF Entries, NbLines

LEMMA NotLoadedKeeps == LoadInv /\ NotLoaded => LoadInv'
<1> SUFFICES ASSUME LoadInv, NotLoaded PROVE LoadInv'
  OBVIOUS
<1> USE FileFacts, FileUnchanged DEF LoadInv, NotLoaded, Running, LineEnds, sym_map, dump
<1>1. TypeInv'
  BY DEF TypeInv, Parsing
<1>2. CountInv'
  BY DEF TypeInv, CountInv, Parsing
<1>3. TableInv'
  BY DEF TypeInv, CountInv, TableInv, Parsing, Read, Entries
<1>4. LineInv'
  BY DEF TypeInv, TableInv, LineInv, Parsing, Read, Line
<1>5. ErasedInv'
  BY DEF TypeInv, ErasedInv, Parsing
<1>6. EndInv'
  BY DEF TypeInv, CountInv, EndInv, Parsing, GoodFile
<1> QED
  BY <1>1, <1>2, <1>3, <1>4, <1>5, <1>6

LEMMA StartKeeps == LoadInv /\ Start => LoadInv'
<1> SUFFICES ASSUME LoadInv, Start PROVE LoadInv'
  OBVIOUS
<1> USE FileFacts, FileUnchanged DEF LoadInv, Start, Running, LineEnds, sym_map, dump
<1>1. TypeInv'
  BY DEF TypeInv, Parsing
<1>2. CountInv'
  BY DEF TypeInv, CountInv, Parsing
<1>3. TableInv'
  BY DEF TypeInv, CountInv, TableInv, Parsing, Read, Entries
<1>4. LineInv'
  BY DEF TypeInv, TableInv, LineInv, Parsing, Read, Line
<1>5. ErasedInv'
  BY DEF TypeInv, ErasedInv, Parsing
<1>6. EndInv'
  BY DEF TypeInv, CountInv, TableInv, LineInv, EndInv, Parsing, Complete
<1> QED
  BY <1>1, <1>2, <1>3, <1>4, <1>5, <1>6

LEMMA CountLineKeeps == LoadInv /\ CountLine => LoadInv'
<1> SUFFICES ASSUME LoadInv, CountLine PROVE LoadInv'
  OBVIOUS
<1> USE FileFacts, FileUnchanged DEF LoadInv, CountLine, Running, LineEnds, sym_map, dump
<1>1. TypeInv'
  BY DEF TypeInv, Parsing
<1>2. CountInv'
  BY DEF TypeInv, CountInv, Parsing
<1>3. TableInv'
  BY DEF TypeInv, CountInv, TableInv, Parsing, Read, Entries
<1>4. LineInv'
  BY DEF TypeInv, TableInv, LineInv, Parsing, Read, Line
<1>5. ErasedInv'
  BY DEF TypeInv, ErasedInv, Parsing
<1>6. EndInv'
  BY DEF TypeInv, CountInv, TableInv, LineInv, EndInv, Parsing, Complete
<1> QED
  BY <1>1, <1>2, <1>3, <1>4, <1>5, <1>6

LEMMA MissingLineFeedKeeps == LoadInv /\ MissingLineFeed => LoadInv'
<1> SUFFICES ASSUME LoadInv, MissingLineFeed PROVE LoadInv'
  OBVIOUS
<1> USE FileFacts, FileUnchanged DEF LoadInv, MissingLineFeed, Running, LineEnds, sym_map, dump
<1>1. TypeInv'
  BY DEF TypeInv, Parsing
<1>2. CountInv'
  BY DEF TypeInv, CountInv, Parsing
<1>3. TableInv'
  BY DEF TypeInv, CountInv, TableInv, Parsing, Read, Entries
<1>4. LineInv'
  BY DEF TypeInv, TableInv, LineInv, Parsing, Read, Line
<1>5. ErasedInv'
  BY DEF TypeInv, ErasedInv, Parsing
<1>6. EndInv'
  BY DEF TypeInv, CountInv, EndInv, Parsing, GoodFile
<1> QED
  BY <1>1, <1>2, <1>3, <1>4, <1>5, <1>6

LEMMA KmallocKeeps == LoadInv /\ Kmalloc => LoadInv'
<1> SUFFICES ASSUME LoadInv, Kmalloc PROVE LoadInv'
  OBVIOUS
<1> USE FileFacts, FileUnchanged DEF LoadInv, Kmalloc, Running, LineEnds, sym_map, dump
<1>1. TypeInv'
  BY DEF TypeInv, Parsing
<1>2. CountInv'
  BY DEF TypeInv, CountInv, Parsing
<1>3. TableInv'
  <2>1. NbLines \in Nat /\ NbLines > 0 /\ file.tail = "end" /\ nb_syms = NbLines /\ i = 1
    BY DEF TypeInv, CountInv
  <2>2. symbols' \in [1..NbLines -> Entries]
    BY <2>1 DEF Entries, Uninitialised
  <2>3. i \in 1..NbLines /\ 1..i - 1 = {} /\ 1..i - 2 = {} /\ ~ (i > 1)
    BY <2>1
  <2> QED
    BY <2>1, <2>2, <2>3 DEF TableInv, Entries, NbLines
<1>4. LineInv'
  BY DEF TypeInv, TableInv, LineInv, Parsing, Read, Line
<1>5. ErasedInv'
  BY DEF TypeInv, ErasedInv, Parsing
<1>6. EndInv'
  BY DEF TypeInv, CountInv, TableInv, LineInv, EndInv, Parsing, Complete
<1> QED
  BY <1>1, <1>2, <1>3, <1>4, <1>5, <1>6

LEMMA LineStartsKeeps == LoadInv /\ LineStarts => LoadInv'
<1> SUFFICES ASSUME LoadInv, LineStarts PROVE LoadInv'
  OBVIOUS
<1> USE FileFacts, FileUnchanged DEF LoadInv, LineStarts, Running, LineEnds, sym_map, dump
<1>1. TypeInv'
  BY DEF TypeInv, Parsing
<1>2. CountInv'
  BY DEF TypeInv, CountInv, Parsing
<1>3. TableInv'
  BY TableKept DEF Parsing
<1>4. LineInv'
  BY DEF TypeInv, TableInv, LineInv, Parsing, Read, Line
<1>5. ErasedInv'
  BY DEF TypeInv, ErasedInv, Parsing
<1>6. EndInv'
  BY DEF TypeInv, CountInv, TableInv, LineInv, EndInv, Parsing, Complete
<1> QED
  BY <1>1, <1>2, <1>3, <1>4, <1>5, <1>6

LEMMA NoNameKeeps == LoadInv /\ NoName => LoadInv'
<1> SUFFICES ASSUME LoadInv, NoName PROVE LoadInv'
  OBVIOUS
<1> USE FileFacts, FileUnchanged DEF LoadInv, NoName, Running, LineEnds, sym_map, dump
<1>1. TypeInv'
  BY DEF TypeInv, Parsing
<1>2. CountInv'
  BY DEF TypeInv, CountInv, Parsing
<1>3. TableInv'
  BY TableKept DEF Parsing
<1>4. LineInv'
  <2>1. ~ WellFormed(Line)
    <3> DEFINE f == Line.fields
    <3>1. f < 2 /\ (WellFormed(Line) => f = 4)
      BY DEF WellFormed
    <3> HIDE DEF f
    <3>2. f # 4
      BY <3>1
    <3> QED
      BY <3>1, <3>2
  <2>2. Line' = Line /\ WellFormed(Line)' = WellFormed(Line)
    BY DEF Line, WellFormed, Hexadecimal
  <2> QED
    BY <2>1, <2>2 DEF LineInv
<1>5. ErasedInv'
  BY DEF TypeInv, ErasedInv, Parsing
<1>6. EndInv'
  BY DEF TypeInv, CountInv, TableInv, LineInv, EndInv, Parsing, Complete
<1> QED
  BY <1>1, <1>2, <1>3, <1>4, <1>5, <1>6

LEMMA NameStartsKeeps == LoadInv /\ NameStarts => LoadInv'
<1> SUFFICES ASSUME LoadInv, NameStarts PROVE LoadInv'
  OBVIOUS
<1> USE FileFacts, FileUnchanged DEF LoadInv, NameStarts, Running, LineEnds, sym_map, dump
<1>1. TypeInv'
  BY DEF TypeInv, Parsing
<1>2. CountInv'
  BY DEF TypeInv, CountInv, Parsing
<1>3. TableInv'
  BY TableKept DEF Parsing
<1>4. LineInv'
  BY DEF TypeInv, TableInv, LineInv, Parsing, Read, Line
<1>5. ErasedInv'
  BY DEF TypeInv, ErasedInv, Parsing
<1>6. EndInv'
  BY DEF TypeInv, CountInv, TableInv, LineInv, EndInv, Parsing, Complete
<1> QED
  BY <1>1, <1>2, <1>3, <1>4, <1>5, <1>6

LEMMA BadNameKeeps == LoadInv /\ BadName => LoadInv'
<1> SUFFICES ASSUME LoadInv, BadName PROVE LoadInv'
  OBVIOUS
<1> USE FileFacts, FileUnchanged DEF LoadInv, BadName, Running, LineEnds, sym_map, dump
<1>1. TypeInv'
  BY DEF TypeInv, Parsing
<1>2. CountInv'
  BY DEF TypeInv, CountInv, Parsing
<1>3. TableInv'
  BY TableKept DEF Parsing
<1>4. LineInv'
  <2>1. ~ WellFormed(Line)
    BY DEF WellFormed, TypeInv, TableInv, LineInv, Parsing, Line
  <2>2. Line' = Line /\ WellFormed(Line)' = WellFormed(Line)
    BY DEF Line, WellFormed, Hexadecimal
  <2> QED
    BY <2>1, <2>2 DEF LineInv
<1>5. ErasedInv'
  <2>1. erased = {<<i, "eol">>} \cup {<<i, "1">>}
    BY DEF ErasedInv, Parsing
  <2>2. <<i, "eol">> # <<i, "1">>
    OBVIOUS
  <2>3. erased' = {<<i, "eol">>} /\ i' = i
    BY <2>1, <2>2
  <2> QED
    BY <2>3 DEF ErasedInv, Parsing
<1>6. EndInv'
  BY DEF TypeInv, CountInv, TableInv, LineInv, EndInv, Parsing, Complete
<1> QED
  BY <1>1, <1>2, <1>3, <1>4, <1>5, <1>6

LEMMA CopyNameKeeps == LoadInv /\ CopyName => LoadInv'
<1> SUFFICES ASSUME LoadInv, CopyName PROVE LoadInv'
  OBVIOUS
<1> USE FileFacts, FileUnchanged DEF LoadInv, CopyName, Running, LineEnds, sym_map, dump
<1>1. TypeInv'
  BY DEF TypeInv, Parsing
<1>2. CountInv'
  BY DEF TypeInv, CountInv, Parsing
<1>3. TableInv'
  <2> DEFINE e == [symbols[i] EXCEPT !.name = Line.name]
  <2>1. i \in 1..NbLines /\ symbols \in [1..NbLines -> Entries]
    BY DEF TableInv, Parsing
  <2>2. e \in Entries /\ symbols' = [symbols EXCEPT ![i] = e]
    BY <2>1 DEF Entries, TypeInv, Line, Begin
  <2>3. TypeInv /\ TableInv /\ pc \in Parsing
    BY DEF Parsing
  <2> QED
    BY <2>2, <2>3, EntryWritten
<1>4. LineInv'
  <2>1. i \in 1..NbLines /\ symbols \in [1..NbLines -> Entries]
    BY DEF TableInv, Parsing
  <2>2. symbols'[i] = [symbols[i] EXCEPT !.name = Line.name] /\ symbols[i] \in Entries
    BY <2>1
  <2>3. Line.fields >= 2
    BY DEF LineInv
  <2> QED
    BY <2>1, <2>2, <2>3 DEF LineInv, Line, Begin, Entries, Read, Hexadecimal
<1>5. ErasedInv'
  <2>1. erased = {<<i, "eol">>} \cup {<<i, "1">>}
    BY DEF ErasedInv, Parsing
  <2>2. <<i, "eol">> # <<i, "1">>
    OBVIOUS
  <2>3. erased' = {<<i, "eol">>} /\ i' = i
    BY <2>1, <2>2
  <2> QED
    BY <2>3 DEF ErasedInv, Parsing
<1>6. EndInv'
  BY DEF TypeInv, CountInv, TableInv, LineInv, EndInv, Parsing, Complete
<1> QED
  BY <1>1, <1>2, <1>3, <1>4, <1>5, <1>6

LEMMA NoAddrKeeps == LoadInv /\ NoAddr => LoadInv'
<1> SUFFICES ASSUME LoadInv, NoAddr PROVE LoadInv'
  OBVIOUS
<1> USE FileFacts, FileUnchanged DEF LoadInv, NoAddr, Running, LineEnds, sym_map, dump
<1>1. TypeInv'
  BY DEF TypeInv, Parsing
<1>2. CountInv'
  BY DEF TypeInv, CountInv, Parsing
<1>3. TableInv'
  BY TableKept DEF Parsing
<1>4. LineInv'
  <2>1. ~ WellFormed(Line)
    <3> DEFINE f == Line.fields
    <3>1. f < 4 /\ (WellFormed(Line) => f = 4)
      BY DEF WellFormed
    <3> HIDE DEF f
    <3>2. f # 4
      BY <3>1
    <3> QED
      BY <3>1, <3>2
  <2>2. Line' = Line /\ WellFormed(Line)' = WellFormed(Line)
    BY DEF Line, WellFormed, Hexadecimal
  <2> QED
    BY <2>1, <2>2 DEF LineInv
<1>5. ErasedInv'
  BY DEF TypeInv, ErasedInv, Parsing
<1>6. EndInv'
  BY DEF TypeInv, CountInv, TableInv, LineInv, EndInv, Parsing, Complete
<1> QED
  BY <1>1, <1>2, <1>3, <1>4, <1>5, <1>6

LEMMA AddrStartsKeeps == LoadInv /\ AddrStarts => LoadInv'
<1> SUFFICES ASSUME LoadInv, AddrStarts PROVE LoadInv'
  OBVIOUS
<1> USE FileFacts, FileUnchanged DEF LoadInv, AddrStarts, Running, LineEnds, sym_map, dump
<1>1. TypeInv'
  BY DEF TypeInv, Parsing
<1>2. CountInv'
  BY DEF TypeInv, CountInv, Parsing
<1>3. TableInv'
  BY TableKept DEF Parsing
<1>4. LineInv'
  BY DEF TypeInv, TableInv, LineInv, Parsing, Read, Line
<1>5. ErasedInv'
  BY DEF TypeInv, ErasedInv, Parsing
<1>6. EndInv'
  BY DEF TypeInv, CountInv, TableInv, LineInv, EndInv, Parsing, Complete
<1> QED
  BY <1>1, <1>2, <1>3, <1>4, <1>5, <1>6

LEMMA LongAddrKeeps == LoadInv /\ LongAddr => LoadInv'
<1> SUFFICES ASSUME LoadInv, LongAddr PROVE LoadInv'
  OBVIOUS
<1> USE FileFacts, FileUnchanged DEF LoadInv, LongAddr, Running, LineEnds, sym_map, dump
<1>1. TypeInv'
  BY DEF TypeInv, Parsing
<1>2. CountInv'
  BY DEF TypeInv, CountInv, Parsing
<1>3. TableInv'
  BY TableKept DEF Parsing
<1>4. LineInv'
  <2>1. ~ WellFormed(Line)
    <3>1. Len(Line.addr) \in Int /\ MaxDigits \in Int
      BY SymbolsAssumption, LenProperties DEF TypeInv, TableInv, Parsing, Line, NbLines
    <3> DEFINE l == Len(Line.addr)
    <3>2. l > MaxDigits /\ l \in Int /\ (WellFormed(Line) => l <= MaxDigits)
      BY <3>1 DEF WellFormed
    <3> HIDE DEF l
    <3>3. ~ (l <= MaxDigits)
      BY <3>1, <3>2
    <3> QED
      BY <3>2, <3>3
  <2>2. Line' = Line /\ WellFormed(Line)' = WellFormed(Line)
    BY DEF Line, WellFormed, Hexadecimal
  <2> QED
    BY <2>1, <2>2 DEF LineInv
<1>5. ErasedInv'
  BY DEF TypeInv, ErasedInv, Parsing
<1>6. EndInv'
  BY DEF TypeInv, CountInv, TableInv, LineInv, EndInv, Parsing, Complete
<1> QED
  BY <1>1, <1>2, <1>3, <1>4, <1>5, <1>6

LEMMA CopyAddrKeeps == LoadInv /\ CopyAddr => LoadInv'
<1> SUFFICES ASSUME LoadInv, CopyAddr PROVE LoadInv'
  OBVIOUS
<1> USE FileFacts, FileUnchanged DEF LoadInv, CopyAddr, Running, LineEnds, sym_map, dump
<1>1. TypeInv'
  BY DEF TypeInv, Parsing
<1>2. CountInv'
  BY DEF TypeInv, CountInv, Parsing
<1>3. TableInv'
  <2> DEFINE e == [symbols[i] EXCEPT !.addr = atoh(Line.addr)]
  <2>1. i \in 1..NbLines /\ symbols \in [1..NbLines -> Entries]
    BY DEF TableInv, Parsing
  <2>2. e \in Entries /\ symbols' = [symbols EXCEPT ![i] = e]
    BY <2>1 DEF Entries, TypeInv, Line, Begin
  <2>3. TypeInv /\ TableInv /\ pc \in Parsing
    BY DEF Parsing
  <2> QED
    BY <2>2, <2>3, EntryWritten
<1>4. LineInv'
  <2>1. i \in 1..NbLines /\ symbols \in [1..NbLines -> Entries]
    BY DEF TableInv, Parsing
  <2>2. symbols'[i] = [symbols[i] EXCEPT !.addr = atoh(Line.addr)] /\ symbols[i] \in Entries
    BY <2>1
  <2>3. Line.fields >= 4 /\ Line.name \notin {"", LongName} /\ symbols[i].name = Line.name
    BY DEF LineInv
  <2> QED
    BY <2>1, <2>2, <2>3 DEF LineInv, Line, Begin, Entries, Read, Hexadecimal
<1>5. ErasedInv'
  BY DEF TypeInv, ErasedInv, Parsing
<1>6. EndInv'
  BY DEF TypeInv, CountInv, TableInv, LineInv, EndInv, Parsing, Complete
<1> QED
  BY <1>1, <1>2, <1>3, <1>4, <1>5, <1>6

LEMMA LongLenKeeps == LoadInv /\ LongLen => LoadInv'
<1> SUFFICES ASSUME LoadInv, LongLen PROVE LoadInv'
  OBVIOUS
<1> USE FileFacts, FileUnchanged DEF LoadInv, LongLen, Running, LineEnds, sym_map, dump
<1>1. TypeInv'
  BY DEF TypeInv, Parsing
<1>2. CountInv'
  BY DEF TypeInv, CountInv, Parsing
<1>3. TableInv'
  BY TableKept DEF Parsing
<1>4. LineInv'
  <2>1. ~ WellFormed(Line)
    <3>1. Len(Line.rest) \in Int /\ MaxDigits \in Int
      BY SymbolsAssumption, LenProperties DEF TypeInv, TableInv, Parsing, Line, NbLines
    <3> DEFINE l == Len(Line.rest)
    <3>2. l > MaxDigits /\ l \in Int /\ (WellFormed(Line) => l <= MaxDigits)
      BY <3>1 DEF WellFormed
    <3> HIDE DEF l
    <3>3. ~ (l <= MaxDigits)
      BY <3>1, <3>2
    <3> QED
      BY <3>2, <3>3
  <2>2. Line' = Line /\ WellFormed(Line)' = WellFormed(Line)
    BY DEF Line, WellFormed, Hexadecimal
  <2> QED
    BY <2>1, <2>2 DEF LineInv
<1>5. ErasedInv'
  BY DEF TypeInv, ErasedInv, Parsing
<1>6. EndInv'
  BY DEF TypeInv, CountInv, TableInv, LineInv, EndInv, Parsing, Complete
<1> QED
  BY <1>1, <1>2, <1>3, <1>4, <1>5, <1>6

LEMMA CopyLenKeeps == LoadInv /\ CopyLen => LoadInv'
<1> SUFFICES ASSUME LoadInv, CopyLen PROVE LoadInv'
  OBVIOUS
<1> USE FileFacts, FileUnchanged DEF LoadInv, CopyLen, Running, LineEnds, sym_map, dump
<1>1. TypeInv'
  BY DEF TypeInv, Parsing
<1>2. CountInv'
  BY DEF TypeInv, CountInv, Parsing
<1>3. TableInv'
  <2> DEFINE e == [symbols[i] EXCEPT !.len = atoh(Line.rest)]
  <2>1. i \in 1..NbLines /\ symbols \in [1..NbLines -> Entries]
    BY DEF TableInv, Parsing
  <2>2. e \in Entries /\ symbols' = [symbols EXCEPT ![i] = e]
    BY <2>1 DEF Entries, TypeInv, Line, Begin
  <2>3. TypeInv /\ TableInv /\ pc \in Parsing
    BY DEF Parsing
  <2> QED
    BY <2>2, <2>3, EntryWritten
<1>4. LineInv'
  <2>1. i \in 1..NbLines /\ symbols \in [1..NbLines -> Entries]
    BY DEF TableInv, Parsing
  <2>2. symbols'[i] = [symbols[i] EXCEPT !.len = atoh(Line.rest)] /\ symbols[i] \in Entries
    BY <2>1
  <2>3. /\ WellFormed(Line)' /\ Line.name \notin {"", LongName}
        /\ symbols[i].name = Line.name /\ symbols[i].addr = Begin(i)
    <3>1. Line.fields \in 0..4
      BY <2>1 DEF TypeInv, Line
    <3>2. Line.fields >= 4 /\ Line.name \notin {"", LongName}
          /\ symbols[i].name = Line.name /\ symbols[i].addr = Begin(i)
          /\ Len(Line.addr) <= MaxDigits /\ Hexadecimal(Line.addr)
      BY DEF LineInv
    <3>3. Line.fields = 4
      <4> DEFINE f == Line.fields
      <4>1. f \in 0..4 /\ f >= 4
        BY <3>1, <3>2
      <4> HIDE DEF f
      <4>2. f = 4
        BY <4>1
      <4> QED
        BY <4>2 DEF f
    <3>4. WellFormed(Line)
      BY <3>2, <3>3 DEF WellFormed
    <3>5. WellFormed(Line)' = WellFormed(Line)
      BY DEF WellFormed, Line, Hexadecimal
    <3> QED
      BY <3>2, <3>4, <3>5
  <2> QED
    BY <2>1, <2>2, <2>3 DEF LineInv, Line, Begin, Entries, Read, Hexadecimal
<1>5. ErasedInv'
  BY DEF TypeInv, ErasedInv, Parsing
<1>6. EndInv'
  BY DEF TypeInv, CountInv, TableInv, LineInv, EndInv, Parsing, Complete
<1> QED
  BY <1>1, <1>2, <1>3, <1>4, <1>5, <1>6

LEMMA BadLineKeeps == LoadInv /\ BadLine => LoadInv'
<1> SUFFICES ASSUME LoadInv, BadLine PROVE LoadInv'
  OBVIOUS
<1> USE FileFacts, FileUnchanged DEF LoadInv, BadLine, Running, LineEnds, sym_map, dump
<1>1. TypeInv'
  BY DEF TypeInv, Parsing
<1>2. CountInv'
  BY DEF TypeInv, CountInv, Parsing
<1>3. TableInv'
  BY DEF TypeInv, CountInv, TableInv, Parsing, Read, Entries
<1>4. LineInv'
  BY DEF TypeInv, TableInv, LineInv, Parsing, Read, Line
<1>5. ErasedInv'
  BY DEF TypeInv, ErasedInv, Parsing
<1>6. EndInv'
  <2>1. ~ WellFormed(Line) /\ i \in 1..NbLines /\ table = "allocated"
    BY DEF LineInv, TableInv, Parsing
  <2>2. ~ GoodFile
    BY <2>1 DEF GoodFile, Line
  <2> QED
    BY <2>1, <2>2 DEF EndInv
<1> QED
  BY <1>1, <1>2, <1>3, <1>4, <1>5, <1>6

LEMMA GoodLineKeeps == LoadInv /\ GoodLine => LoadInv'
<1> SUFFICES ASSUME LoadInv, GoodLine PROVE LoadInv'
  OBVIOUS
<1> USE FileFacts, FileUnchanged DEF LoadInv, GoodLine, Running, sym_map, dump
<1>0. /\ NbLines > 0 /\ file.tail = "end" /\ nb_syms = NbLines
      /\ table = "allocated" /\ i \in 1..NbLines /\ NbLines \in Nat
      /\ symbols \in [1..NbLines -> Entries]
      /\ \A k \in 1..i - 1 : Read(k)
      /\ \A k \in 1..i - 2 : symbols[k].len = Size(k)
      /\ Read(i) /\ symbols[i].len = atoh(file.lines[i].rest)
  BY DEF TypeInv, TableInv, LineInv, Parsing, Line
<1>1. TypeInv'
  BY DEF TypeInv, Parsing
<1>2. CountInv'
  BY DEF TypeInv, CountInv, Parsing
<1>a. /\ symbols' \in [1..NbLines -> Entries]
      /\ \A k \in 1..i : /\ symbols'[k].name = symbols[k].name
                          /\ symbols'[k].addr = symbols[k].addr
      /\ \A k \in 1..i - 1 : symbols'[k].len = Size(k)
      /\ symbols'[i].len = atoh(file.lines[i].rest)
  <2>1. CASE i = 1
    BY <1>0, <2>1
  <2>2. CASE i # 1
    <3> DEFINE l == symbols[i].addr - symbols[i - 1].addr
               e == [symbols[i - 1] EXCEPT !.len = l]
    <3>1. i - 1 \in 1..i - 1 /\ i - 1 \in 1..NbLines /\ i - 1 < NbLines
      BY <1>0, <2>2
    <3>2. symbols[i - 1].addr = Begin(i - 1) /\ symbols[i].addr = Begin(i)
      BY <1>0, <3>1 DEF Read
    <3>3. i - 1 + 1 = i
      BY <1>0
    <3>4. l = Size(i - 1)
      BY <3>1, <3>2, <3>3 DEF Size
    <3>5. l \in Int
      BY <3>1, <3>4 DEF TypeInv
    <3> HIDE DEF l
    <3>6. e \in Entries /\ e.len = l /\ e.name = symbols[i - 1].name
          /\ e.addr = symbols[i - 1].addr
      BY <1>0, <3>1, <3>5 DEF Entries
    <3>7. symbols' = [symbols EXCEPT ![i - 1] = e]
      BY <2>2 DEF l
    <3> HIDE DEF e
    <3>8. symbols' \in [1..NbLines -> Entries]
      BY <1>0, <3>6, <3>7
    <3>9. symbols'[i - 1] = e /\ \A k \in 1..NbLines : k # i - 1 => symbols'[k] = symbols[k]
      BY <1>0, <3>1, <3>7
    <3>10. \A k \in 1..i : /\ symbols'[k].name = symbols[k].name
                           /\ symbols'[k].addr = symbols[k].addr
      <4> TAKE k \in 1..i
      <4>1. k \in 1..NbLines
        BY <1>0
      <4> QED
        BY <3>6, <3>9, <4>1
    <3>11. \A k \in 1..i - 1 : symbols'[k].len = Size(k)
      <4> TAKE k \in 1..i - 1
      <4>1. CASE k = i - 1
        BY <3>4, <3>6, <3>9, <4>1
      <4>2. CASE k # i - 1
        <5>1. k \in 1..i - 2 /\ k \in 1..NbLines
          BY <1>0, <4>2
        <5> QED
          BY <1>0, <3>9, <4>2, <5>1
      <4> QED
        BY <4>1, <4>2
    <3>12. symbols'[i].len = atoh(file.lines[i].rest)
      <4>1. i # i - 1
        BY <1>0
      <4> QED
        BY <1>0, <3>9, <4>1
    <3> QED
      BY <3>8, <3>10, <3>11, <3>12
  <2> QED
    BY <2>1, <2>2
<1>b. \A k \in 1..i : WellFormed(file.lines[k]) /\ Read(k)'
  <2> TAKE k \in 1..i
  <2>1. Read(k)
    <3>1. k = i \/ k \in 1..i - 1
      BY <1>0
    <3> QED
      BY <1>0, <3>1
  <2> QED
    BY <1>a, <2>1 DEF Read, Begin, WellFormed, Hexadecimal
<1>3. TableInv'
  <2> SUFFICES ASSUME pc' \in Parsing PROVE TableInv'
    BY DEF TableInv
  <2>1. i < NbLines /\ i' = i + 1
    BY DEF Parsing
  <2>2. i' - 1 = i /\ i' - 2 = i - 1 /\ i' \in 1..NbLines
    BY <1>0, <2>1
  <2>3. Entries' = Entries /\ NbLines' = NbLines
    BY DEF Entries, NbLines
  <2>4. file'.lines[i].rest = file.lines[i].rest /\ table' = "allocated"
    BY <1>0
  <2> HIDE DEF GoodLine
  <2>5. /\ \A k \in 1..i' - 1 : Read(k)'
        /\ \A k \in 1..i' - 2 : symbols'[k].len = Size(k)'
        /\ symbols'[i' - 1].len = atoh(file'.lines[i' - 1].rest)
    <3>1. \A k : Size(k)' = Size(k)
      BY DEF GoodLine
    <3> QED
      BY <1>a, <1>b, <2>2, <2>4, <3>1
  <2>6. NbLines' > 0 /\ file'.tail = "end" /\ nb_syms' = NbLines'
    BY <1>0, <2>3 DEF GoodLine
  <2>7. symbols' \in [1..NbLines' -> Entries'] /\ i' \in 1..NbLines'
    BY <1>a, <2>2, <2>3
  <2> QED
    BY <2>4, <2>5, <2>6, <2>7 DEF TableInv
<1>4. LineInv'
  BY DEF LineInv
<1>5. ErasedInv'
  BY DEF TypeInv, ErasedInv, Parsing
<1>6. EndInv'
  <2>1. CASE i < NbLines
    BY <2>1 DEF EndInv
  <2>2. CASE ~ (i < NbLines)
    <3>1. i = NbLines /\ pc' = "check" /\ i' = i
      BY <1>0, <2>2
    <3>2. GoodFile
      BY <1>0, <1>b, <3>1 DEF GoodFile
    <3> DEFINE full == [k \in 1..NbLines |->
                         [name |-> file.lines[k].name, addr |-> Begin(k), len |-> Size(k)]]
    <3>3. ASSUME NEW k \in 1..NbLines PROVE symbols'[k] = full[k]
      <4>1. symbols'[k] \in Entries /\ Read(k)'
        BY <1>a, <1>b, <3>1
      <4>2. symbols'[k].name = file.lines[k].name /\ symbols'[k].addr = Begin(k)
        BY <4>1 DEF Read
      <4>3. symbols'[k].len = Size(k)
        <5>1. CASE k = i
          BY <1>0, <1>a, <3>1, <5>1 DEF Size
        <5>2. CASE k # i
          <6>1. k \in 1..i - 1
            BY <1>0, <3>1, <5>2
          <6> QED
            BY <1>a, <6>1
        <5> QED
          BY <5>1, <5>2
      <4> QED
        BY <4>1, <4>2, <4>3 DEF Entries
    <3>4. symbols' = full
      <4> HIDE DEF GoodLine
      <4>1. symbols' \in [1..NbLines -> Entries]
        BY <1>a
      <4> QED
        BY <3>3, <4>1
    <3>5. Complete'
      BY <1>0, <3>2, <3>4 DEF Complete
    <3> QED
      BY <3>1, <3>5 DEF EndInv, NbLines
  <2> QED
    BY <2>1, <2>2
<1> QED
  BY <1>1, <1>2, <1>3, <1>4, <1>5, <1>6

LEMMA CheckKeeps == LoadInv /\ Check => LoadInv'
<1> SUFFICES ASSUME LoadInv, Check PROVE LoadInv'
  OBVIOUS
<1> USE FileFacts, FileUnchanged DEF LoadInv, Check, Running, LineEnds, sym_map, dump
<1>1. TypeInv'
  BY DEF TypeInv, Parsing
<1>2. CountInv'
  BY DEF TypeInv, CountInv, Parsing
<1>3. TableInv'
  BY DEF TypeInv, CountInv, TableInv, Parsing, Read, Entries
<1>4. LineInv'
  BY DEF TypeInv, TableInv, LineInv, Parsing, Read, Line
<1>5. ErasedInv'
  BY DEF TypeInv, ErasedInv, Parsing
<1>6. EndInv'
  <2>1. Complete /\ i = NbLines /\ nb_syms = NbLines
    BY DEF EndInv, Complete
  <2>2. ret' = TRUE /\ pc' = "returned"
    BY <2>1
  <2>3. Complete'
    BY <2>1 DEF Complete
  <2> QED
    BY <2>2, <2>3 DEF EndInv
<1> QED
  BY <1>1, <1>2, <1>3, <1>4, <1>5, <1>6

LEMMA FreeKeeps == LoadInv /\ Free => LoadInv'
<1> SUFFICES ASSUME LoadInv, Free PROVE LoadInv'
  OBVIOUS
<1> USE FileFacts, FileUnchanged DEF LoadInv, Free, Running, LineEnds, sym_map, dump
<1>1. TypeInv'
  BY DEF TypeInv, Parsing
<1>2. CountInv'
  BY DEF TypeInv, CountInv, Parsing
<1>3. TableInv'
  BY DEF TypeInv, CountInv, TableInv, Parsing, Read, Entries
<1>4. LineInv'
  BY DEF TypeInv, TableInv, LineInv, Parsing, Read, Line
<1>5. ErasedInv'
  BY DEF TypeInv, ErasedInv, Parsing
<1>6. EndInv'
  BY DEF TypeInv, CountInv, TableInv, LineInv, EndInv, Parsing, Complete
<1> QED
  BY <1>1, <1>2, <1>3, <1>4, <1>5, <1>6

LEMMA FailKeeps == LoadInv /\ Fail => LoadInv'
<1> SUFFICES ASSUME LoadInv, Fail PROVE LoadInv'
  OBVIOUS
<1> USE FileFacts, FileUnchanged DEF LoadInv, Fail, Running, LineEnds, sym_map, dump
<1>1. TypeInv'
  BY DEF TypeInv, Parsing
<1>2. CountInv'
  BY DEF TypeInv, CountInv, Parsing
<1>3. TableInv'
  BY DEF TypeInv, CountInv, TableInv, Parsing, Read, Entries
<1>4. LineInv'
  BY DEF TypeInv, TableInv, LineInv, Parsing, Read, Line
<1>5. ErasedInv'
  BY DEF TypeInv, ErasedInv, Parsing
<1>6. EndInv'
  BY DEF TypeInv, CountInv, TableInv, LineInv, EndInv, Parsing, Complete
<1> QED
  BY <1>1, <1>2, <1>3, <1>4, <1>5, <1>6

-----------------------------------------------------------------------------
(* A panic keeps it, too *)

\* What the loader works on.
loader == <<file, erased, nb_syms, symbols, table, pc, i, ret>>

LEMMA LoaderUnchanged == LoadInv /\ UNCHANGED loader => LoadInv'
<1> SUFFICES ASSUME LoadInv, UNCHANGED loader PROVE LoadInv'
  OBVIOUS
<1> USE DEF LoadInv, loader
<1>1. /\ NbLines' = NbLines /\ GoodFile' = GoodFile /\ Entries' = Entries
      /\ \A k : Begin(k)' = Begin(k) /\ Size(k)' = Size(k)
  BY FileUnchanged DEF Entries, NbLines
<1>2. TypeInv' /\ CountInv' /\ ErasedInv'
  BY <1>1 DEF TypeInv, CountInv, ErasedInv
<1>3. TableInv'
  <2>1. CASE pc \in Parsing
    BY <2>1, TableKept
  <2>2. CASE pc \notin Parsing
    BY <2>2 DEF TableInv
  <2> QED
    BY <2>1, <2>2
<1>4. LineInv'
  <2>1. Line' = Line /\ WellFormed(Line)' = WellFormed(Line)
        /\ Hexadecimal(Line.addr)' = Hexadecimal(Line.addr)
        /\ Read(i)' = Read(i)
    BY <1>1 DEF Line, WellFormed, Hexadecimal, Read
  <2> QED
    BY <1>1, <2>1 DEF LineInv
<1>5. EndInv'
  <2>1. Complete' = Complete
    BY <1>1 DEF Complete
  <2> QED
    BY <1>1, <2>1 DEF EndInv
<1> QED
  BY <1>2, <1>3, <1>4, <1>5

\* The call trace depends on the table and the stack.
LEMMA TraceUnchanged ==
  ASSUME UNCHANGED <<nb_syms, symbols>>, NEW frames
  PROVE  CallTrace(frames)' = CallTrace(frames)
<1>1. \A a : Before(a)' = Before(a)
  BY DEF Before
<1>2. \A a : symbol_find(a)' = symbol_find(a)
  <2> TAKE a
  <2>1. Before(a)' = Before(a)
    BY <1>1
  <2> QED
    BY <2>1 DEF symbol_find, NoSymbol
<1>3. \A n : symbol_lookup(n)' = symbol_lookup(n)
  BY DEF symbol_lookup
<1>4. \A f : FrameLines(f)' = FrameLines(f)
  BY <1>2, <1>3 DEF FrameLines
<1> QED
  BY <1>4 DEF CallTrace

\* The step of a panic: when it comes, the table is in memory unless the loader
\* is at one of the three places.
LEMMA PanicStep ==
  ASSUME IInv, UNCHANGED loader, NEW reason, NEW frames \in Stacks,
         panic(reason, frames), reason \in {"interrupt", "no memory", "abort"},
         reason = "abort" =>
           \E k \in 1..NbLines : ~ (Hexadecimal(file.lines[k].addr)
                                    /\ Hexadecimal(file.lines[k].rest))
  PROVE  IInv'
<1> USE DEF IInv
<1>1. LoadInv'
  BY LoaderUnchanged
<1>2. UNCHANGED <<file, nb_syms, symbols, table, pc>>
  BY DEF loader
<1>3. stack' = frames /\ panicked' = reason /\ panicked' # "no"
  BY DEF panic
<1>4. pc' = "returned" => trace' = CallTrace(stack)'
  <2>1. ASSUME pc = "returned" PROVE trace' = CallTrace(frames)
    BY <2>1 DEF panic
  <2>2. CallTrace(frames)' = CallTrace(frames)
    BY <1>2, TraceUnchanged
  <2>3. CallTrace(stack)' = CallTrace(frames)'
    BY <1>3
  <2> QED
    BY <1>2, <2>1, <2>2, <2>3
<1>5. fault' => pc' \in {"count", "alloc", "fail"} /\ nb_syms' > 0
  <2> SUFFICES ASSUME fault' PROVE pc \in {"count", "alloc", "fail"} /\ nb_syms > 0
    BY <1>2
  <2>1. nb_syms # 0 /\ table # "allocated"
    BY DEF panic
  <2>2. nb_syms > 0
    <3>1. nb_syms \in Nat
      BY DEF LoadInv, TypeInv
    <3> QED
      BY ONLY <2>1, <3>1
  <2>3. pc # "start" /\ pc \notin Parsing /\ pc # "check" /\ pc # "free"
    BY <2>1 DEF LoadInv, CountInv, TableInv, EndInv, Complete
  <2>4. pc # "returned"
    BY <2>1 DEF LoadInv, EndInv, Complete
  <2> QED
    BY <2>2, <2>3, <2>4 DEF LoadInv, TypeInv
<1>6. panicked' = "abort" =>
       \E k \in 1..NbLines' : ~ (Hexadecimal(file'.lines[k].addr)
                                /\ Hexadecimal(file'.lines[k].rest))
  BY <1>2, <1>3 DEF NbLines
<1>7. PanicInv'
  BY <1>3, <1>4, <1>5, <1>6 DEF PanicInv, Hexadecimal
<1> QED
  BY <1>1, <1>7

\* atoh() gives up over a character that is no digit.
LEMMA AbortKeeps ==
  ASSUME IInv, NEW frames \in Stacks, Abort(frames)
  PROVE  IInv'
<1>1. i \in 1..NbLines
  BY DEF Abort, Running, IInv, LoadInv, TableInv, Parsing
<1>2. ~ (Hexadecimal(file.lines[i].addr) /\ Hexadecimal(file.lines[i].rest))
  BY DEF Abort, Line
<1>3. UNCHANGED loader /\ panic("abort", frames)
  BY DEF Abort, loader, sym_map
<1> QED
  BY <1>1, <1>2, <1>3, PanicStep

\* While nothing panics, nothing of a panic changes.
LEMMA NoPanicKeeps ==
  ASSUME IInv, LoadInv', panicked = "no", UNCHANGED dump
  PROVE  IInv'
BY DEF IInv, PanicInv, dump

LEMMA InductiveStep == IInv /\ [Next]_vars => IInv'
<1> SUFFICES ASSUME IInv, [Next]_vars PROVE IInv'
  OBVIOUS
<1>0. LoadInv
  BY DEF IInv
<1>1. CASE NotLoaded
  BY <1>0, <1>1, NotLoadedKeeps, NoPanicKeeps DEF NotLoaded, Running
<1>2. CASE Start
  BY <1>0, <1>2, StartKeeps, NoPanicKeeps DEF Start, Running
<1>3. CASE CountLine
  BY <1>0, <1>3, CountLineKeeps, NoPanicKeeps DEF CountLine, Running
<1>4. CASE MissingLineFeed
  BY <1>0, <1>4, MissingLineFeedKeeps, NoPanicKeeps DEF MissingLineFeed, Running
<1>5. CASE Kmalloc
  BY <1>0, <1>5, KmallocKeeps, NoPanicKeeps DEF Kmalloc, Running
<1>6. CASE LineStarts
  BY <1>0, <1>6, LineStartsKeeps, NoPanicKeeps DEF LineStarts, Running
<1>7. CASE NoName
  BY <1>0, <1>7, NoNameKeeps, NoPanicKeeps DEF NoName, Running
<1>8. CASE NameStarts
  BY <1>0, <1>8, NameStartsKeeps, NoPanicKeeps DEF NameStarts, Running
<1>9. CASE BadName
  BY <1>0, <1>9, BadNameKeeps, NoPanicKeeps DEF BadName, Running
<1>10. CASE CopyName
  BY <1>0, <1>10, CopyNameKeeps, NoPanicKeeps DEF CopyName, Running
<1>11. CASE NoAddr
  BY <1>0, <1>11, NoAddrKeeps, NoPanicKeeps DEF NoAddr, Running
<1>12. CASE AddrStarts
  BY <1>0, <1>12, AddrStartsKeeps, NoPanicKeeps DEF AddrStarts, Running
<1>13. CASE LongAddr
  BY <1>0, <1>13, LongAddrKeeps, NoPanicKeeps DEF LongAddr, Running
<1>14. CASE CopyAddr
  BY <1>0, <1>14, CopyAddrKeeps, NoPanicKeeps DEF CopyAddr, Running
<1>15. CASE LongLen
  BY <1>0, <1>15, LongLenKeeps, NoPanicKeeps DEF LongLen, Running
<1>16. CASE CopyLen
  BY <1>0, <1>16, CopyLenKeeps, NoPanicKeeps DEF CopyLen, Running
<1>17. CASE BadLine
  BY <1>0, <1>17, BadLineKeeps, NoPanicKeeps DEF BadLine, Running
<1>18. CASE GoodLine
  BY <1>0, <1>18, GoodLineKeeps, NoPanicKeeps DEF GoodLine, Running
<1>19. CASE Check
  BY <1>0, <1>19, CheckKeeps, NoPanicKeeps DEF Check, Running
<1>20. CASE Free
  BY <1>0, <1>20, FreeKeeps, NoPanicKeeps DEF Free, Running
<1>21. CASE Fail
  BY <1>0, <1>21, FailKeeps, NoPanicKeeps DEF Fail, Running
<1>22. CASE \E frames \in Stacks : KmallocFails(frames)
  <2>1. PICK frames \in Stacks : KmallocFails(frames)
    BY <1>22
  <2>2. UNCHANGED loader /\ panic("no memory", frames)
    BY <2>1 DEF KmallocFails, loader, sym_map
  <2> QED
    BY <2>2, PanicStep
<1>23. CASE \E frames \in Stacks : Abort(frames)
  BY <1>23, AbortKeeps
<1>24. CASE \E frames \in Stacks : InterruptPanics(frames)
  <2>1. PICK frames \in Stacks : InterruptPanics(frames)
    BY <1>24
  <2>2. UNCHANGED loader /\ panic("interrupt", frames)
    BY <2>1 DEF InterruptPanics, loader, sym_map
  <2> QED
    BY <2>2, PanicStep
<1>25. CASE UNCHANGED vars
  <2>1. UNCHANGED loader /\ UNCHANGED <<panicked, fault, stack, trace>>
    BY <1>25 DEF vars, loader, sym_map, dump
  <2>2. LoadInv'
    BY <1>0, <2>1, LoaderUnchanged
  <2>3. CallTrace(stack)' = CallTrace(stack)
    <3>1. UNCHANGED <<nb_syms, symbols>>
      BY <2>1 DEF loader
    <3>2. PICK frames : frames = stack
      OBVIOUS
    <3>3. CallTrace(frames)' = CallTrace(frames)
      BY <3>1, TraceUnchanged
    <3>4. CallTrace(stack)' = CallTrace(frames)'
      BY <2>1, <3>2
    <3> QED
      BY <3>2, <3>3, <3>4
  <2>4. PanicInv'
    BY <2>1, <2>3 DEF IInv, PanicInv, loader, NbLines, Hexadecimal
  <2> QED
    BY <2>2, <2>4 DEF IInv
<1> QED
  BY <1>1, <1>2, <1>3, <1>4, <1>5, <1>6, <1>7, <1>8, <1>9, <1>10, <1>11, <1>12, <1>13, <1>14, <1>15, <1>16, <1>17, <1>18, <1>19, <1>20, <1>21, <1>22, <1>23, <1>24, <1>25 DEF Next, symbol_init

LEMMA InitialState == Init => IInv
<1> SUFFICES ASSUME Init PROVE IInv
  OBVIOUS
<1> USE DEF Init
<1>1. LoadInv
  BY DEF LoadInv, TypeInv, CountInv, TableInv, LineInv, ErasedInv, EndInv, Parsing
<1>2. PanicInv
  BY DEF PanicInv
<1> QED
  BY <1>1, <1>2 DEF IInv

\* The inductive invariant: what is in the table, what is overwritten in the
\* file and what a panic found, at every step of symbol_init().
THEOREM Loading == Spec => []IInv
<1> QED
  BY InitialState, InductiveStep, PTL DEF Spec

\* symbol_init() loads exactly the files of its grammar, entry by entry, puts
\* every byte back that it overwrites and leaves no table behind if it fails.
THEOREM Loads == Spec => []LoadsTheFile
<1>1. IInv => LoadsTheFile
  <2> SUFFICES ASSUME IInv PROVE LoadsTheFile
    OBVIOUS
  <2>1. ASSUME pc = "returned"
        PROVE  /\ erased = {}
               /\ ret <=> GoodFile
               /\ nb_syms = IF ret THEN NbLines ELSE 0
               /\ \A k \in 1..nb_syms :
                    symbols[k] = [name |-> file.lines[k].name, addr |-> Begin(k),
                                  len |-> Size(k)]
    <3>1. IF ret THEN Complete ELSE ~ GoodFile /\ nb_syms = 0
      BY <2>1 DEF IInv, LoadInv, EndInv
    <3>2. erased = {}
      BY <2>1 DEF IInv, LoadInv, ErasedInv, Parsing
    <3>3. ret \in BOOLEAN
      BY DEF IInv, LoadInv, TypeInv
    <3>4. 1..0 = {}
      OBVIOUS
    <3> QED
      BY <3>1, <3>2, <3>3, <3>4 DEF Complete
  <2> QED
    BY <2>1 DEF LoadsTheFile, IInv, PanicInv
<1> QED
  BY <1>1, Loading, PTL

\* A panic faults only where nb_syms is set and the pointer is not.
THEOREM FindsTheTable == Spec => []PanicFindsTheTable
<1>1. IInv => PanicFindsTheTable
  BY DEF IInv, PanicInv, PanicFindsTheTable
<1> QED
  BY <1>1, Loading, PTL

-----------------------------------------------------------------------------
(* The call trace *)

\* The symbols an address may belong to, by the addresses of the file.
Owners(addr) ==
  {k \in 1..NbLines :
     /\ Begin(k) <= addr /\ addr # 0
     /\ \A j \in k + 1..NbLines : addr < Begin(j)
     /\ Size(k) > 0 => addr < Begin(k) + Size(k)}

LEMMA OwnerIs ==
  \A a : Owner(a) = IF Owners(a) = {} THEN "?????"
                    ELSE file.lines[CHOOSE k \in Owners(a) : TRUE].name
BY DEF Owner, Owners

\* A loaded file, in the form the proofs use it.
Loaded == file \in Files /\ Complete /\ Sorted(file.lines) /\ StubIsBounded

LEMMA LoadedFacts ==
  ASSUME Loaded
  PROVE  /\ NbLines \in Nat /\ NbLines > 0
         /\ \A k \in 1..NbLines :
              /\ Begin(k) \in Int /\ Size(k) \in Int
              /\ symbols[k].name = file.lines[k].name
              /\ symbols[k].addr = Begin(k) /\ symbols[k].len = Size(k)
         /\ \A j, k \in 1..NbLines : j <= k => Begin(j) <= Begin(k)
         /\ \A j, k \in 1..NbLines :
              file.lines[j].name = Stub /\ file.lines[k].name = Stub => j = k
         /\ \A k \in 1..NbLines : k < NbLines => Size(k) = Begin(k + 1) - Begin(k)
<1> USE DEF Loaded
<1>1. NbLines \in Nat /\ NbLines > 0 /\ DOMAIN file.lines = 1..NbLines
  BY SymbolsAssumption DEF NbLines, Complete, GoodFile
<1>2. \A k \in 1..NbLines : Begin(k) \in Int /\ Size(k) \in Int
  BY FileFacts
<1>3. \A k \in 1..NbLines :
        /\ symbols[k].name = file.lines[k].name
        /\ symbols[k].addr = Begin(k) /\ symbols[k].len = Size(k)
  BY DEF Complete
<1>4. ASSUME NEW j \in 1..NbLines, NEW k \in 1..NbLines, j <= k
      PROVE  Begin(j) <= Begin(k)
  <2>1. CASE j = k
    BY <1>2, <2>1
  <2>2. CASE j # k
    <3>1. j < k
      BY <1>1, <1>4, <2>2
    <3> QED
      BY <1>1, <3>1 DEF Sorted, Begin
  <2> QED
    BY <2>1, <2>2
<1>5. \A j, k \in 1..NbLines :
        file.lines[j].name = Stub /\ file.lines[k].name = Stub => j = k
  BY <1>1 DEF Sorted
<1>6. \A k \in 1..NbLines : k < NbLines => Size(k) = Begin(k + 1) - Begin(k)
  BY DEF Size
<1> QED
  BY <1>1, <1>2, <1>3, <1>4, <1>5, <1>6

\* symbol_find() stops at the last symbol that begins at or below the address.
LEMMA LastBefore ==
  ASSUME Loaded, NEW a \in Int
  PROVE  /\ Before(a) = {k \in 1..NbLines : Begin(k) <= a}
         /\ Before(a) # {} =>
              LET m == CHOOSE k \in Before(a) : \A j \in Before(a) : j <= k
              IN  m \in Before(a) /\ \A j \in Before(a) : j <= m
<1>1. Before(a) = {k \in 1..NbLines : Begin(k) <= a}
  <2>1. nb_syms = NbLines
    BY DEF Loaded, Complete
  <2>2. ASSUME NEW k \in 1..NbLines
        PROVE  (\A j \in 1..k : symbols[j].addr <= a) <=> Begin(k) <= a
    <3>1. \A j \in 1..k : /\ j \in 1..NbLines /\ j <= k
                          /\ symbols[j].addr = Begin(j)
                          /\ Begin(j) \in Int /\ Begin(j) <= Begin(k)
      <4> TAKE j \in 1..k
      <4>1. j \in 1..NbLines /\ j <= k
        BY LoadedFacts
      <4> QED
        BY <4>1, LoadedFacts
    <3>2. k \in 1..k /\ Begin(k) \in Int
      BY LoadedFacts
    <3> QED
      BY <3>1, <3>2
  <2> QED
    BY <2>1, <2>2 DEF Before
<1>2. ASSUME Before(a) # {}
      PROVE  \E m \in Before(a) : \A j \in Before(a) : j <= m
  <2>1. Before(a) \subseteq 0..NbLines
    BY <1>1, LoadedFacts
  <2> QED
    BY <1>2, <2>1, GreatestNatural, LoadedFacts
<1> QED
  BY <1>1, <1>2

\* For a sorted file, symbol_find() returns the function the address is in.
LEMMA FindsOwner ==
  ASSUME Loaded, NEW a \in Nat
  PROVE  symbol_find(a).name = Owner(a)
<1>1. CASE Before(a) = {}
  <2>1. Owners(a) = {}
    BY <1>1, LastBefore DEF Owners
  <2> QED
    BY <1>1, <2>1, OwnerIs DEF symbol_find, NoSymbol
<1>2. CASE Before(a) # {}
  <2> DEFINE m == CHOOSE k \in Before(a) : \A j \in Before(a) : j <= k
  <2>1. m \in Before(a) /\ \A j \in Before(a) : j <= m
    BY <1>2, LastBefore
  <2>2. symbol_find(a) = IF a = 0 \/ (symbols[m].len > 0 /\ a >= symbols[m].addr + symbols[m].len)
                         THEN NoSymbol ELSE symbols[m]
    BY <1>2 DEF symbol_find
  <2> HIDE DEF m
  <2>3. m \in 1..NbLines /\ Begin(m) <= a
    BY <2>1, LastBefore
  <2>4. \A j \in m + 1..NbLines : a < Begin(j)
    <3> TAKE j \in m + 1..NbLines
    <3>1. j \in 1..NbLines /\ ~ (j <= m)
      BY <2>3, LoadedFacts
    <3>2. ~ (Begin(j) <= a)
      BY <2>1, <3>1, LastBefore
    <3>3. Begin(j) \in Int
      BY <3>1, LoadedFacts
    <3> QED
      BY <3>2, <3>3
  <2>5. ASSUME NEW k \in Owners(a) PROVE k = m
    <3>1. k \in 1..NbLines /\ Begin(k) <= a /\ \A j \in k + 1..NbLines : a < Begin(j)
      BY DEF Owners
    <3>2. k <= m
      BY <2>1, <3>1, LastBefore
    <3>3. ~ (k < m)
      <4> SUFFICES ASSUME k < m PROVE FALSE
        OBVIOUS
      <4>1. m \in k + 1..NbLines
        BY <2>3, <3>1, LoadedFacts
      <4>2. a < Begin(m) /\ Begin(m) \in Int
        BY <2>3, <3>1, <4>1, LoadedFacts
      <4> QED
        BY <2>3, <4>2
    <3> QED
      BY <2>3, <3>1, <3>2, <3>3
  <2>6. symbols[m].name = file.lines[m].name /\ symbols[m].addr = Begin(m)
        /\ symbols[m].len = Size(m) /\ Begin(m) \in Int /\ Size(m) \in Int
    BY <2>3, LoadedFacts
  <2>7. m \in Owners(a) <=> a # 0 /\ (Size(m) > 0 => a < Begin(m) + Size(m))
    BY <2>3, <2>4 DEF Owners
  <2>8. CASE m \in Owners(a)
    <3>1. (CHOOSE k \in Owners(a) : TRUE) = m
      BY <2>5, <2>8
    <3>2. Owner(a) = file.lines[m].name
      BY <2>8, <3>1, OwnerIs
    <3>3. symbol_find(a) = symbols[m]
      BY <2>2, <2>6, <2>7, <2>8
    <3> QED
      BY <2>6, <3>2, <3>3
  <2>9. CASE m \notin Owners(a)
    <3>1. Owners(a) = {}
      BY <2>5, <2>9
    <3>2. symbol_find(a) = NoSymbol
      BY <2>2, <2>6, <2>7, <2>9
    <3> QED
      BY <3>1, <3>2, OwnerIs DEF NoSymbol
  <2> QED
    BY <2>8, <2>9
<1> QED
  BY <1>1, <1>2

\* Its test for the stub of the interrupt handlers is right, too.
LEMMA StubIsFound ==
  ASSUME Loaded, NEW a \in Nat, a # 0
  PROVE  LET stub == symbol_lookup(Stub)
         IN  (a >= stub.addr /\ a < stub.addr + stub.len) <=> Owner(a) = Stub
<1> DEFINE found == {k \in 1..nb_syms : symbols[k].name = Stub}
           stub == symbol_lookup(Stub)
<1>0. found = {k \in 1..NbLines : file.lines[k].name = Stub}
  <2>1. nb_syms = NbLines
    BY DEF Loaded, Complete
  <2>2. \A k \in 1..NbLines : symbols[k].name = file.lines[k].name
    BY LoadedFacts
  <2> QED
    BY <2>1, <2>2
<1>1. \A k \in Owners(a) : k \in 1..NbLines
  BY DEF Owners
<1>2. CASE found = {}
  <2>1. stub = NoSymbol
    BY <1>2 DEF symbol_lookup
  <2>2. ~ (a >= stub.addr /\ a < stub.addr + stub.len)
    BY <2>1 DEF NoSymbol
  <2>3. Owner(a) # Stub
    <3>1. CASE Owners(a) = {}
      BY <3>1, OwnerIs DEF Stub
    <3>2. CASE Owners(a) # {}
      <4>1. (CHOOSE k \in Owners(a) : TRUE) \in Owners(a)
        BY <3>2
      <4> QED
        BY <1>0, <1>1, <1>2, <3>2, <4>1, OwnerIs
    <3> QED
      BY <3>1, <3>2
  <2> QED
    BY <2>2, <2>3
<1>3. CASE found # {}
  <2>1. PICK s \in found : TRUE
    BY <1>3
  <2>2. s \in 1..NbLines /\ file.lines[s].name = Stub
    BY <1>0
  <2>3. \A k \in found : k = s
    BY <1>0, <2>2, LoadedFacts
  <2>4. (CHOOSE k \in found : \A j \in found : k <= j) = s
    <3>1. s <= s
      BY <2>2
    <3>2. \E k \in found : \A j \in found : k <= j
      BY <2>1, <2>3, <3>1
    <3> HIDE DEF found
    <3>3. (CHOOSE k \in found : \A j \in found : k <= j) \in found
      BY <3>2
    <3> QED
      BY <2>3, <3>3
  <2>5. stub = symbols[s]
    <3>1. stub = symbols[CHOOSE k \in found : \A j \in found : k <= j]
      BY <1>3 DEF symbol_lookup
    <3> QED
      BY <2>4, <3>1
  <2>6. stub.addr = Begin(s) /\ stub.len = Size(s) /\ Begin(s) \in Int /\ Size(s) \in Int
    BY <2>2, <2>5, LoadedFacts
  <2> HIDE DEF stub, found
  <2>7. ASSUME Begin(s) <= a, a < Begin(s) + Size(s) PROVE Owner(a) = Stub
    <3>1. \A j \in s + 1..NbLines : a < Begin(j)
      <4> TAKE j \in s + 1..NbLines
      <4>1. s < NbLines /\ s + 1 \in 1..NbLines /\ j \in 1..NbLines /\ s + 1 <= j
        BY <2>2, LoadedFacts
      <4>2. Size(s) = Begin(s + 1) - Begin(s) /\ Begin(s + 1) \in Int /\ Begin(j) \in Int
            /\ Begin(s + 1) <= Begin(j)
        BY <2>2, <4>1, LoadedFacts
      <4> QED
        BY <2>6, <2>7, <4>2
    <3>2. s \in Owners(a)
      BY <2>2, <2>7, <3>1 DEF Owners
    <3>3. \A k \in Owners(a) : k = s
      <4> TAKE k \in Owners(a)
      <4>1. k \in 1..NbLines /\ Begin(k) <= a /\ \A j \in k + 1..NbLines : a < Begin(j)
        BY DEF Owners
      <4>2. ~ (k < s)
        <5> SUFFICES ASSUME k < s PROVE FALSE
          OBVIOUS
        <5>1. s \in k + 1..NbLines
          BY <2>2, <4>1, LoadedFacts
        <5>2. a < Begin(s)
          BY <4>1, <5>1
        <5> QED
          BY <2>6, <2>7, <5>2
      <4>3. ~ (s < k)
        <5> SUFFICES ASSUME s < k PROVE FALSE
          OBVIOUS
        <5>1. k \in s + 1..NbLines
          BY <2>2, <4>1, LoadedFacts
        <5>2. a < Begin(k) /\ Begin(k) \in Int
          BY <3>1, <4>1, <5>1, LoadedFacts
        <5> QED
          BY <4>1, <5>2
      <4> QED
        BY <2>2, <4>1, <4>2, <4>3
    <3>4. (CHOOSE k \in Owners(a) : TRUE) = s
      BY <3>2, <3>3
    <3> QED
      BY <2>2, <3>2, <3>4, OwnerIs
  <2>8. ASSUME Owner(a) = Stub PROVE Begin(s) <= a /\ a < Begin(s) + Size(s)
    <3>1. Owners(a) # {}
      BY <2>8, OwnerIs DEF Stub
    <3> DEFINE k == CHOOSE k \in Owners(a) : TRUE
    <3>2. k \in Owners(a)
      BY <3>1
    <3>3. Owner(a) = file.lines[k].name
      BY <3>1, OwnerIs
    <3> HIDE DEF k
    <3>4. k = s
      <4>1. k \in 1..NbLines
        BY <1>1, <3>2
      <4> QED
        BY <2>2, <2>8, <3>3, <4>1, LoadedFacts
    <3>5. s \in Owners(a)
      BY <3>2, <3>4
    <3>6. Begin(s) <= a /\ (\A j \in s + 1..NbLines : a < Begin(j))
          /\ (Size(s) > 0 => a < Begin(s) + Size(s))
      BY <3>5 DEF Owners
    <3>7. CASE s < NbLines
      <4>1. s + 1 \in s + 1..NbLines /\ s + 1 \in 1..NbLines
        BY <2>2, <3>7, LoadedFacts
      <4>2. a < Begin(s + 1) /\ Size(s) = Begin(s + 1) - Begin(s) /\ Begin(s + 1) \in Int
        BY <2>2, <3>6, <3>7, <4>1, LoadedFacts
      <4> QED
        BY <2>6, <3>6, <4>2
    <3>8. CASE ~ (s < NbLines)
      <4>1. Size(s) > 0
        BY <2>2, <3>8 DEF Loaded, StubIsBounded
      <4> QED
        BY <3>6, <4>1
    <3> QED
      BY <3>7, <3>8
  <2>9. a >= Begin(s) /\ a < Begin(s) + Size(s) <=> Owner(a) = Stub
    <3> DEFINE b == Begin(s)
               o == Owner(a)
    <3>1. b \in Int
      BY <2>6
    <3>2. a >= b <=> b <= a
      <4> HIDE DEF b
      <4> QED
        BY <3>1
    <3> QED
      BY <2>7, <2>8, <3>2
  <2>10. a >= stub.addr /\ a < stub.addr + stub.len <=> Owner(a) = Stub
    BY <2>6, <2>9
  <2> QED
    BY <2>10 DEF stub
<1> QED
  BY <1>2, <1>3

\* The trace names the function of every frame and, below the stub, the one
\* that was interrupted.
THEOREM Traces == Spec => []TraceIsRight
<1>1. IInv => TraceIsRight
  <2> SUFFICES ASSUME IInv, panicked = "interrupt", pc = "returned", ret,
                      Sorted(file.lines), StubIsBounded
               PROVE  TraceIsRight
    BY DEF TraceIsRight
  <2>1. Loaded
    BY DEF Loaded, IInv, LoadInv, TypeInv, EndInv
  <2>2. trace = CallTrace(stack) /\ stack \in Stacks
    BY DEF IInv, PanicInv
  <2>3. ASSUME NEW k \in Walked(stack)
        PROVE  FrameLines(stack[k]) =
                 <<Owner(stack[k].eip)>>
                   \o (IF Owner(stack[k].eip) = Stub
                       THEN <<Owner(stack[k].interrupted)>> ELSE <<>>)
    <3>1. stack \in Seq([eip : Nat, ebp : Nat, interrupted : Nat])
      BY <2>2, SymbolsAssumption
    <3>2. k \in 1..Len(stack) /\ stack[k].eip # 0
      <4>1. Len(stack) \in Nat
        BY <3>1, LenProperties
      <4>2. k \in 1..Len(stack) /\ \A j \in 1..k : stack[j].eip # 0
        BY DEF Walked
      <4>3. k \in 1..k
        BY <4>1, <4>2
      <4> QED
        BY <4>2, <4>3
    <3>3. stack[k] \in [eip : Nat, ebp : Nat, interrupted : Nat]
      BY <3>1, <3>2, ElementOfSeq
    <3>4. stack[k].eip \in Nat /\ stack[k].interrupted \in Nat
      BY <3>3
    <3>5. symbol_find(stack[k].eip).name = Owner(stack[k].eip)
          /\ symbol_find(stack[k].interrupted).name = Owner(stack[k].interrupted)
      BY <2>1, <3>4, FindsOwner
    <3>6. LET stub == symbol_lookup(Stub)
          IN  (stack[k].eip >= stub.addr /\ stack[k].eip < stub.addr + stub.len)
                <=> Owner(stack[k].eip) = Stub
      BY <2>1, <3>2, <3>4, StubIsFound
    <3> QED
      BY <3>5, <3>6 DEF FrameLines
  <2> QED
    BY <2>2, <2>3 DEF TraceIsRight, CallTrace
<1> QED
  BY <1>1, Loading, PTL

=============================================================================
