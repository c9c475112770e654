------------------------------ MODULE Symbols ------------------------------
(***************************************************************************)
(* The symbol table (src/kernel/kernel/symbol.c): symbol_init() reads the  *)
(* file symbols.map where the bootloader put it, with interrupts on, and   *)
(* panic() (src/kernel/arch/i386/panic.c), which may come at any moment,   *)
(* looks up names for its call trace.                                      *)
(*                                                                         *)
(* A line is the fields between its blanks: [fields, name, addr, rest],    *)
(* rest being what follows the third blank; a line with fewer than four    *)
(* fields has fewer blanks.  Numbers are sequences of digits, any other    *)
(* character is NotADigit.  The file is [lines, tail]: tail is "nul" if a  *)
(* null byte follows the last line feed before the end of the file, as     *)
(* behind a line without line feed.  A last line whose line feed is only   *)
(* found in the memory behind the file is a line like the others.          *)
(***************************************************************************)
EXTENDS Integers, Sequences, SequencesExt

CONSTANTS
  Files,      \* the files to load
  Stacks,     \* the call stacks to trace: sequences of frames
  Base,       \* of the digits: 16
  MaxDigits,  \* 2 * sizeof(addr)
  LongName    \* a name of SYMBOL_MAX_LEN characters or more

NotADigit == -1
Stub == "isr_common_stub"

ASSUME SymbolsAssumption ==
  /\ Base \in Nat \ {0, 1} /\ MaxDigits \in Nat \ {0}
  /\ \A f \in Files :
       /\ f.tail \in {"end", "nul"}
       /\ Len(f.lines) \in Nat /\ DOMAIN f.lines = 1..Len(f.lines)
       /\ \A k \in DOMAIN f.lines :
            /\ f.lines[k].fields \in 0..4
            /\ f.lines[k].addr \in Seq(0..(Base - 1) \cup {NotADigit})
            /\ f.lines[k].rest \in Seq(0..(Base - 1) \cup {NotADigit})
  /\ Stacks \subseteq Seq([eip : Nat, ebp : Nat, interrupted : Nat])

VARIABLES
  file,      \* symbols.map
  erased,    \* the bytes overwritten by null: <<line, blank or "eol">>
  nb_syms,   \* sym_map.nb_syms
  symbols,   \* what sym_map.symbols points to
  table,     \* the state of that pointer: "null", "allocated", "freed"
  pc, i, ret,  \* of symbol_init() and the functions it calls
  panicked,  \* why the kernel stopped, "no" while it runs
  fault,     \* panic() touched memory that is not mapped
  stack, trace  \* what panic() walked and printed

sym_map == <<nb_syms, symbols, table>>
dump    == <<panicked, fault, stack, trace>>
vars    == <<file, erased, sym_map, pc, i, ret, dump>>

\* An entry of the array that was not filled in yet.
Uninitialised == [name |-> "?", addr |-> 0, len |-> 0]

Init ==
  /\ file \in Files
  /\ erased = {}
  /\ nb_syms = 0 /\ symbols = <<>> /\ table = "null"
  /\ pc = "start" /\ i = 1 /\ ret = FALSE
  /\ panicked = "no" /\ fault = FALSE /\ stack = <<>> /\ trace = <<>>

-----------------------------------------------------------------------------
(* symbol_find(), symbol_lookup() and the walk of panic() *)

NoSymbol == [name |-> "?????", addr |-> 0, len |-> 0]

\* The symbols before the first one that is above addr.
Before(addr) ==
  {k \in 1..nb_syms : \A j \in 1..k : symbols[j].addr <= addr}

\* Faulty variant: an address right behind the symbol belongs to it.
symbol_find_OneTooFar(addr) ==
  LET last == IF Before(addr) = {} THEN NoSymbol
              ELSE symbols[CHOOSE k \in Before(addr) :
                             \A j \in Before(addr) : j <= k]
  IN  IF addr = 0 \/ (last.len > 0 /\ addr > last.addr + last.len)
      THEN NoSymbol ELSE last

\* The last of them, unless addr is known to be behind it.
symbol_find(addr) ==
  LET last == IF Before(addr) = {} THEN NoSymbol
              ELSE symbols[CHOOSE k \in Before(addr) :
                             \A j \in Before(addr) : j <= k]
  IN  IF addr = 0 \/ (last.len > 0 /\ addr >= last.addr + last.len)
      THEN NoSymbol ELSE last

symbol_lookup(name) ==
  LET found == {k \in 1..nb_syms : symbols[k].name = name}
  IN  IF found = {} THEN NoSymbol
      ELSE symbols[CHOOSE k \in found : \A j \in found : k <= j]

\* What panic() prints for one frame: the function the return address is in
\* and, if that is the stub of the interrupt handlers, the function that was
\* interrupted, whose address is 13 words up.
FrameLines(frame) ==
  LET stub == symbol_lookup(Stub)
  IN  <<symbol_find(frame.eip).name>>
        \o (IF frame.eip >= stub.addr /\ frame.eip < stub.addr + stub.len
            THEN <<symbol_find(frame.interrupted).name>> ELSE <<>>)

\* The walk ends at a frame without return address or without caller.
Walked(frames) ==
  {k \in 1..Len(frames) :
     \A j \in 1..k : frames[j].eip # 0 /\ frames[j].ebp # 0}

CallTrace(frames) ==
  FlattenSeq([k \in Walked(frames) |-> FrameLines(frames[k])])

\* panic(): it looks up the stub, which reads the table if nb_syms says there
\* is one.  With a null pointer that faults (page 0 is not mapped), behind a
\* freed one there may still be memory or not; the fault comes before anything
\* is printed, and its handler panics again.  The trace of a panic while the
\* table is filled is not followed: it depends on what was in that memory.
panic(reason, frames) ==
  /\ panicked = "no"
  /\ panicked' = reason
  /\ stack' = frames
  /\ fault' \in IF nb_syms = 0 \/ table = "allocated" THEN {FALSE}
                ELSE IF table = "null" THEN {TRUE} ELSE BOOLEAN
  /\ trace' = IF nb_syms > 0 /\ pc # "returned" THEN <<>>
              ELSE CallTrace(frames)

\* The handler of an interrupt panics: an unknown vector, an overflow of the
\* tick counter...
InterruptPanics(frames) ==
  /\ panic("interrupt", frames)
  /\ UNCHANGED <<file, erased, sym_map, pc, i, ret>>

-----------------------------------------------------------------------------
(* symbol_init() *)

Running(at) == panicked = "no" /\ pc = at

NbLines == Len(file.lines)

\* Without a file there is nothing to do.
NotLoaded ==
  /\ Running("start")
  /\ NbLines = 0 /\ file.tail = "end"
  /\ pc' = "returned"
  /\ UNCHANGED <<file, erased, sym_map, i, ret, dump>>

Start ==
  /\ Running("start")
  /\ ~ (NbLines = 0 /\ file.tail = "end")
  /\ nb_syms' = 0
  /\ pc' = "count"
  /\ UNCHANGED <<file, erased, symbols, table, i, ret, dump>>

\* The first walk counts the line feeds.
CountLine ==
  /\ Running("count")
  /\ i <= NbLines
  /\ nb_syms' = nb_syms + 1
  /\ IF i = NbLines /\ file.tail = "end"
       THEN pc' = "alloc" /\ i' = 1
       ELSE pc' = "count" /\ i' = i + 1
  /\ UNCHANGED <<file, erased, symbols, table, ret, dump>>

MissingLineFeed ==
  /\ Running("count")
  /\ i > NbLines
  /\ pc' = "fail"
  /\ UNCHANGED <<file, erased, sym_map, i, ret, dump>>

Kmalloc ==
  /\ Running("alloc")
  /\ symbols' = [k \in 1..nb_syms |-> Uninitialised]
  /\ table' = "allocated"
  /\ pc' = "line"
  /\ UNCHANGED <<file, erased, nb_syms, i, ret, dump>>

\* No memory: NOT_IMPLEMENTED().
KmallocFails(frames) ==
  /\ Running("alloc")
  /\ panic("no memory", frames)
  /\ UNCHANGED <<file, erased, sym_map, pc, i, ret>>

\* The second walk, parse_symbol_map(): the end of the line becomes a null
\* byte while parse_line() works on it.
LineStarts ==
  /\ Running("line")
  /\ erased' = erased \cup {<<i, "eol">>}
  /\ pc' = "name"
  /\ UNCHANGED <<file, sym_map, i, ret, dump>>

Line == file.lines[i]

\* parse_line() is done with the line, for better or worse.
LineEnds(ok) == pc' = "line_end" /\ ret' = ok

\* An empty line, or one without a blank.
NoName ==
  /\ Running("name")
  /\ Line.fields < 2
  /\ LineEnds(FALSE)
  /\ UNCHANGED <<file, erased, sym_map, i, dump>>

NameStarts ==
  /\ Running("name")
  /\ Line.fields >= 2
  /\ erased' = erased \cup {<<i, "1">>}
  /\ pc' = "name_end"
  /\ UNCHANGED <<file, sym_map, i, ret, dump>>

BadName ==
  /\ Running("name_end")
  /\ Line.name \in {"", LongName}
  /\ erased' = erased \ {<<i, "1">>}
  /\ LineEnds(FALSE)
  /\ UNCHANGED <<file, sym_map, i, dump>>

CopyName ==
  /\ Running("name_end")
  /\ Line.name \notin {"", LongName}
  /\ symbols' = [symbols EXCEPT ![i].name = Line.name]
  /\ erased' = erased \ {<<i, "1">>}
  /\ pc' = "addr"
  /\ UNCHANGED <<file, nb_syms, table, i, ret, dump>>

\* The type of the symbol is skipped; the address must be followed by a blank.
NoAddr ==
  /\ Running("addr")
  /\ Line.fields < 4
  /\ LineEnds(FALSE)
  /\ UNCHANGED <<file, erased, sym_map, i, dump>>

AddrStarts ==
  /\ Running("addr")
  /\ Line.fields >= 4
  /\ erased' = erased \cup {<<i, "3">>}
  /\ pc' = "addr_end"
  /\ UNCHANGED <<file, sym_map, i, ret, dump>>

\* atoh() on a number of at most MaxDigits digits.
atoh(digits) == FoldLeft(LAMBDA res, d : res * Base + d, 0, digits)

Hexadecimal(digits) == NotADigit \notin ToSet(digits)

\* Faulty variant: leaves the blank erased.
LongAddr_NotRestored ==
  /\ Running("addr_end")
  /\ Len(Line.addr) > MaxDigits
  /\ LineEnds(FALSE)
  /\ UNCHANGED <<file, erased, sym_map, i, dump>>

LongAddr ==
  /\ Running("addr_end")
  /\ Len(Line.addr) > MaxDigits
  /\ erased' = erased \ {<<i, "3">>}
  /\ LineEnds(FALSE)
  /\ UNCHANGED <<file, sym_map, i, dump>>

CopyAddr ==
  /\ Running("addr_end")
  /\ Len(Line.addr) <= MaxDigits /\ Hexadecimal(Line.addr)
  /\ symbols' = [symbols EXCEPT ![i].addr = atoh(Line.addr)]
  /\ erased' = erased \ {<<i, "3">>}
  /\ pc' = "len"
  /\ UNCHANGED <<file, nb_syms, table, i, ret, dump>>

LongLen ==
  /\ Running("len")
  /\ Len(Line.rest) > MaxDigits
  /\ LineEnds(FALSE)
  /\ UNCHANGED <<file, erased, sym_map, i, dump>>

\* The length is optional.
CopyLen ==
  /\ Running("len")
  /\ Len(Line.rest) <= MaxDigits /\ Hexadecimal(Line.rest)
  /\ symbols' = [symbols EXCEPT ![i].len = atoh(Line.rest)]
  /\ LineEnds(TRUE)
  /\ UNCHANGED <<file, erased, nb_syms, table, i, dump>>

\* atoh() meets another character: abort(), which is a panic.
Abort(frames) ==
  /\ \/ /\ Running("addr_end")
        /\ Len(Line.addr) <= MaxDigits /\ ~ Hexadecimal(Line.addr)
     \/ /\ Running("len")
        /\ Len(Line.rest) <= MaxDigits /\ ~ Hexadecimal(Line.rest)
  /\ panic("abort", frames)
  /\ UNCHANGED <<file, erased, sym_map, pc, i, ret>>

BadLine ==
  /\ Running("line_end")
  /\ ~ ret
  /\ erased' = erased \ {<<i, "eol">>}
  /\ pc' = "free"
  /\ UNCHANGED <<file, sym_map, i, ret, dump>>

\* The line feed is put back, and the symbol before ends where this one begins.
GoodLine ==
  /\ Running("line_end")
  /\ ret
  /\ erased' = erased \ {<<i, "eol">>}
  /\ symbols' = IF i = 1 THEN symbols
                ELSE [symbols EXCEPT ![i - 1].len =
                        symbols[i].addr - symbols[i - 1].addr]
  /\ IF i < NbLines THEN pc' = "line" /\ i' = i + 1
                    ELSE pc' = "check" /\ UNCHANGED i
  /\ UNCHANGED <<file, nb_syms, table, ret, dump>>

\* Both walks must have seen the same number of lines.
Check ==
  /\ Running("check")
  /\ ret' = (i = nb_syms)
  /\ pc' = IF ret' THEN "returned" ELSE "free"
  /\ UNCHANGED <<file, erased, sym_map, i, dump>>

Free ==
  /\ Running("free")
  /\ table' = "freed"
  /\ pc' = "fail"
  /\ UNCHANGED <<file, erased, nb_syms, symbols, i, ret, dump>>

\* Faulty variant: the table is still there for its readers.
Fail_Forgets ==
  /\ Running("fail")
  /\ ret' = FALSE
  /\ pc' = "returned"
  /\ UNCHANGED <<file, erased, sym_map, i, dump>>

Fail ==
  /\ Running("fail")
  /\ nb_syms' = 0
  /\ ret' = FALSE
  /\ pc' = "returned"
  /\ UNCHANGED <<file, erased, symbols, table, i, dump>>

symbol_init ==
  \/ NotLoaded \/ Start \/ CountLine \/ MissingLineFeed
  \/ Kmalloc \/ \E frames \in Stacks : KmallocFails(frames)
  \/ LineStarts \/ NoName \/ NameStarts \/ BadName \/ CopyName
  \/ NoAddr \/ AddrStarts \/ LongAddr \/ CopyAddr \/ LongLen \/ CopyLen
  \/ \E frames \in Stacks : Abort(frames)
  \/ BadLine \/ GoodLine \/ Check \/ Free \/ Fail

Next == symbol_init \/ \E frames \in Stacks : InterruptPanics(frames)

Spec == Init /\ [][Next]_vars

-----------------------------------------------------------------------------
(* Properties *)

\* A line that parse_line() takes: the grammar in the comment on it, and an
\* empty address as well, which atoh() makes 0.
WellFormed(l) ==
  /\ l.fields = 4
  /\ l.name \notin {"", LongName}
  /\ Len(l.addr) <= MaxDigits /\ Len(l.rest) <= MaxDigits
  /\ Hexadecimal(l.addr) /\ Hexadecimal(l.rest)

GoodFile ==
  /\ NbLines > 0 /\ file.tail = "end"
  /\ \A k \in 1..NbLines : WellFormed(file.lines[k])

\* Where symbol k of the file begins and ends; the last one may have no end.
Begin(k) == atoh(file.lines[k].addr)

Size(k) == IF k < NbLines THEN Begin(k + 1) - Begin(k)
           ELSE atoh(file.lines[k].rest)

\* symbol_init() returns true for exactly the files of its grammar, with one
\* entry per line, and then or otherwise it leaves the file as it was and, if
\* it failed, no table for symbol_find() and symbol_lookup().  It stops the
\* kernel only over a number that is none, or for lack of memory.
LoadsTheFile ==
  /\ pc = "returned" =>
       /\ erased = {}
       /\ ret <=> GoodFile
       /\ nb_syms = IF ret THEN NbLines ELSE 0
       /\ \A k \in 1..nb_syms :
            symbols[k] = [name |-> file.lines[k].name, addr |-> Begin(k),
                          len |-> Size(k)]
  /\ panicked = "abort" =>
       \E k \in 1..NbLines : ~ (Hexadecimal(file.lines[k].addr)
                                /\ Hexadecimal(file.lines[k].rest))

\* The function an address is in, by the addresses of the file: the last one
\* that begins at or below it, unless it is known to end before.
Owner(addr) ==
  LET in == {k \in 1..NbLines :
               /\ Begin(k) <= addr /\ addr # 0
               /\ \A j \in k + 1..NbLines : addr < Begin(j)
               /\ Size(k) > 0 => addr < Begin(k) + Size(k)}
  IN  IF in = {} THEN "?????"
      ELSE file.lines[CHOOSE k \in in : TRUE].name

\* nm sorts the symbols by address, and there is one stub.
Sorted(lines) ==
  /\ \A j, k \in DOMAIN lines :
       j < k => atoh(lines[j].addr) <= atoh(lines[k].addr)
  /\ \A j, k \in DOMAIN lines :
       lines[j].name = Stub /\ lines[k].name = Stub => j = k

\* The stub has an end: it is not the last symbol, or has a length.
StubIsBounded ==
  \A k \in 1..NbLines :
    file.lines[k].name = Stub => k < NbLines \/ Size(k) > 0

\* Once a sorted file is loaded, the call trace of a panic names the function
\* of every frame and, for a panic in an interrupt handler, the function that
\* was interrupted.
TraceIsRight ==
  /\ panicked = "interrupt" /\ pc = "returned" /\ ret
  /\ Sorted(file.lines) /\ StubIsBounded
  =>
    trace = FlattenSeq([k \in Walked(stack) |->
              <<Owner(stack[k].eip)>>
                \o (IF Owner(stack[k].eip) = Stub
                    THEN <<Owner(stack[k].interrupted)>> ELSE <<>>)])

\* A panic finds either no table or one that is in memory, except while
\* symbol_init() counts lines for a table that is not there yet, waits for its
\* memory, or has just given it back: there, nb_syms is set and the pointer is
\* not, and the panic dies of a page fault before it prints anything.
PanicFindsTheTable ==
  fault => pc \in {"count", "alloc", "fail"} /\ nb_syms > 0

=============================================================================
