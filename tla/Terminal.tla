------------------------------ MODULE Terminal ------------------------------
(***************************************************************************)
(* The text terminal (src/kernel/drivers/terminal.c) and the cursor of the *)
(* VGA controller (src/kernel/drivers/vga.c).  The kernel prints character *)
(* by character with interrupts on; the handler of an interrupt prints     *)
(* whole messages with the same functions on the same variables, whenever  *)
(* it comes (a warning of ps2driver_recv() about a full queue).            *)
(*                                                                         *)
(* The kernel's steps are the loads and stores of the shared variables, in *)
(* the order of the -O2 build config.sh asks for: both increments are kept *)
(* in a register and compared there.  Colours and the serial line, which   *)
(* gets the same characters, are left out.                                 *)
(***************************************************************************)
EXTENDS Integers, Sequences, Folds, SequencesExt

CONSTANTS
  VGA_WIDTH, VGA_HEIGHT,
  ByteSize,    \* of the registers of the VGA controller: 256
  Letters,     \* the characters that are no control character
  Messages,    \* what a handler may print: sequences ending in a line feed
  MaxText      \* bound on the number of characters printed

ASSUME TerminalAssumption ==
  /\ VGA_WIDTH \in Nat \ {0} /\ VGA_HEIGHT \in Nat \ {0}
  /\ ByteSize \in Nat \ {0} /\ MaxText \in Nat
  /\ VGA_WIDTH * VGA_HEIGHT <= ByteSize * ByteSize
  /\ Messages \subseteq Seq(STRING)
  /\ \A m \in Messages : m # <<>> /\ m[Len(m)] = "\n"

VARIABLES
  term,    \* [row, column, buffer], the buffer being the cells that show
  vga,     \* the controller: [index, low, high]
  pc, ch, left,   \* the kernel's step, its character, how often to put it
  reg_row, reg_column, reg_pos,   \* its registers
  paper,     \* what the text should look like: [rows, row, column]
  printed,   \* how many characters were printed
  disturbed  \* a handler ran inside the putchar() under way

screen == <<term, vga>>
cpu    == <<pc, ch, left, reg_row, reg_column, reg_pos>>
vars   == <<screen, cpu, paper, printed, disturbed>>

Cells == 0..VGA_WIDTH * VGA_HEIGHT - 1

\* terminal_initialize(): an empty screen, and the cursor in its corner.
Init ==
  /\ term = [row |-> 0, column |-> 0, buffer |-> [x \in Cells |-> " "]]
  /\ vga = [index |-> "high", low |-> 0, high |-> 0]
  /\ pc = "rest" /\ ch = " " /\ left = 0
  /\ reg_row = 0 /\ reg_column = 0 /\ reg_pos = 0
  /\ paper = [rows |-> [y \in 1..VGA_HEIGHT |-> [x \in 1..VGA_WIDTH |-> " "]],
              row |-> 1, column |-> 1]
  /\ printed = 0 /\ disturbed = FALSE

-----------------------------------------------------------------------------
(* The functions, as one step: this is how a handler runs them *)

\* terminal_putentryat(): what lies behind the last row does not show.
terminal_putentryat(buffer, c, x, y) ==
  LET index == y * VGA_WIDTH + x
  IN  IF index \in Cells THEN [buffer EXCEPT ![index] = c] ELSE buffer

\* memmove() of all rows but the first, and blanks in the last one.
Scrolled(buffer) ==
  [x \in Cells |-> IF x + VGA_WIDTH \in Cells THEN buffer[x + VGA_WIDTH]
                   ELSE " "]

scroll_up(t) ==
  IF t.row + 1 = VGA_HEIGHT
    THEN [row |-> VGA_HEIGHT - 1, column |-> 0, buffer |-> Scrolled(t.buffer)]
    ELSE [t EXCEPT !.row = @ + 1, !.column = 0]

PutVisible(t, c) ==
  LET put == [row    |-> t.row,
              column |-> t.column + 1,
              buffer |-> terminal_putentryat(t.buffer, c, t.column, t.row)]
  IN  IF put.column = VGA_WIDTH THEN scroll_up(put) ELSE put

__terminal_putchar(t, c) ==
  CASE c = "\n" -> scroll_up(t)
    [] c = "\r" -> [t EXCEPT !.column = 0]
    [] c = "\t" -> PutVisible(PutVisible(PutVisible(t, " "), " "), " ")
    [] OTHER    -> PutVisible(t, c)

Position(t) == t.row * VGA_WIDTH + t.column

vga_update_cursor(t) ==
  [index |-> "high", low |-> Position(t) % ByteSize,
   high |-> (Position(t) \div ByteSize) % ByteSize]

-----------------------------------------------------------------------------
(* The reference: a typewriter, whose paper never ends *)

Feed(p) ==
  [rows   |-> IF p.row < Len(p.rows) THEN p.rows
              ELSE Append(p.rows, [x \in 1..VGA_WIDTH |-> " "]),
   row    |-> p.row + 1,
   column |-> 1]

Strike(p, c) ==
  LET struck == [rows   |-> [p.rows EXCEPT ![p.row][p.column] = c],
                 row    |-> p.row,
                 column |-> p.column + 1]
  IN  IF p.column = VGA_WIDTH THEN Feed(struck) ELSE struck

Typed(p, c) ==
  CASE c = "\n" -> Feed(p)
    [] c = "\r" -> [p EXCEPT !.column = 1]
    [] c = "\t" -> Strike(Strike(Strike(p, " "), " "), " ")
    [] OTHER    -> Strike(p, c)

\* The last rows, which are those on the screen.
Visible(p) == SubSeq(p.rows, Len(p.rows) - VGA_HEIGHT + 1, Len(p.rows))

Row(buffer, y) == [x \in 1..VGA_WIDTH |-> buffer[y * VGA_WIDTH + x - 1]]

Rows(buffer) == [y \in 1..VGA_HEIGHT |-> Row(buffer, y - 1)]

-----------------------------------------------------------------------------
(* The kernel prints *)

At(step) == pc = step

Goto(step) == pc' = step /\ UNCHANGED <<ch, left>>

\* putchar(): terminal_write() of one character.
putchar(c) ==
  /\ At("rest")
  /\ printed < MaxText
  /\ printed' = printed + 1
  /\ paper' = Typed(paper, c)
  /\ disturbed' = FALSE
  /\ ch' = IF c = "\t" THEN " " ELSE c
  /\ left' = CASE c = "\t" -> 3 [] c \in {"\n", "\r"} -> 0 [] OTHER -> 1
  /\ pc' = CASE c = "\n" -> "scroll" [] c = "\r" -> "return" [] OTHER -> "put"
  /\ UNCHANGED <<screen, reg_row, reg_column, reg_pos>>

rest_unchanged == UNCHANGED <<printed, disturbed, paper>>

CarriageReturn ==
  /\ At("return")
  /\ term' = [term EXCEPT !.column = 0]
  /\ Goto("cursor")
  /\ UNCHANGED <<vga, reg_row, reg_column, reg_pos>> /\ rest_unchanged

LoadRow ==
  /\ At("put")
  /\ reg_row' = term.row
  /\ Goto("column")
  /\ UNCHANGED <<screen, reg_column, reg_pos>> /\ rest_unchanged

LoadColumn ==
  /\ At("column")
  /\ reg_column' = term.column
  /\ Goto("entry")
  /\ UNCHANGED <<screen, reg_row, reg_pos>> /\ rest_unchanged

PutEntry ==
  /\ At("entry")
  /\ term' = [term EXCEPT !.buffer =
                terminal_putentryat(@, ch, reg_column, reg_row)]
  /\ Goto("store_column")
  /\ UNCHANGED <<vga, reg_row, reg_column, reg_pos>> /\ rest_unchanged

\* One visible character is done.
PutDone ==
  /\ left' = IF left = 0 THEN 0 ELSE left - 1
  /\ pc' = IF left' = 0 THEN "cursor" ELSE "put"
  /\ UNCHANGED ch

StoreColumn ==
  /\ At("store_column")
  /\ term' = [term EXCEPT !.column = reg_column + 1]
  /\ IF reg_column + 1 = VGA_WIDTH THEN Goto("scroll") ELSE PutDone
  /\ UNCHANGED <<vga, reg_row, reg_column, reg_pos>> /\ rest_unchanged

\* scroll_up()
ScrollLoadRow ==
  /\ At("scroll")
  /\ reg_row' = term.row
  /\ Goto("scroll_column")
  /\ UNCHANGED <<screen, reg_column, reg_pos>> /\ rest_unchanged

ScrollColumn ==
  /\ At("scroll_column")
  /\ term' = [term EXCEPT !.column = 0]
  /\ Goto("scroll_row")
  /\ UNCHANGED <<vga, reg_row, reg_column, reg_pos>> /\ rest_unchanged

ScrollStoreRow ==
  /\ At("scroll_row")
  /\ term' = [term EXCEPT !.row = reg_row + 1]
  /\ IF reg_row + 1 = VGA_HEIGHT THEN Goto("move") ELSE PutDone
  /\ UNCHANGED <<vga, reg_row, reg_column, reg_pos>> /\ rest_unchanged

\* Faulty variant: does not clear the last row.
MoveRows_NoClear ==
  /\ At("move")
  /\ term' = [term EXCEPT !.buffer = [x \in Cells |->
                IF x + VGA_WIDTH \in Cells THEN @[x + VGA_WIDTH] ELSE @[x]]]
  /\ Goto("last_row")
  /\ UNCHANGED <<vga, reg_row, reg_column, reg_pos>> /\ rest_unchanged

MoveRows ==
  /\ At("move")
  /\ term' = [term EXCEPT !.buffer = Scrolled(@)]
  /\ Goto("last_row")
  /\ UNCHANGED <<vga, reg_row, reg_column, reg_pos>> /\ rest_unchanged

\* Faulty variant: takes one off the row it finds.
LastRow_Decrement ==
  /\ At("last_row")
  /\ term' = [term EXCEPT !.row = @ - 1]
  /\ PutDone
  /\ UNCHANGED <<vga, reg_row, reg_column, reg_pos>> /\ rest_unchanged

LastRow ==
  /\ At("last_row")
  /\ term' = [term EXCEPT !.row = VGA_HEIGHT - 1]
  /\ PutDone
  /\ UNCHANGED <<vga, reg_row, reg_column, reg_pos>> /\ rest_unchanged

\* vga_update_cursor(): two registers behind one index.
CursorPosition ==
  /\ At("cursor")
  /\ reg_pos' = Position(term)
  /\ Goto("index_low")
  /\ UNCHANGED <<screen, reg_row, reg_column>> /\ rest_unchanged

CursorIndex(step, register, next) ==
  /\ At(step)
  /\ vga' = [vga EXCEPT !.index = register]
  /\ Goto(next)
  /\ UNCHANGED <<term, reg_row, reg_column, reg_pos>>

CursorIndexLow == CursorIndex("index_low", "low", "low") /\ rest_unchanged

\* Faulty variant: writes the high byte where the low one was.
CursorIndexHigh_Missing == CursorIndex("index_high", "low", "high")
                             /\ rest_unchanged

CursorIndexHigh == CursorIndex("index_high", "high", "high") /\ rest_unchanged

CursorLow ==
  /\ At("low")
  /\ vga' = [vga EXCEPT ![vga.index] = reg_pos % ByteSize]
  /\ Goto("index_high")
  /\ UNCHANGED <<term, reg_row, reg_column, reg_pos>> /\ rest_unchanged

\* The last step of putchar().  If a handler came in between, what the screen
\* shows now is what the following text is added to.
CursorHigh ==
  /\ At("high")
  /\ vga' = [vga EXCEPT ![vga.index] = (reg_pos \div ByteSize) % ByteSize]
  /\ Goto("rest")
  /\ paper' = IF disturbed
                THEN [rows |-> Rows(term.buffer), row |-> term.row + 1,
                      column |-> term.column + 1]
                ELSE paper
  /\ UNCHANGED <<term, reg_row, reg_column, reg_pos, printed, disturbed>>

-----------------------------------------------------------------------------
(* A handler prints: every character with its update of the cursor *)

HandlerPrints(message) ==
  /\ printed + Len(message) <= MaxText
  /\ printed' = printed + Len(message)
  /\ LET t == FoldLeft(__terminal_putchar, term, message)
     IN  term' = t /\ vga' = vga_update_cursor(t)
  /\ IF At("rest")
       THEN paper' = FoldLeft(Typed, paper, message) /\ disturbed' = FALSE
       ELSE disturbed' = TRUE /\ UNCHANGED paper
  /\ UNCHANGED cpu

terminal_write ==
  \/ \E c \in Letters \cup {"\n", "\r", "\t"} : putchar(c)
  \/ CarriageReturn
  \/ LoadRow \/ LoadColumn \/ PutEntry \/ StoreColumn
  \/ ScrollLoadRow \/ ScrollColumn \/ ScrollStoreRow \/ MoveRows \/ LastRow
  \/ CursorPosition
  \/ CursorIndexLow \/ CursorLow \/ CursorIndexHigh \/ CursorHigh

Next == terminal_write \/ \E message \in Messages : HandlerPrints(message)

Spec == Init /\ [][Next]_vars

-----------------------------------------------------------------------------
(* Properties *)

\* Between two characters, the screen shows the last rows of the text laid out
\* on endless paper, from the empty screen or from whatever a handler that
\* came inside a putchar() left behind.
ScreenShowsTheText ==
  At("rest") /\ ~ disturbed =>
    /\ Rows(term.buffer) = Visible(paper)
    /\ term.row + 1 = paper.row - (Len(paper.rows) - VGA_HEIGHT)
    /\ term.column + 1 = paper.column

\* Whatever loads and stores a handler comes between, putchar() leaves a
\* position on the screen: the comparisons with == cannot be jumped over.
PositionInRange ==
  At("rest") => term.row \in 0..VGA_HEIGHT - 1
                /\ term.column \in 0..VGA_WIDTH - 1

\* The cursor is where the next character goes after every putchar() that no
\* handler interrupted; one that was interrupted is corrected by the next.
CursorFollows ==
  At("rest") /\ ~ disturbed =>
    vga.high * ByteSize + vga.low = Position(term)

=============================================================================
