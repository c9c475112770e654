--------------------------- MODULE TerminalProofs ---------------------------
(***************************************************************************)
(* Proofs about the terminal, for every size of the screen, every text and *)
(* every interleaving with handlers that print.  What the kernel has still *)
(* to do with the character it is printing is a function of its program    *)
(* counter (FinishedFrom): the screen it will leave is what is compared    *)
(* with the text, at every load and store.                                 *)
(***************************************************************************)
EXTENDS Terminal, InductionProofs, SequenceTheorems, TLAPS

-----------------------------------------------------------------------------
(* The screen as a grid *)

LEMMA Dimensions ==
  /\ VGA_WIDTH \in Nat /\ VGA_WIDTH > 0 /\ VGA_HEIGHT \in Nat /\ VGA_HEIGHT > 0
  /\ ByteSize \in Nat /\ ByteSize > 0
  /\ VGA_WIDTH * VGA_HEIGHT <= ByteSize * ByteSize
BY TerminalAssumption

LEMMA Product ==
  ASSUME NEW a \in Int, NEW b \in Int, NEW w \in Nat
  PROVE  /\ a * w \in Int /\ (a + 1) * w = a * w + w
         /\ a <= b => a * w <= b * w
<1>1. a * w \in Int /\ b * w \in Int
  OBVIOUS
<1>2. (a + 1) * w = a * w + w
  BY Z3
<1>3. ASSUME a <= b PROVE a * w <= b * w
  BY <1>3, Z3
<1> QED
  BY <1>1, <1>2, <1>3

\* A cell is a row and a column.
LEMMA CellOf ==
  ASSUME NEW y \in 0..VGA_HEIGHT - 1, NEW x \in 0..VGA_WIDTH - 1
  PROVE  /\ y * VGA_WIDTH + x \in Cells
         /\ y * VGA_WIDTH + x + VGA_WIDTH = (y + 1) * VGA_WIDTH + x
         /\ y * VGA_WIDTH + x + VGA_WIDTH \in Cells <=> y + 1 < VGA_HEIGHT
<1>1. VGA_WIDTH \in Nat /\ VGA_WIDTH > 0 /\ VGA_HEIGHT \in Nat /\ VGA_HEIGHT > 0
  BY Dimensions
<1> DEFINE W == VGA_WIDTH
           H == VGA_HEIGHT
           c == y * W
           t == H * W
<1>2. c \in Int /\ (y + 1) * W = c + W /\ 0 * W = 0 /\ 0 * W <= c
  BY <1>1, Product
<1>3. (y + 1) * W <= t /\ t \in Int /\ t = W * H
  <2>1. y + 1 \in Int /\ H \in Int /\ y + 1 <= H
    BY <1>1
  <2>2. W * H = H * W
    BY <1>1
  <2> QED
    BY <1>1, <2>1, <2>2, Product
<1>4. y + 1 < H => c + 2 * W <= t
  <2> SUFFICES ASSUME y + 1 < H PROVE c + 2 * W <= t
    OBVIOUS
  <2>1. y + 2 \in Int /\ y + 1 \in Int /\ H \in Int /\ y + 2 <= H /\ y + 1 + 1 = y + 2
    BY <1>1
  <2>2. (y + 2) * W <= t /\ (y + 1 + 1) * W = (y + 1) * W + W
    BY <1>1, <2>1, Product
  <2> QED
    BY <1>1, <1>2, <2>1, <2>2
<1>5. ~ (y + 1 < H) => c + W = t
  BY <1>1, <1>2
<1>6. Cells = 0..t - 1
  BY <1>3 DEF Cells
<1> HIDE DEF W, H, c, t
<1>7. W \in Nat /\ W > 0 /\ x \in 0..W - 1 /\ y \in 0..H - 1 /\ H \in Nat
  BY <1>1 DEF W, H
<1>8. c + x \in 0..t - 1
  BY <1>2, <1>3, <1>7
<1>9. c + x + W = c + W + x
  BY <1>2, <1>7
<1>10. c + x + W \in 0..t - 1 <=> y + 1 < H
  BY <1>2, <1>3, <1>4, <1>5, <1>7
<1> QED
  BY <1>2, <1>6, <1>8, <1>9, <1>10 DEF W, H, c

\* Different places are different cells.
LEMMA CellsDiffer ==
  ASSUME NEW y \in Int, NEW x \in 0..VGA_WIDTH - 1,
         NEW v \in Int, NEW u \in 0..VGA_WIDTH - 1,
         y * VGA_WIDTH + x = v * VGA_WIDTH + u
  PROVE  y = v /\ x = u
<1>1. VGA_WIDTH \in Nat /\ VGA_WIDTH > 0
  BY Dimensions
<1>2. ASSUME NEW a \in Int, NEW b \in Int, NEW s \in 0..VGA_WIDTH - 1,
             NEW r \in 0..VGA_WIDTH - 1, a < b
      PROVE  a * VGA_WIDTH + s < b * VGA_WIDTH + r
  <2> DEFINE p == a * VGA_WIDTH
             q == b * VGA_WIDTH
             o == (a + 1) * VGA_WIDTH
  <2>1. a + 1 \in Int /\ a + 1 <= b
    BY <1>2
  <2>2. p \in Int /\ q \in Int /\ o = p + VGA_WIDTH /\ o <= q
    BY <1>1, <2>1, Product
  <2> HIDE DEF p, q, o
  <2>3. p + s < q + r
    BY <1>1, <2>2
  <2> QED
    BY <2>3 DEF p, q
<1>3. y * VGA_WIDTH \in Int /\ v * VGA_WIDTH \in Int
  BY <1>1, Product
<1>4. ~ (y < v) /\ ~ (v < y)
  <2> DEFINE p == y * VGA_WIDTH + x
             q == v * VGA_WIDTH + u
  <2>1. p \in Int /\ q \in Int /\ p = q
    BY <1>1, <1>3
  <2>2. (y < v => p < q) /\ (v < y => q < p)
    BY <1>2
  <2> HIDE DEF p, q
  <2> QED
    BY <2>1, <2>2
<1>5. y = v
  BY <1>4
<1> QED
  BY <1>1, <1>3, <1>5
\* The two registers of the cursor hold every position on the screen.
LEMMA TwoBytes ==
  ASSUME NEW p \in 0..VGA_WIDTH * VGA_HEIGHT - 1
  PROVE  /\ p % ByteSize \in Int /\ (p \div ByteSize) % ByteSize \in Int
         /\ ((p \div ByteSize) % ByteSize) * ByteSize + (p % ByteSize) = p
<1> DEFINE B == ByteSize
           q == p \div B
           r == p % B
<1>1. B \in Nat /\ B > 0 /\ VGA_WIDTH * VGA_HEIGHT \in Int /\ B * B \in Int
      /\ VGA_WIDTH * VGA_HEIGHT <= B * B
  BY Dimensions
<1>2. p \in Nat /\ p < B * B
  BY <1>1
<1> HIDE DEF B
<1>3. q \in Int /\ r \in Int /\ p = B * q + r /\ 0 <= r /\ r < B
  BY <1>1, <1>2
<1> HIDE DEF q, r
<1>4. q >= 0
  <2> SUFFICES ASSUME q + 1 <= 0 PROVE FALSE
    BY <1>3
  <2>1. q + 1 \in Int /\ (q + 1) * B = q * B + B /\ (q + 1) * B <= 0 * B /\ 0 * B = 0
    BY <1>1, <1>3, Product
  <2>2. q * B = B * q /\ q * B \in Int
    BY <1>1, <1>3
  <2> QED
    BY <1>1, <1>2, <1>3, <2>1, <2>2
<1>5. q < B
  <2> SUFFICES ASSUME B <= q PROVE FALSE
    BY <1>1, <1>3
  <2>1. B * B <= q * B
    BY <1>1, <1>3, Product
  <2>2. q * B = B * q /\ q * B \in Int
    BY <1>1, <1>3
  <2> QED
    BY <1>1, <1>2, <1>3, <2>1, <2>2
<1>6. q % B = q
  BY <1>1, <1>3, <1>4, <1>5
<1>7. q * B = B * q
  BY <1>1, <1>3
<1>8. r \in Int /\ q % B \in Int /\ (q % B) * B + r = p
  BY <1>3, <1>6, <1>7
<1> QED
  BY <1>8 DEF B, q, r
-----------------------------------------------------------------------------
(* The inductive invariant *)

\* Screens in any state a handler may find them in.
Chars ==
  Letters \cup {" ", "\n", "\r", "\t"}
    \cup UNION {{m[k] : k \in 1..Len(m)} : m \in Messages}

Buffers == [Cells -> Chars]

Screens == [row : Nat, column : Nat, buffer : Buffers]

RowText == [1..VGA_WIDTH -> Chars]

\* Paper with at least a screen of rows, the last of which are typed on.
PaperRows(p) ==
  /\ p \in [rows : Seq(RowText), row : Nat, column : Nat]
  /\ Len(p.rows) >= VGA_HEIGHT
  /\ p.row \in Len(p.rows) - VGA_HEIGHT + 1..Len(p.rows)

IsPaper(p) == PaperRows(p) /\ p.column \in 1..VGA_WIDTH

\* The cell of row y and column x of the screen, both counted from 1.
Cell(y, x) == (y - 1) * VGA_WIDTH + (x - 1)

\* The screen shows the end of the paper.
Shows(t, p) ==
  /\ t.row + 1 = p.row - (Len(p.rows) - VGA_HEIGHT)
  /\ \A y \in 1..VGA_HEIGHT, x \in 1..VGA_WIDTH :
       t.buffer[Cell(y, x)] = p.rows[Len(p.rows) - VGA_HEIGHT + y][x]

Matches(t, p) == Shows(t, p) /\ t.column + 1 = p.column

OnScreen(t) == t.row \in 0..VGA_HEIGHT - 1 /\ t.column \in 0..VGA_WIDTH - 1

Putting   == {"put", "column", "entry", "store_column"}
Scrolling == {"scroll", "scroll_column", "scroll_row", "move", "last_row"}
Updating  == {"cursor", "index_low", "low", "index_high", "high"}

\* Whoever interrupts whom, the position leaves the screen only where the
\* kernel is about to correct it.
PositionInv ==
  /\ term \in Screens
  /\ pc \in {"rest", "return"} \cup Putting \cup Scrolling \cup Updating
  /\ ch \in Chars /\ left \in 0..3
  /\ pc \in Putting => left > 0
  /\ pc \notin {"move", "last_row"} => term.row \in 0..VGA_HEIGHT - 1
  /\ pc \notin {"scroll", "scroll_column"} => term.column \in 0..VGA_WIDTH - 1
  /\ pc \in {"column", "entry", "store_column", "scroll_column", "scroll_row"} =>
       reg_row \in 0..VGA_HEIGHT - 1
  /\ pc \in {"entry", "store_column"} => reg_column \in 0..VGA_WIDTH - 1

\* Undisturbed, the kernel writes the position it read.
CursorInv ==
  /\ vga \in [index : {"low", "high"}, low : Int, high : Int] /\ reg_pos \in Int
  /\ disturbed \in BOOLEAN
  /\ ~ disturbed =>
       /\ pc \in Updating \ {"cursor"} => reg_pos = Position(term)
       /\ pc = "low" => vga.index = "low"
       /\ pc = "high" => vga.index = "high"
       /\ pc \in {"index_high", "high", "rest"} => vga.low = Position(term) % ByteSize
       /\ pc = "rest" => vga.high = (Position(term) \div ByteSize) % ByteSize

\* Undisturbed, its registers hold what is in memory.
RegisterInv ==
  ~ disturbed =>
    /\ pc \in {"column", "entry", "store_column", "scroll_column", "scroll_row"} =>
         reg_row = term.row
    /\ pc \in {"entry", "store_column"} => reg_column = term.column
    /\ pc \in {"scroll_row", "move", "last_row"} => term.column = 0
    /\ pc \in {"move", "last_row"} => term.row = VGA_HEIGHT

\* The screen after n times character c.
PutTimes(t, c, n) ==
  CASE n = 1 -> PutVisible(t, c)
    [] n = 2 -> PutVisible(PutVisible(t, c), c)
    [] n = 3 -> PutVisible(PutVisible(PutVisible(t, c), c), c)
    [] OTHER -> t

\* ...and after those behind the one that is being put.
Others(t, c, n) == PutTimes(t, c, IF n = 0 THEN 0 ELSE n - 1)

\* The screen that is left if nothing comes between, from a step of the kernel.
FinishedFrom(step, t, c, n) ==
  CASE step = "return" -> [t EXCEPT !.column = 0]
    [] step \in {"put", "column", "entry"} -> PutTimes(t, c, n)
    [] step = "store_column" ->
         LET put == [t EXCEPT !.column = t.column + 1]
         IN  Others(IF put.column = VGA_WIDTH THEN scroll_up(put) ELSE put, c, n)
    [] step \in {"scroll", "scroll_column", "scroll_row"} -> Others(scroll_up(t), c, n)
    [] step = "move" -> Others([row |-> VGA_HEIGHT - 1, column |-> t.column,
                                buffer |-> Scrolled(t.buffer)], c, n)
    [] step = "last_row" -> Others([t EXCEPT !.row = VGA_HEIGHT - 1], c, n)
    [] OTHER -> t

Finished == FinishedFrom(pc, term, ch, left)

PaperInv ==
  /\ IsPaper(paper)
  /\ pc = "rest" \/ ~ disturbed => Matches(Finished, paper)

IInv == PositionInv /\ CursorInv /\ RegisterInv /\ PaperInv
-----------------------------------------------------------------------------
(* The operators *)

LEMMA ScreenFacts ==
  ASSUME NEW t \in Screens
  PROVE  /\ t.row \in Nat /\ t.column \in Nat /\ t.buffer \in Buffers
         /\ t = [row |-> t.row, column |-> t.column, buffer |-> t.buffer]
BY DEF Screens

LEMMA ScrolledType ==
  ASSUME NEW b \in Buffers
  PROVE  Scrolled(b) \in Buffers
BY DEF Scrolled, Buffers, Chars

LEMMA ScrollUpType ==
  ASSUME NEW t \in Screens
  PROVE  /\ scroll_up(t) \in Screens
         /\ scroll_up(t).column = 0
         /\ t.row \in 0..VGA_HEIGHT - 1 => scroll_up(t).row \in 0..VGA_HEIGHT - 1
<1>1. VGA_HEIGHT \in Nat /\ VGA_HEIGHT > 0
  BY Dimensions
<1>2. CASE t.row + 1 = VGA_HEIGHT
  <2>1. scroll_up(t) = [row |-> VGA_HEIGHT - 1, column |-> 0, buffer |-> Scrolled(t.buffer)]
    BY <1>2 DEF scroll_up
  <2>2. VGA_HEIGHT - 1 \in Nat /\ Scrolled(t.buffer) \in Buffers
    BY <1>1, ScreenFacts, ScrolledType
  <2> QED
    BY <1>1, <2>1, <2>2 DEF Screens
<1>3. CASE t.row + 1 # VGA_HEIGHT
  <2>1. scroll_up(t) = [t EXCEPT !.row = @ + 1, !.column = 0]
    BY <1>3 DEF scroll_up
  <2>2. scroll_up(t) = [row |-> t.row + 1, column |-> 0, buffer |-> t.buffer]
    BY <2>1 DEF Screens
  <2>3. t.row + 1 \in Nat /\ t.buffer \in Buffers /\ t.row \in Nat
    BY ScreenFacts
  <2>4. scroll_up(t) \in Screens /\ scroll_up(t).row = t.row + 1 /\ scroll_up(t).column = 0
    BY <2>2, <2>3 DEF Screens
  <2> QED
    BY <1>1, <1>3, <2>3, <2>4
<1> QED
  BY <1>2, <1>3

LEMMA PutType ==
  ASSUME NEW t \in Screens, NEW c \in Chars
  PROVE  /\ PutVisible(t, c) \in Screens
         /\ t.row \in 0..VGA_HEIGHT - 1 => PutVisible(t, c).row \in 0..VGA_HEIGHT - 1
<1> DEFINE put == [row |-> t.row, column |-> t.column + 1,
                   buffer |-> terminal_putentryat(t.buffer, c, t.column, t.row)]
<1>1. terminal_putentryat(t.buffer, c, t.column, t.row) \in Buffers
  BY ScreenFacts DEF terminal_putentryat, Buffers
<1>2. put \in Screens /\ put.row = t.row
  <2> DEFINE b == terminal_putentryat(t.buffer, c, t.column, t.row)
  <2>1. put = [row |-> t.row, column |-> t.column + 1, buffer |-> b]
    OBVIOUS
  <2>2. t.row \in Nat /\ t.column + 1 \in Nat /\ b \in Buffers
    BY <1>1, ScreenFacts
  <2> HIDE DEF b
  <2> QED
    BY <2>1, <2>2 DEF Screens
<1>3. PutVisible(t, c) = IF put.column = VGA_WIDTH THEN scroll_up(put) ELSE put
  BY DEF PutVisible
<1> HIDE DEF put
<1> QED
  BY <1>2, <1>3, ScrollUpType

\* A character may find the screen in any state.
LEMMA PutcharType ==
  ASSUME NEW t \in Screens, NEW c \in Chars
  PROVE  /\ __terminal_putchar(t, c) \in Screens
         /\ t.row \in 0..VGA_HEIGHT - 1 =>
              __terminal_putchar(t, c).row \in 0..VGA_HEIGHT - 1
         /\ c = "\n" => __terminal_putchar(t, c).column = 0
<1>1. CASE c = "\n"
  <2>1. __terminal_putchar(t, c) = scroll_up(t)
    BY <1>1 DEF __terminal_putchar
  <2> QED
    BY <2>1, ScrollUpType
<1>2. CASE c = "\r"
  <2>1. __terminal_putchar(t, c) = [t EXCEPT !.column = 0]
    BY <1>2 DEF __terminal_putchar
  <2> QED
    BY <1>2, <2>1 DEF Screens
<1>3. CASE c = "\t"
  <2> DEFINE a == PutVisible(t, " ")
             b == PutVisible(a, " ")
             d == PutVisible(b, " ")
  <2>1. __terminal_putchar(t, c) = d
    BY <1>3 DEF __terminal_putchar
  <2>2. " " \in Chars
    BY DEF Chars
  <2>3. a \in Screens /\ (t.row \in 0..VGA_HEIGHT - 1 => a.row \in 0..VGA_HEIGHT - 1)
    BY <2>2, PutType
  <2>4. b \in Screens /\ (a.row \in 0..VGA_HEIGHT - 1 => b.row \in 0..VGA_HEIGHT - 1)
    <3> HIDE DEF a
    <3> QED
      BY <2>2, <2>3, PutType
  <2>5. d \in Screens /\ (b.row \in 0..VGA_HEIGHT - 1 => d.row \in 0..VGA_HEIGHT - 1)
    <3> HIDE DEF b
    <3> QED
      BY <2>2, <2>4, PutType
  <2> HIDE DEF a, b, d
  <2> QED
    BY <1>3, <2>1, <2>3, <2>4, <2>5
<1>4. CASE c \notin {"\n", "\r", "\t"}
  <2>1. __terminal_putchar(t, c) = PutVisible(t, c)
    BY <1>4 DEF __terminal_putchar
  <2> QED
    BY <1>4, <2>1, PutType
<1> QED
  BY <1>1, <1>2, <1>3, <1>4

LEMMA CellFacts ==
  ASSUME NEW y \in 1..VGA_HEIGHT, NEW x \in 1..VGA_WIDTH
  PROVE  /\ Cell(y, x) \in Cells
         /\ Cell(y, x) + VGA_WIDTH = Cell(y + 1, x)
         /\ Cell(y, x) + VGA_WIDTH \in Cells <=> y < VGA_HEIGHT
<1>1. VGA_WIDTH \in Nat /\ VGA_HEIGHT \in Nat
  BY Dimensions
<1>2. y - 1 \in 0..VGA_HEIGHT - 1 /\ x - 1 \in 0..VGA_WIDTH - 1
      /\ y - 1 + 1 = y /\ y + 1 - 1 = y
  BY <1>1
<1>3. y - 1 + 1 < VGA_HEIGHT <=> y < VGA_HEIGHT
  BY <1>2
<1> QED
  BY <1>2, <1>3, CellOf DEF Cell

\* A line feed on the screen and on the paper.
LEMMA FeedScroll ==
  ASSUME NEW t \in Screens, t.row \in 0..VGA_HEIGHT - 1, NEW p, PaperRows(p), Shows(t, p)
  PROVE  IsPaper(Feed(p)) /\ Matches(scroll_up(t), Feed(p)) /\ OnScreen(scroll_up(t))
<1>1. VGA_WIDTH \in Nat /\ VGA_WIDTH > 0 /\ VGA_HEIGHT \in Nat /\ VGA_HEIGHT > 0
  BY Dimensions
<1> DEFINE n == Len(p.rows)
           blank == [x \in 1..VGA_WIDTH |-> " "]
           f == Feed(p)
           u == scroll_up(t)
<1>2. p.rows \in Seq(RowText) /\ n \in Nat /\ n >= VGA_HEIGHT /\ p.row \in n - VGA_HEIGHT + 1..n
      /\ p.row \in Nat
  BY LenProperties DEF PaperRows
<1>3. blank \in RowText
  BY DEF RowText, Chars
<1>4. t.row + 1 = p.row - (n - VGA_HEIGHT)
  BY DEF Shows
<1>5. \A y \in 1..VGA_HEIGHT, x \in 1..VGA_WIDTH :
        t.buffer[Cell(y, x)] = p.rows[n - VGA_HEIGHT + y][x]
  BY DEF Shows
<1>6. t.row \in Nat /\ t.buffer \in Buffers
  BY ScreenFacts
<1>7. u.column = 0 /\ f.column = 1 /\ f.row = p.row + 1
  BY ScrollUpType DEF Feed
<1>8. OnScreen(u)
  BY <1>1, <1>7, ScrollUpType DEF OnScreen
<1>9. CASE t.row + 1 = VGA_HEIGHT
  <2> HIDE DEF n, blank
  <2>1. p.row = n
    BY <1>1, <1>2, <1>4, <1>6, <1>9
  <2>2. f = [rows |-> Append(p.rows, blank), row |-> p.row + 1, column |-> 1]
    <3>1. ~ (p.row < n)
      BY <1>2, <2>1
    <3> QED
      BY <3>1 DEF Feed, n, blank
  <2> DEFINE r == Append(p.rows, blank)
  <2>3. r \in Seq(RowText) /\ Len(r) = n + 1 /\ r[n + 1] = blank
        /\ \A k \in 1..n : r[k] = p.rows[k]
    BY <1>2, <1>3, AppendProperties DEF n
  <2>4. u = [row |-> VGA_HEIGHT - 1, column |-> 0, buffer |-> Scrolled(t.buffer)]
    BY <1>9 DEF scroll_up
  <2> HIDE DEF r, u, f
  <2>5. IsPaper(f)
    BY <1>1, <1>2, <2>1, <2>2, <2>3 DEF IsPaper, PaperRows, r
  <2>6. ASSUME NEW y \in 1..VGA_HEIGHT, NEW x \in 1..VGA_WIDTH
        PROVE  u.buffer[Cell(y, x)] = f.rows[Len(f.rows) - VGA_HEIGHT + y][x]
    <3>1. u.buffer[Cell(y, x)] = IF Cell(y, x) + VGA_WIDTH \in Cells
                                THEN t.buffer[Cell(y, x) + VGA_WIDTH] ELSE " "
      BY <2>4, CellFacts DEF Scrolled
    <3>2. f.rows = r /\ Len(f.rows) = n + 1
      BY <2>2, <2>3 DEF r
    <3>3. CASE y < VGA_HEIGHT
      <4>1. u.buffer[Cell(y, x)] = t.buffer[Cell(y + 1, x)]
        BY <3>1, <3>3, CellFacts
      <4>2. y + 1 \in 1..VGA_HEIGHT
        BY <1>1, <3>3
      <4>3. t.buffer[Cell(y + 1, x)] = p.rows[n - VGA_HEIGHT + (y + 1)][x]
        BY <1>5, <4>2
      <4>4. n - VGA_HEIGHT + (y + 1) \in 1..n
            /\ n - VGA_HEIGHT + (y + 1) = n + 1 - VGA_HEIGHT + y
        BY <1>1, <1>2, <3>3
      <4>5. r[n - VGA_HEIGHT + (y + 1)] = p.rows[n - VGA_HEIGHT + (y + 1)]
        BY <2>3, <4>4
      <4> DEFINE m == Len(f.rows)
      <4> HIDE DEF m
      <4>m. m = n + 1
        BY <3>2 DEF m
      <4>6. m - VGA_HEIGHT + y = n - VGA_HEIGHT + (y + 1)
        BY <1>1, <1>2, <4>m
      <4>7. f.rows[Len(f.rows) - VGA_HEIGHT + y] = p.rows[n - VGA_HEIGHT + (y + 1)]
        BY <3>2, <4>5, <4>6 DEF m
      <4> QED
        BY ONLY <4>1, <4>3, <4>7
    <3>4. CASE ~ (y < VGA_HEIGHT)
      <4>1. y = VGA_HEIGHT
        BY <1>1, <3>4
      <4>2. u.buffer[Cell(y, x)] = " "
        BY <3>1, <3>4, CellFacts
      <4>3. n + 1 - VGA_HEIGHT + y = n + 1
        BY <1>1, <1>2, <4>1
      <4>4. blank[x] = " "
        BY DEF blank
      <4>5. r[n + 1] = blank
        BY <2>3
      <4> DEFINE m == Len(f.rows)
      <4> HIDE DEF m
      <4>m. m = n + 1
        BY <3>2 DEF m
      <4>6. m - VGA_HEIGHT + y = n + 1
        BY <1>1, <1>2, <4>m, <4>3
      <4>7. f.rows[Len(f.rows) - VGA_HEIGHT + y] = blank
        BY <3>2, <4>5, <4>6 DEF m
      <4> QED
        BY ONLY <4>2, <4>4, <4>7
    <3> QED
      BY <3>3, <3>4
  <2>7. u.row + 1 = f.row - (Len(f.rows) - VGA_HEIGHT)
    <3>1. u.row = VGA_HEIGHT - 1 /\ f.row = n + 1 /\ Len(f.rows) = n + 1
      BY <2>1, <2>2, <2>3, <2>4 DEF r
    <3> QED
      BY <1>1, <1>2, <3>1
  <2>8. Matches(u, f)
    BY <1>7, <2>6, <2>7 DEF Matches, Shows
  <2> QED
    BY <1>8, <2>5, <2>8 DEF u, f
<1>10. CASE t.row + 1 # VGA_HEIGHT
  <2> HIDE DEF n, blank
  <2>1. p.row < n
    BY <1>1, <1>2, <1>4, <1>6, <1>10
  <2>2. f = [rows |-> p.rows, row |-> p.row + 1, column |-> 1]
    BY <2>1 DEF Feed, n
  <2>3. u = [t EXCEPT !.row = @ + 1, !.column = 0]
    BY <1>10 DEF scroll_up
  <2>4. u.row = t.row + 1 /\ u.buffer = t.buffer
    BY <2>3 DEF Screens
  <2> HIDE DEF u, f
  <2>5. f.rows = p.rows /\ Len(f.rows) = n
    BY <2>2 DEF n
  <2>6. IsPaper(f)
    <3>1. f \in [rows : Seq(RowText), row : Nat, column : Nat]
      BY <1>2, <2>2
    <3>2. f.row \in n - VGA_HEIGHT + 1..n /\ f.column \in 1..VGA_WIDTH
      BY <1>1, <1>2, <1>7, <2>1
    <3> QED
      BY <1>2, <2>5, <3>1, <3>2 DEF IsPaper, PaperRows
  <2>7. u.row + 1 = f.row - (n - VGA_HEIGHT)
    BY <1>1, <1>2, <1>4, <1>6, <1>7, <2>4
  <2>8. Matches(u, f)
    BY <1>5, <1>7, <2>4, <2>5, <2>7 DEF Matches, Shows
  <2> QED
    BY <1>8, <2>6, <2>8 DEF u, f
<1> QED
  BY <1>9, <1>10

\* One character on a row.
LEMMA StruckRows ==
  ASSUME NEW r \in Seq(RowText), NEW k \in 1..Len(r), NEW x \in 1..VGA_WIDTH, NEW c \in Chars
  PROVE  LET s == [r EXCEPT ![k][x] = c]
         IN  /\ s \in Seq(RowText) /\ Len(s) = Len(r)
             /\ \A i \in 1..Len(r), z \in 1..VGA_WIDTH :
                  s[i][z] = IF i = k /\ z = x THEN c ELSE r[i][z]
<1> DEFINE s == [r EXCEPT ![k][x] = c]
           q == [r[k] EXCEPT ![x] = c]
<1>1. \A i \in 1..Len(r) : r[i] \in RowText
  BY ElementOfSeq
<1>2. q \in RowText /\ \A z \in 1..VGA_WIDTH : q[z] = IF z = x THEN c ELSE r[k][z]
  BY <1>1 DEF RowText
<1>3. s = [r EXCEPT ![k] = q]
  OBVIOUS
<1> HIDE DEF q, s
<1>4. s \in Seq(RowText) /\ Len(s) = Len(r)
      /\ \A i \in 1..Len(r) : s[i] = IF i = k THEN q ELSE r[i]
  BY <1>2, <1>3, ExceptSeq
<1>5. ASSUME NEW i \in 1..Len(r), NEW z \in 1..VGA_WIDTH
      PROVE  s[i][z] = IF i = k /\ z = x THEN c ELSE r[i][z]
  BY <1>2, <1>4
<1> QED
  BY <1>4, <1>5 DEF s

LEMMA PutEntryFacts ==
  ASSUME NEW b \in Buffers, NEW c \in Chars, NEW u \in 0..VGA_WIDTH - 1, NEW v \in 0..VGA_HEIGHT - 1
  PROVE  /\ terminal_putentryat(b, c, u, v) \in Buffers
         /\ \A y \in 1..VGA_HEIGHT, x \in 1..VGA_WIDTH :
              terminal_putentryat(b, c, u, v)[Cell(y, x)] =
                IF y = v + 1 /\ x = u + 1 THEN c ELSE b[Cell(y, x)]
<1> DEFINE k == v * VGA_WIDTH + u
           d == terminal_putentryat(b, c, u, v)
<1>1. VGA_WIDTH \in Nat /\ VGA_HEIGHT \in Nat
  BY Dimensions
<1>2. k \in Cells
  BY CellOf
<1>3. d = [b EXCEPT ![k] = c]
  BY <1>2 DEF terminal_putentryat
<1>4. d \in Buffers /\ \A i \in Cells : d[i] = IF i = k THEN c ELSE b[i]
  BY <1>2, <1>3 DEF Buffers
<1>5. ASSUME NEW y \in 1..VGA_HEIGHT, NEW x \in 1..VGA_WIDTH
      PROVE  Cell(y, x) = k <=> y = v + 1 /\ x = u + 1
  <2>1. y - 1 \in Int /\ v \in Int /\ x - 1 \in 0..VGA_WIDTH - 1
    BY <1>1
  <2>2. ASSUME Cell(y, x) = k PROVE y = v + 1 /\ x = u + 1
    <3>1. y - 1 = v /\ x - 1 = u
      BY <2>1, <2>2, CellsDiffer DEF Cell
    <3> QED
      BY <1>1, <3>1
  <2>3. ASSUME y = v + 1, x = u + 1 PROVE Cell(y, x) = k
    <3>1. y - 1 = v /\ x - 1 = u
      BY <1>1, <2>3
    <3> QED
      BY <3>1 DEF Cell
  <2> QED
    BY <2>2, <2>3
<1> HIDE DEF k, d
<1>6. ASSUME NEW y \in 1..VGA_HEIGHT, NEW x \in 1..VGA_WIDTH
      PROVE  d[Cell(y, x)] = IF y = v + 1 /\ x = u + 1 THEN c ELSE b[Cell(y, x)]
  BY <1>4, <1>5, CellFacts
<1> QED
  BY <1>4, <1>6 DEF d

\* A visible character on the screen and on the paper.
LEMMA StrikePut ==
  ASSUME NEW t \in Screens, OnScreen(t), NEW p, IsPaper(p), Matches(t, p), NEW c \in Chars
  PROVE  /\ IsPaper(Strike(p, c)) /\ Matches(PutVisible(t, c), Strike(p, c))
         /\ OnScreen(PutVisible(t, c))
<1>1. VGA_WIDTH \in Nat /\ VGA_WIDTH > 0 /\ VGA_HEIGHT \in Nat /\ VGA_HEIGHT > 0
  BY Dimensions
<1> DEFINE n == Len(p.rows)
           R == [p.rows EXCEPT ![p.row][p.column] = c]
           b == terminal_putentryat(t.buffer, c, t.column, t.row)
           struck == [rows |-> R, row |-> p.row, column |-> p.column + 1]
           put == [row |-> t.row, column |-> t.column + 1, buffer |-> b]
<1>2. p.rows \in Seq(RowText) /\ n \in Nat /\ n >= VGA_HEIGHT /\ p.row \in n - VGA_HEIGHT + 1..n
      /\ p.row \in Nat /\ p.column \in 1..VGA_WIDTH
  BY LenProperties DEF PaperRows, IsPaper
<1>3. t.row + 1 = p.row - (n - VGA_HEIGHT) /\ t.column + 1 = p.column
  BY DEF Shows, Matches
<1>4. \A y \in 1..VGA_HEIGHT, x \in 1..VGA_WIDTH :
        t.buffer[Cell(y, x)] = p.rows[n - VGA_HEIGHT + y][x]
  BY DEF Shows, Matches
<1>5. t.row \in 0..VGA_HEIGHT - 1 /\ t.column \in 0..VGA_WIDTH - 1 /\ t.buffer \in Buffers
  BY ScreenFacts DEF OnScreen
<1>6. p.row \in 1..n
  BY <1>1, <1>2
<1>7. R \in Seq(RowText) /\ Len(R) = n
      /\ \A i \in 1..n, z \in 1..VGA_WIDTH :
           R[i][z] = IF i = p.row /\ z = p.column THEN c ELSE p.rows[i][z]
  BY <1>2, <1>6, StruckRows
<1>8. b \in Buffers
      /\ \A y \in 1..VGA_HEIGHT, x \in 1..VGA_WIDTH :
           b[Cell(y, x)] = IF y = t.row + 1 /\ x = t.column + 1 THEN c ELSE t.buffer[Cell(y, x)]
  BY <1>5, PutEntryFacts
<1>9. PutVisible(t, c) = (IF put.column = VGA_WIDTH THEN scroll_up(put) ELSE put)
      /\ Strike(p, c) = (IF p.column = VGA_WIDTH THEN Feed(struck) ELSE struck)
  BY DEF PutVisible, Strike
<1> HIDE DEF n, R, b
<1>10. ASSUME NEW y \in 1..VGA_HEIGHT, NEW x \in 1..VGA_WIDTH
       PROVE  b[Cell(y, x)] = R[n - VGA_HEIGHT + y][x]
  <2> DEFINE i == n - VGA_HEIGHT + y
  <2>1. i \in 1..n
    BY <1>1, <1>2
  <2>2. i = p.row <=> y = t.row + 1
    <3> DEFINE a == p.row
               e == t.row
    <3>1. a \in Nat /\ e \in Nat /\ e + 1 = a - (n - VGA_HEIGHT)
      BY <1>2, <1>3, <1>5
    <3> HIDE DEF a, e
    <3>2. i = a <=> y = e + 1
      BY <1>1, <1>2, <3>1
    <3> QED
      BY <3>2 DEF a, e
  <2>3. t.buffer[Cell(y, x)] = p.rows[i][x]
    BY <1>4
  <2> HIDE DEF i
  <2>4. R[i][x] = IF i = p.row /\ x = p.column THEN c ELSE p.rows[i][x]
    BY <1>7, <2>1
  <2>5. b[Cell(y, x)] = IF y = t.row + 1 /\ x = t.column + 1 THEN c ELSE t.buffer[Cell(y, x)]
    BY <1>8
  <2>6. b[Cell(y, x)] = R[i][x]
    BY ONLY <1>3, <2>2, <2>3, <2>4, <2>5
  <2> QED
    BY <2>6 DEF i
<1>11. put \in Screens /\ put.row = t.row /\ put.column = t.column + 1 /\ put.buffer = b
  BY <1>1, <1>5, <1>8 DEF Screens
<1>12. struck.rows = R /\ struck.row = p.row /\ struck.column = p.column + 1
       /\ struck \in [rows : Seq(RowText), row : Nat, column : Nat]
  BY <1>1, <1>2, <1>7
<1> HIDE DEF put, struck
<1>13. PaperRows(struck)
  BY <1>2, <1>7, <1>12 DEF PaperRows
<1>14. Shows(put, struck)
  <2>1. Len(struck.rows) = n
    BY <1>7, <1>12
  <2> QED
    BY <1>3, <1>10, <1>11, <1>12, <2>1 DEF Shows
<1>15. put.column = VGA_WIDTH <=> p.column = VGA_WIDTH
  BY <1>3, <1>11
<1>16. CASE p.column = VGA_WIDTH
  <2>1. put.row \in 0..VGA_HEIGHT - 1
    BY <1>5, <1>11
  <2> QED
    BY <1>9, <1>11, <1>13, <1>14, <1>15, <1>16, <2>1, FeedScroll
<1>17. CASE p.column # VGA_WIDTH
  <2>1. struck.column \in 1..VGA_WIDTH /\ put.column + 1 = struck.column
        /\ put.column \in 0..VGA_WIDTH - 1
    <3> DEFINE a == p.column
               e == t.column
    <3>1. a \in 1..VGA_WIDTH /\ a # VGA_WIDTH /\ e \in 0..VGA_WIDTH - 1 /\ e + 1 = a
      BY <1>2, <1>3, <1>5, <1>17
    <3> HIDE DEF a, e
    <3>2. a + 1 \in 1..VGA_WIDTH /\ e + 1 + 1 = a + 1 /\ e + 1 \in 0..VGA_WIDTH - 1
      BY <1>1, <3>1
    <3> QED
      BY <1>11, <1>12, <3>2 DEF a, e
  <2>2. IsPaper(struck) /\ Matches(put, struck) /\ OnScreen(put)
    BY <1>5, <1>11, <1>13, <1>14, <2>1 DEF IsPaper, Matches, OnScreen
  <2> QED
    BY <1>9, <1>15, <1>17, <2>2
<1> QED
  BY <1>16, <1>17

Papers == {p \in [rows : Seq(RowText), row : Nat, column : Nat] : IsPaper(p)}

LEMMA FeedPaper ==
  ASSUME NEW p, PaperRows(p)
  PROVE  IsPaper(Feed(p))
<1>1. VGA_WIDTH \in Nat /\ VGA_WIDTH > 0 /\ VGA_HEIGHT \in Nat /\ VGA_HEIGHT > 0
  BY Dimensions
<1> DEFINE n == Len(p.rows)
           blank == [x \in 1..VGA_WIDTH |-> " "]
           r == IF p.row < n THEN p.rows ELSE Append(p.rows, blank)
           f == [rows |-> r, row |-> p.row + 1, column |-> 1]
<1>2. p.rows \in Seq(RowText) /\ n \in Nat /\ n >= VGA_HEIGHT /\ p.row \in n - VGA_HEIGHT + 1..n
      /\ p.row \in Nat
  BY LenProperties DEF PaperRows
<1>3. blank \in RowText
  BY DEF RowText, Chars
<1>4. Feed(p) = f
  BY DEF Feed
<1> HIDE DEF n, blank
<1>5. r \in Seq(RowText) /\ Len(r) = IF p.row < n THEN n ELSE n + 1
  BY <1>2, <1>3, AppendProperties DEF n
<1> DEFINE l == Len(r)
           q == p.row
<1> HIDE DEF r
<1>6. f.rows = r /\ f.row = q + 1 /\ f.column = 1 /\ Len(f.rows) = l
      /\ f \in [rows : Seq(RowText), row : Nat, column : Nat]
  BY <1>2, <1>5
<1>7. q \in Nat /\ q \in n - VGA_HEIGHT + 1..n /\ l = IF q < n THEN n ELSE n + 1
  BY <1>2, <1>5
<1> HIDE DEF f, l, q
<1>8. l >= VGA_HEIGHT /\ q + 1 \in l - VGA_HEIGHT + 1..l /\ 1 \in 1..VGA_WIDTH
  BY <1>1, <1>2, <1>7
<1>9. IsPaper(f)
  BY <1>6, <1>8 DEF IsPaper, PaperRows
<1> QED
  BY <1>4, <1>9

LEMMA StrikePaper ==
  ASSUME NEW p, IsPaper(p), NEW c \in Chars
  PROVE  IsPaper(Strike(p, c))
<1>1. VGA_WIDTH \in Nat /\ VGA_WIDTH > 0 /\ VGA_HEIGHT \in Nat /\ VGA_HEIGHT > 0
  BY Dimensions
<1> DEFINE n == Len(p.rows)
           R == [p.rows EXCEPT ![p.row][p.column] = c]
           s == [rows |-> R, row |-> p.row, column |-> p.column + 1]
<1>2. p.rows \in Seq(RowText) /\ n \in Nat /\ n >= VGA_HEIGHT /\ p.row \in n - VGA_HEIGHT + 1..n
      /\ p.row \in Nat /\ p.column \in 1..VGA_WIDTH
  BY LenProperties DEF PaperRows, IsPaper
<1>3. p.row \in 1..n
  BY <1>1, <1>2
<1>4. R \in Seq(RowText) /\ Len(R) = n
  BY <1>2, <1>3, StruckRows
<1>5. Strike(p, c) = IF p.column = VGA_WIDTH THEN Feed(s) ELSE s
  BY DEF Strike
<1> HIDE DEF R, n
<1>6. s.rows = R /\ s.row = p.row /\ s.column = p.column + 1
      /\ s \in [rows : Seq(RowText), row : Nat, column : Nat]
  BY <1>1, <1>2, <1>4
<1> HIDE DEF s
<1>7. PaperRows(s)
  BY <1>2, <1>4, <1>6 DEF PaperRows
<1>8. p.column # VGA_WIDTH => s.column \in 1..VGA_WIDTH
  BY <1>1, <1>2, <1>6
<1> QED
  BY <1>5, <1>7, <1>8, FeedPaper DEF IsPaper

LEMMA TypedPaper ==
  ASSUME NEW p \in Papers, NEW c \in Chars
  PROVE  Typed(p, c) \in Papers
<1>1. IsPaper(p) /\ " " \in Chars
  BY DEF Papers, Chars
<1>2. SUFFICES IsPaper(Typed(p, c))
  BY DEF Papers, IsPaper, PaperRows
<1>3. CASE c = "\n"
  BY <1>1, <1>3, FeedPaper DEF Typed, IsPaper
<1>4. CASE c = "\r"
  <2>1. Typed(p, c) = [p EXCEPT !.column = 1]
    BY <1>4 DEF Typed
  <2>2. 1 \in 1..VGA_WIDTH
    BY Dimensions
  <2> DEFINE q == [p EXCEPT !.column = 1]
  <2>3. q.rows = p.rows /\ q.row = p.row /\ q.column = 1
        /\ q \in [rows : Seq(RowText), row : Nat, column : Nat]
    BY DEF Papers
  <2> HIDE DEF q
  <2>4. IsPaper(q)
    BY <1>1, <2>2, <2>3 DEF IsPaper, PaperRows
  <2> QED
    BY <2>1, <2>4 DEF q
<1>5. CASE c = "\t"
  <2>1. IsPaper(Strike(Strike(Strike(p, " "), " "), " "))
    BY <1>1, StrikePaper
  <2> QED
    BY <1>5, <2>1 DEF Typed
<1>6. CASE c \notin {"\n", "\r", "\t"}
  <2>1. Typed(p, c) = Strike(p, c)
    BY <1>6 DEF Typed
  <2> QED
    BY <1>1, <2>1, StrikePaper
<1> QED
  BY <1>3, <1>4, <1>5, <1>6

\* A character does the same to the screen and to the paper.
LEMMA PutcharTyped ==
  ASSUME NEW t \in Screens, OnScreen(t), NEW p, IsPaper(p), Matches(t, p), NEW c \in Chars
  PROVE  Matches(__terminal_putchar(t, c), Typed(p, c)) /\ OnScreen(__terminal_putchar(t, c))
<1>1. CASE c = "\n"
  <2>1. __terminal_putchar(t, c) = scroll_up(t) /\ Typed(p, c) = Feed(p)
    BY <1>1 DEF __terminal_putchar, Typed
  <2> QED
    BY <2>1, FeedScroll DEF IsPaper, Matches, OnScreen
<1>2. CASE c = "\r"
  <2> DEFINE u == [t EXCEPT !.column = 0]
             q == [p EXCEPT !.column = 1]
  <2>1. __terminal_putchar(t, c) = u /\ Typed(p, c) = q
    BY <1>2 DEF __terminal_putchar, Typed
  <2>2. u.row = t.row /\ u.buffer = t.buffer /\ u.column = 0
    BY DEF Screens
  <2>3. q.row = p.row /\ q.rows = p.rows /\ q.column = 1
    BY DEF IsPaper, PaperRows
  <2>4. 0 \in 0..VGA_WIDTH - 1
    BY Dimensions
  <2> HIDE DEF u, q
  <2> QED
    BY <2>1, <2>2, <2>3, <2>4 DEF Matches, Shows, OnScreen
<1>3. CASE c = "\t"
  <2> DEFINE t1 == PutVisible(t, " ")
             t2 == PutVisible(t1, " ")
             p1 == Strike(p, " ")
             p2 == Strike(p1, " ")
  <2>1. " " \in Chars
    BY DEF Chars
  <2>2. t1 \in Screens /\ OnScreen(t1) /\ IsPaper(p1) /\ Matches(t1, p1)
    BY <2>1, StrikePut, PutType
  <2> HIDE DEF t1, p1
  <2>3. t2 \in Screens /\ OnScreen(t2) /\ IsPaper(p2) /\ Matches(t2, p2)
    BY <2>1, <2>2, StrikePut, PutType
  <2> HIDE DEF t2, p2
  <2>4. Matches(PutVisible(t2, " "), Strike(p2, " ")) /\ OnScreen(PutVisible(t2, " "))
    BY <2>1, <2>3, StrikePut
  <2> QED
    BY <1>3, <2>4 DEF __terminal_putchar, Typed, t1, t2, p1, p2
<1>4. CASE c \notin {"\n", "\r", "\t"}
  <2>1. __terminal_putchar(t, c) = PutVisible(t, c) /\ Typed(p, c) = Strike(p, c)
    BY <1>4 DEF __terminal_putchar, Typed
  <2> QED
    BY <2>1, StrikePut
<1> QED
  BY <1>1, <1>2, <1>3, <1>4

\* The screens a message goes through.
LEMMA PutcharFold ==
  ASSUME NEW t \in Screens, NEW m \in Seq(Chars)
  PROVE  \E h \in [0..Len(m) -> Screens] :
           /\ h[0] = t
           /\ \A k \in 1..Len(m) : h[k] = __terminal_putchar(h[k - 1], m[k])
           /\ FoldLeft(__terminal_putchar, t, m) = h[Len(m)]
<1> DEFINE n == Len(m)
           step == [x \in (1..n) \X Screens |-> __terminal_putchar(x[2], m[x[1]])]
<1>1. n \in Nat /\ DOMAIN m = 1..n /\ \A k \in 1..n : m[k] \in Chars
  BY LenProperties, ElementOfSeq
<1>2. \A x \in Screens, c \in Chars : __terminal_putchar(x, c) \in Screens
  BY PutcharType
<1>3. step \in [(1..n) \X Screens -> Screens]
  <2>1. \A x \in (1..n) \X Screens : x[1] \in 1..n /\ x[2] \in Screens
    OBVIOUS
  <2>2. \A x \in (1..n) \X Screens : __terminal_putchar(x[2], m[x[1]]) \in Screens
    BY <1>1, <1>2, <2>1
  <2> QED
    BY <2>2
<1>4. PICK g : IsFold(g, Screens, n, t, step)
  <2> HIDE DEF step, n
  <2> QED
    BY <1>1, <1>3, FoldExists
<1> DEFINE Is(f) == f = [s \in SUBSET (1..n) |->
                           IF s = {} THEN t
                           ELSE __terminal_putchar(f[s \ {Max(s)}], m[Max(s)])]
           it == CHOOSE f : Is(f)
<1>5. FoldLeft(__terminal_putchar, t, m) = it[1..n]
  <2> HIDE DEF n
  <2> QED
    BY <1>1 DEF FoldLeft, MapThenFoldSet
<1>6. Is(g)
  <2>1. \A s \in SUBSET (1..n) : s # {} =>
          step[<<Max(s), g[s \ {Max(s)}]>>] = __terminal_putchar(g[s \ {Max(s)}], m[Max(s)])
    <3> TAKE s \in SUBSET (1..n)
    <3> HAVE s # {}
    <3>1. s \ {Max(s)} \in SUBSET (1..n)
      OBVIOUS
    <3>2. Max(s) \in s
      BY <1>1, MaxOfRange
    <3>3. g[s \ {Max(s)}] \in Screens /\ Max(s) \in 1..n
      BY <1>4, <3>1, <3>2 DEF IsFold
    <3> HIDE DEF n
    <3> QED
      BY <3>3
  <2>2. \A s \in SUBSET (1..n) :
          g[s] = IF s = {} THEN t ELSE __terminal_putchar(g[s \ {Max(s)}], m[Max(s)])
    BY <1>4, <2>1 DEF IsFold
  <2> HIDE DEF n
  <2> QED
    BY <1>4, <2>2 DEF IsFold
<1>7. Is(it)
  <2> HIDE DEF Is
  <2> QED
    BY <1>6
<1>8. it[1..0] = t /\ \A k \in 1..n : it[1..k] = __terminal_putchar(it[1..k - 1], m[k])
  <2>1. 1..0 = {} /\ {} \in SUBSET (1..n)
    OBVIOUS
  <2> HIDE DEF n, it
  <2>2. \A k \in 1..n : /\ 1..k \in SUBSET (1..n) /\ 1..k # {}
                        /\ Max(1..k) = k /\ (1..k) \ {k} = 1..k - 1
    BY <1>1, Prefix
  <2>3. it[1..0] = t
    BY <1>7, <2>1
  <2>4. ASSUME NEW k \in 1..n PROVE it[1..k] = __terminal_putchar(it[1..k - 1], m[k])
    <3> DEFINE s == 1..k
    <3>1. s \in SUBSET (1..n) /\ s # {} /\ Max(s) = k /\ s \ {k} = 1..k - 1
      BY <2>2
    <3> HIDE DEF s
    <3>2. it[s] = __terminal_putchar(it[s \ {Max(s)}], m[Max(s)])
      BY <1>7, <3>1
    <3> QED
      BY <3>1, <3>2 DEF s
  <2> QED
    BY <2>3, <2>4
<1> DEFINE H == {k \in Nat : k <= n => it[1..k] \in Screens}
           h == [k \in 0..n |-> it[1..k]]
<1>9. \A k \in Nat : k \in H
  <2> HIDE DEF it, n
  <2>1. 0 \in H
    BY <1>8
  <2>2. ASSUME NEW k \in Nat, k \in H PROVE k + 1 \in H
    <3> SUFFICES ASSUME k + 1 <= n PROVE it[1..k + 1] \in Screens
      OBVIOUS
    <3>1. k + 1 \in 1..n /\ k + 1 - 1 = k /\ it[1..k] \in Screens
      BY <1>1, <2>2
    <3>2. it[1..k + 1] = __terminal_putchar(it[1..k], m[k + 1])
      BY <1>8, <3>1
    <3> QED
      BY <1>1, <1>2, <3>1, <3>2
  <2> HIDE DEF H
  <2> QED
    BY <2>1, <2>2, Induction
<1>10. h \in [0..n -> Screens]
  <2> HIDE DEF it, n
  <2>1. \A k \in 0..n : it[1..k] \in Screens
    <3> TAKE k \in 0..n
    <3>1. k \in Nat /\ k <= n
      BY <1>1
    <3> QED
      BY <1>9, <3>1
  <2> QED
    BY <2>1
<1>11. h[0] = t /\ h[n] = it[1..n] /\ \A k \in 1..n : h[k] = __terminal_putchar(h[k - 1], m[k])
  <2>1. 0 \in 0..n /\ n \in 0..n /\ \A k \in 1..n : k \in 0..n /\ k - 1 \in 0..n
    BY <1>1
  <2> HIDE DEF it, n
  <2> QED
    BY <1>8, <2>1
<1> HIDE DEF h, it
<1> QED
  BY <1>5, <1>10, <1>11

\* The papers a message goes through.
LEMMA TypedFold ==
  ASSUME NEW t \in Papers, NEW m \in Seq(Chars)
  PROVE  \E h \in [0..Len(m) -> Papers] :
           /\ h[0] = t
           /\ \A k \in 1..Len(m) : h[k] = Typed(h[k - 1], m[k])
           /\ FoldLeft(Typed, t, m) = h[Len(m)]
<1> DEFINE n == Len(m)
           step == [x \in (1..n) \X Papers |-> Typed(x[2], m[x[1]])]
<1>1. n \in Nat /\ DOMAIN m = 1..n /\ \A k \in 1..n : m[k] \in Chars
  BY LenProperties, ElementOfSeq
<1>2. \A x \in Papers, c \in Chars : Typed(x, c) \in Papers
  BY TypedPaper
<1>3. step \in [(1..n) \X Papers -> Papers]
  <2>1. \A x \in (1..n) \X Papers : x[1] \in 1..n /\ x[2] \in Papers
    OBVIOUS
  <2>2. \A x \in (1..n) \X Papers : Typed(x[2], m[x[1]]) \in Papers
    BY <1>1, <1>2, <2>1
  <2> QED
    BY <2>2
<1>4. PICK g : IsFold(g, Papers, n, t, step)
  <2> HIDE DEF step, n
  <2> QED
    BY <1>1, <1>3, FoldExists
<1> DEFINE Is(f) == f = [s \in SUBSET (1..n) |->
                           IF s = {} THEN t
                           ELSE Typed(f[s \ {Max(s)}], m[Max(s)])]
           it == CHOOSE f : Is(f)
<1>5. FoldLeft(Typed, t, m) = it[1..n]
  <2> HIDE DEF n
  <2> QED
    BY <1>1 DEF FoldLeft, MapThenFoldSet
<1>6. Is(g)
  <2>1. \A s \in SUBSET (1..n) : s # {} =>
          step[<<Max(s), g[s \ {Max(s)}]>>] = Typed(g[s \ {Max(s)}], m[Max(s)])
    <3> TAKE s \in SUBSET (1..n)
    <3> HAVE s # {}
    <3>1. s \ {Max(s)} \in SUBSET (1..n)
      OBVIOUS
    <3>2. Max(s) \in s
      BY <1>1, MaxOfRange
    <3>3. g[s \ {Max(s)}] \in Papers /\ Max(s) \in 1..n
      BY <1>4, <3>1, <3>2 DEF IsFold
    <3> HIDE DEF n
    <3> QED
      BY <3>3
  <2>2. \A s \in SUBSET (1..n) :
          g[s] = IF s = {} THEN t ELSE Typed(g[s \ {Max(s)}], m[Max(s)])
    BY <1>4, <2>1 DEF IsFold
  <2> HIDE DEF n
  <2> QED
    BY <1>4, <2>2 DEF IsFold
<1>7. Is(it)
  <2> HIDE DEF Is
  <2> QED
    BY <1>6
<1>8. it[1..0] = t /\ \A k \in 1..n : it[1..k] = Typed(it[1..k - 1], m[k])
  <2>1. 1..0 = {} /\ {} \in SUBSET (1..n)
    OBVIOUS
  <2> HIDE DEF n, it
  <2>2. \A k \in 1..n : /\ 1..k \in SUBSET (1..n) /\ 1..k # {}
                        /\ Max(1..k) = k /\ (1..k) \ {k} = 1..k - 1
    BY <1>1, Prefix
  <2>3. it[1..0] = t
    BY <1>7, <2>1
  <2>4. ASSUME NEW k \in 1..n PROVE it[1..k] = Typed(it[1..k - 1], m[k])
    <3> DEFINE s == 1..k
    <3>1. s \in SUBSET (1..n) /\ s # {} /\ Max(s) = k /\ s \ {k} = 1..k - 1
      BY <2>2
    <3> HIDE DEF s
    <3>2. it[s] = Typed(it[s \ {Max(s)}], m[Max(s)])
      BY <1>7, <3>1
    <3> QED
      BY <3>1, <3>2 DEF s
  <2> QED
    BY <2>3, <2>4
<1> DEFINE H == {k \in Nat : k <= n => it[1..k] \in Papers}
           h == [k \in 0..n |-> it[1..k]]
<1>9. \A k \in Nat : k \in H
  <2> HIDE DEF it, n
  <2>1. 0 \in H
    BY <1>8
  <2>2. ASSUME NEW k \in Nat, k \in H PROVE k + 1 \in H
    <3> SUFFICES ASSUME k + 1 <= n PROVE it[1..k + 1] \in Papers
      OBVIOUS
    <3>1. k + 1 \in 1..n /\ k + 1 - 1 = k /\ it[1..k] \in Papers
      BY <1>1, <2>2
    <3>2. it[1..k + 1] = Typed(it[1..k], m[k + 1])
      BY <1>8, <3>1
    <3> QED
      BY <1>1, <1>2, <3>1, <3>2
  <2> HIDE DEF H
  <2> QED
    BY <2>1, <2>2, Induction
<1>10. h \in [0..n -> Papers]
  <2> HIDE DEF it, n
  <2>1. \A k \in 0..n : it[1..k] \in Papers
    <3> TAKE k \in 0..n
    <3>1. k \in Nat /\ k <= n
      BY <1>1
    <3> QED
      BY <1>9, <3>1
  <2> QED
    BY <2>1
<1>11. h[0] = t /\ h[n] = it[1..n] /\ \A k \in 1..n : h[k] = Typed(h[k - 1], m[k])
  <2>1. 0 \in 0..n /\ n \in 0..n /\ \A k \in 1..n : k \in 0..n /\ k - 1 \in 0..n
    BY <1>1
  <2> HIDE DEF it, n
  <2> QED
    BY <1>8, <2>1
<1> HIDE DEF h, it
<1> QED
  BY <1>5, <1>10, <1>11

\* A handler's message leaves the beginning of a row, whatever it found.
LEMMA MessageLeaves ==
  ASSUME NEW t \in Screens, NEW m \in Messages
  PROVE  LET u == FoldLeft(__terminal_putchar, t, m)
         IN  /\ u \in Screens /\ u.column = 0
             /\ t.row \in 0..VGA_HEIGHT - 1 => u.row \in 0..VGA_HEIGHT - 1
             /\ \A p : IsPaper(p) /\ OnScreen(t) /\ Matches(t, p) =>
                  IsPaper(FoldLeft(Typed, p, m)) /\ Matches(u, FoldLeft(Typed, p, m))
<1> DEFINE n == Len(m)
           u == FoldLeft(__terminal_putchar, t, m)
<1>1. m \in Seq(Chars) /\ n \in Nat /\ n > 0 /\ m[n] = "\n" /\ \A k \in 1..n : m[k] \in Chars
  <2>1. m \in Seq(STRING) /\ m # <<>> /\ m[n] = "\n"
    BY TerminalAssumption
  <2>2. n \in Nat /\ n > 0 /\ m = [k \in 1..n |-> m[k]]
    BY <2>1, EmptySeq, LenProperties
  <2>3. \A k \in 1..n : m[k] \in Chars
    <3> TAKE k \in 1..n
    <3> DEFINE All == {{q[j] : j \in 1..Len(q)} : q \in Messages}
    <3>1. {m[j] : j \in 1..Len(m)} \in All
      OBVIOUS
    <3>2. m[k] \in {m[j] : j \in 1..Len(m)}
      OBVIOUS
    <3> HIDE DEF All
    <3>3. m[k] \in UNION All
      BY <3>1, <3>2
    <3> QED
      BY <3>3 DEF Chars, All
  <2>4. m \in Seq(Chars)
    <3> HIDE DEF n
    <3> QED
      BY <2>2, <2>3, IsASeq
  <2> QED
    BY <2>1, <2>2, <2>3, <2>4
<1>2. PICK h \in [0..n -> Screens] :
        /\ h[0] = t
        /\ \A k \in 1..n : h[k] = __terminal_putchar(h[k - 1], m[k])
        /\ u = h[n]
  BY <1>1, PutcharFold
<1> HIDE DEF n, u
<1>3. \A k \in 0..n : h[k] \in Screens
  BY <1>2
<1>4. u \in Screens /\ u.column = 0
  <2>1. n \in 0..n /\ n - 1 \in 0..n /\ n \in 1..n
    BY <1>1
  <2>2. u = __terminal_putchar(h[n - 1], m[n]) /\ h[n - 1] \in Screens /\ m[n] \in Chars
    BY <1>1, <1>2, <1>3, <2>1
  <2> QED
    BY <1>1, <2>2, PutcharType
<1>5. ASSUME t.row \in 0..VGA_HEIGHT - 1 PROVE u.row \in 0..VGA_HEIGHT - 1
  <2> DEFINE H == {k \in Nat : k <= n => h[k].row \in 0..VGA_HEIGHT - 1}
  <2>1. 0 \in H
    BY <1>2, <1>5
  <2>2. ASSUME NEW k \in Nat, k \in H PROVE k + 1 \in H
    <3> SUFFICES ASSUME k + 1 <= n PROVE h[k + 1].row \in 0..VGA_HEIGHT - 1
      OBVIOUS
    <3>1. k + 1 \in 1..n /\ k + 1 - 1 = k /\ k \in 0..n /\ h[k].row \in 0..VGA_HEIGHT - 1
      BY <1>1, <2>2
    <3>2. h[k + 1] = __terminal_putchar(h[k], m[k + 1]) /\ h[k] \in Screens /\ m[k + 1] \in Chars
      BY <1>1, <1>2, <1>3, <3>1
    <3> QED
      BY <3>1, <3>2, PutcharType
  <2>3. \A k \in Nat : k \in H
    <3> HIDE DEF H
    <3> QED
      BY <2>1, <2>2, Induction
  <2> QED
    BY <1>1, <1>2, <2>3
<1>6. ASSUME NEW p, IsPaper(p), OnScreen(t), Matches(t, p)
      PROVE  IsPaper(FoldLeft(Typed, p, m)) /\ Matches(u, FoldLeft(Typed, p, m))
  <2> DEFINE q == FoldLeft(Typed, p, m)
  <2>1. p \in Papers
    BY <1>6 DEF Papers, IsPaper, PaperRows
  <2>2. PICK f \in [0..n -> Papers] :
          /\ f[0] = p
          /\ \A k \in 1..n : f[k] = Typed(f[k - 1], m[k])
          /\ q = f[n]
    BY <1>1, <2>1, TypedFold DEF n
  <2> HIDE DEF q
  <2>3. \A k \in 0..n : f[k] \in Papers /\ IsPaper(f[k])
    BY <2>2 DEF Papers
  <2> DEFINE H == {k \in Nat : k <= n => OnScreen(h[k]) /\ Matches(h[k], f[k])}
  <2>4. 0 \in H
    BY <1>2, <1>6, <2>2
  <2>5. ASSUME NEW k \in Nat, k \in H PROVE k + 1 \in H
    <3> SUFFICES ASSUME k + 1 <= n PROVE OnScreen(h[k + 1]) /\ Matches(h[k + 1], f[k + 1])
      OBVIOUS
    <3>1. k + 1 \in 1..n /\ k + 1 - 1 = k /\ k \in 0..n /\ OnScreen(h[k]) /\ Matches(h[k], f[k])
      BY <1>1, <2>5
    <3>2. h[k + 1] = __terminal_putchar(h[k], m[k + 1]) /\ h[k] \in Screens /\ m[k + 1] \in Chars
      BY <1>1, <1>2, <1>3, <3>1
    <3>3. f[k + 1] = Typed(f[k], m[k + 1]) /\ IsPaper(f[k])
      BY <2>2, <2>3, <3>1
    <3> QED
      BY <3>1, <3>2, <3>3, PutcharTyped
  <2>6. \A k \in Nat : k \in H
    <3> HIDE DEF H
    <3> QED
      BY <2>4, <2>5, Induction
  <2>7. Matches(h[n], f[n]) /\ IsPaper(f[n])
    <3>1. n \in Nat /\ n <= n /\ n \in 0..n
      BY <1>1
    <3> QED
      BY <2>3, <2>6, <3>1
  <2> QED
    BY <1>2, <2>2, <2>7 DEF q
<1> QED
  BY <1>4, <1>5, <1>6 DEF u

-----------------------------------------------------------------------------
(* The kernel's steps leave what they are going to leave *)

LEMMA ScreenUpdates ==
  ASSUME NEW t \in Screens, NEW a
  PROVE  /\ [t EXCEPT !.row = a] = [row |-> a, column |-> t.column, buffer |-> t.buffer]
         /\ [t EXCEPT !.column = a] = [row |-> t.row, column |-> a, buffer |-> t.buffer]
         /\ [t EXCEPT !.buffer = a] = [row |-> t.row, column |-> t.column, buffer |-> a]
BY DEF Screens

\* The end of PutVisible().
Stored(t) ==
  LET put == [row |-> t.row, column |-> t.column + 1, buffer |-> t.buffer]
  IN  IF t.column + 1 = VGA_WIDTH THEN scroll_up(put) ELSE put

LEMMA FinishedStore ==
  ASSUME NEW t \in Screens, NEW c, NEW n
  PROVE  FinishedFrom("store_column", t, c, n) = Others(Stored(t), c, n)
<1> DEFINE u == [row |-> t.row, column |-> t.column + 1, buffer |-> t.buffer]
<1>1. FinishedFrom("store_column", t, c, n) =
        LET put == [t EXCEPT !.column = t.column + 1]
        IN  Others(IF put.column = VGA_WIDTH THEN scroll_up(put) ELSE put, c, n)
  BY DEF FinishedFrom
<1>2. [t EXCEPT !.column = t.column + 1] = u
  BY ScreenUpdates
<1>3. u.column = t.column + 1
  OBVIOUS
<1>4. Stored(t) = IF t.column + 1 = VGA_WIDTH THEN scroll_up(u) ELSE u
  BY DEF Stored
<1> HIDE DEF u
<1> QED
  BY <1>1, <1>2, <1>3, <1>4

LEMMA FinishedMove ==
  ASSUME NEW t, NEW c, NEW n
  PROVE  FinishedFrom("move", t, c, n) =
           Others([row |-> VGA_HEIGHT - 1, column |-> t.column, buffer |-> Scrolled(t.buffer)], c, n)
BY DEF FinishedFrom

\* One of several characters.
LEMMA PutOne ==
  ASSUME NEW t, NEW c, NEW n \in 1..3
  PROVE  PutTimes(t, c, n) = Others(PutVisible(t, c), c, n)
<1>1. n = 1 \/ n = 2 \/ n = 3
  OBVIOUS
<1> QED
  BY <1>1 DEF PutTimes, Others

\* PutDone leaves the others to put.
LEMMA FinishedDone ==
  ASSUME NEW t, NEW c, NEW n \in 0..3, NEW k, NEW step,
         k = IF n = 0 THEN 0 ELSE n - 1,
         step = IF k = 0 THEN "cursor" ELSE "put"
  PROVE  FinishedFrom(step, t, c, k) = Others(t, c, n)
<1>1. CASE k = 0
  <2>1. FinishedFrom(step, t, c, k) = t
    BY <1>1 DEF FinishedFrom
  <2>2. Others(t, c, n) = t
    BY <1>1 DEF Others, PutTimes
  <2> QED
    BY <2>1, <2>2
<1>2. CASE k # 0
  BY <1>2 DEF Others, FinishedFrom
<1> QED
  BY <1>1, <1>2

LEMMA FinishedEntry ==
  ASSUME NEW t \in Screens, NEW c \in Chars, NEW n \in 1..3, NEW u,
         u = [t EXCEPT !.buffer = terminal_putentryat(t.buffer, c, t.column, t.row)],
         u \in Screens
  PROVE  FinishedFrom("store_column", u, c, n) = FinishedFrom("entry", t, c, n)
<1> DEFINE b == terminal_putentryat(t.buffer, c, t.column, t.row)
           put == [row |-> t.row, column |-> t.column + 1, buffer |-> b]
<1>1. u.row = t.row /\ u.column = t.column /\ u.buffer = b
  <2>1. u = [row |-> t.row, column |-> t.column, buffer |-> b]
    BY ScreenUpdates
  <2> HIDE DEF b
  <2> QED
    BY <2>1
<1>2. PutVisible(t, c) = IF t.column + 1 = VGA_WIDTH THEN scroll_up(put) ELSE put
  BY DEF PutVisible
<1>3. Stored(u) = PutVisible(t, c)
  <2> HIDE DEF b
  <2> QED
    BY <1>1, <1>2 DEF Stored
<1>5. FinishedFrom("store_column", u, c, n) = Others(PutVisible(t, c), c, n)
  BY <1>3, FinishedStore
<1>6. FinishedFrom("entry", t, c, n) = PutTimes(t, c, n)
  BY DEF FinishedFrom
<1> QED
  BY <1>5, <1>6, PutOne

LEMMA FinishedScrolls ==
  ASSUME NEW t \in Screens, NEW u, u = [t EXCEPT !.column = 0]
  PROVE  scroll_up(u) = scroll_up(t)
<1>1. u = [row |-> t.row, column |-> 0, buffer |-> t.buffer]
  BY ScreenUpdates
<1>2. u.row = t.row /\ u.buffer = t.buffer
  BY <1>1
<1>3. CASE t.row + 1 = VGA_HEIGHT
  BY <1>2, <1>3 DEF scroll_up
<1>4. CASE t.row + 1 # VGA_HEIGHT
  <2>1. scroll_up(t) = [row |-> t.row + 1, column |-> 0, buffer |-> t.buffer]
    BY <1>4 DEF scroll_up, Screens
  <2>2. scroll_up(u) = [row |-> t.row + 1, column |-> 0, buffer |-> t.buffer]
    BY <1>1, <1>2, <1>4 DEF scroll_up
  <2> QED
    BY <2>1, <2>2
<1> QED
  BY <1>3, <1>4

\* The row is stored before the rows are moved.
LEMMA FinishedRow ==
  ASSUME NEW t \in Screens, t.column = 0, NEW u, u = [t EXCEPT !.row = t.row + 1]
  PROVE  IF t.row + 1 = VGA_HEIGHT
           THEN scroll_up(t) = [row |-> VGA_HEIGHT - 1, column |-> u.column,
                                buffer |-> Scrolled(u.buffer)]
           ELSE scroll_up(t) = u
<1>1. u = [row |-> t.row + 1, column |-> 0, buffer |-> t.buffer]
  BY ScreenUpdates
<1>2. u.column = 0 /\ u.buffer = t.buffer
  BY <1>1
<1>3. CASE t.row + 1 = VGA_HEIGHT
  BY <1>2, <1>3 DEF scroll_up
<1>4. CASE t.row + 1 # VGA_HEIGHT
  <2>1. scroll_up(t) = [row |-> t.row + 1, column |-> 0, buffer |-> t.buffer]
    BY <1>4 DEF scroll_up, Screens
  <2> QED
    BY <1>1, <1>4, <2>1
<1> QED
  BY <1>3, <1>4

\* How putchar() begins: its first step, the character and how often to put it.
Begins(c, step, k, n) ==
  /\ k = (IF c = "\t" THEN " " ELSE c)
  /\ n = (CASE c = "\t" -> 3 [] c \in {"\n", "\r"} -> 0 [] OTHER -> 1)
  /\ step = (CASE c = "\n" -> "scroll" [] c = "\r" -> "return" [] OTHER -> "put")

LEMMA FinishedPutchar ==
  ASSUME NEW t, NEW c, NEW step, NEW k, NEW n, Begins(c, step, k, n)
  PROVE  FinishedFrom(step, t, k, n) = __terminal_putchar(t, c)
<1> USE DEF Begins
<1>1. CASE c = "\n"
  <2>1. step = "scroll" /\ n = 0
    BY <1>1
  <2> QED
    BY <1>1, <2>1 DEF FinishedFrom, __terminal_putchar, Others, PutTimes
<1>2. CASE c = "\r"
  <2>1. step = "return"
    BY <1>2
  <2> QED
    BY <1>2, <2>1 DEF FinishedFrom, __terminal_putchar
<1>3. CASE c = "\t"
  <2>1. step = "put" /\ n = 3 /\ k = " "
    BY <1>3
  <2>2. FinishedFrom(step, t, k, n) = PutTimes(t, k, n)
    BY <2>1 DEF FinishedFrom
  <2>3. PutTimes(t, k, n) = PutVisible(PutVisible(PutVisible(t, k), k), k)
    <3>1. n = 3
      BY <2>1
    <3> QED
      BY ONLY <3>1 DEF PutTimes
  <2>4. __terminal_putchar(t, c) = PutVisible(PutVisible(PutVisible(t, " "), " "), " ")
    BY <1>3 DEF __terminal_putchar
  <2> QED
    BY <2>1, <2>2, <2>3, <2>4
<1>4. CASE c \notin {"\n", "\r", "\t"}
  <2>1. step = "put" /\ n = 1 /\ k = c
    BY <1>4
  <2>2. FinishedFrom(step, t, k, n) = PutTimes(t, c, n)
    BY <2>1 DEF FinishedFrom
  <2>3. PutTimes(t, c, n) = PutVisible(t, c)
    BY ONLY <2>1 DEF PutTimes
  <2>4. __terminal_putchar(t, c) = PutVisible(t, c)
    BY <1>4 DEF __terminal_putchar
  <2> QED
    BY <2>2, <2>3, <2>4
<1> QED
  BY <1>1, <1>2, <1>3, <1>4

-----------------------------------------------------------------------------
(* Every step keeps the invariant *)

\* An empty screen shows an empty sheet.
LEMMA RowsFacts ==
  ASSUME NEW b \in Buffers
  PROVE  /\ Rows(b) \in Seq(RowText) /\ Len(Rows(b)) = VGA_HEIGHT
         /\ \A y \in 1..VGA_HEIGHT, x \in 1..VGA_WIDTH : Rows(b)[y][x] = b[Cell(y, x)]
<1>1. VGA_HEIGHT \in Nat /\ VGA_WIDTH \in Nat
  BY Dimensions
<1>2. ASSUME NEW y \in 1..VGA_HEIGHT, NEW x \in 1..VGA_WIDTH
      PROVE  (y - 1) * VGA_WIDTH + x - 1 = Cell(y, x) /\ Cell(y, x) \in Cells
  <2> DEFINE q == (y - 1) * VGA_WIDTH
  <2>1. q \in Int /\ x \in Int
    BY <1>1, Product
  <2>2. Cell(y, x) = q + (x - 1)
    BY DEF Cell
  <2> HIDE DEF q
  <2>3. q + x - 1 = q + (x - 1)
    BY <2>1
  <2> QED
    BY <2>2, <2>3, CellFacts DEF q
<1>3. ASSUME NEW y \in 1..VGA_HEIGHT
      PROVE  /\ Row(b, y - 1) \in RowText
             /\ \A x \in 1..VGA_WIDTH : Row(b, y - 1)[x] = b[Cell(y, x)]
  <2>1. Row(b, y - 1) = [x \in 1..VGA_WIDTH |-> b[(y - 1) * VGA_WIDTH + x - 1]]
    BY DEF Row
  <2>2. Row(b, y - 1) = [x \in 1..VGA_WIDTH |-> b[Cell(y, x)]]
    BY <1>2, <2>1
  <2>3. \A x \in 1..VGA_WIDTH : b[Cell(y, x)] \in Chars
    BY <1>2 DEF Buffers
  <2> QED
    BY <2>2, <2>3 DEF RowText
<1>4. Rows(b) = [y \in 1..VGA_HEIGHT |-> Row(b, y - 1)]
  BY DEF Rows
<1>5. Rows(b) \in Seq(RowText) /\ Len(Rows(b)) = VGA_HEIGHT
  BY <1>1, <1>3, <1>4, IsASeq
<1>6. ASSUME NEW y \in 1..VGA_HEIGHT, NEW x \in 1..VGA_WIDTH
      PROVE  Rows(b)[y][x] = b[Cell(y, x)]
  <2>1. Rows(b)[y] = Row(b, y - 1)
    BY <1>4
  <2> QED
    BY <1>3, <2>1
<1> QED
  BY <1>5, <1>6

\* A screen shows a sheet of its own rows.
LEMMA OwnPaper ==
  ASSUME NEW t \in Screens, OnScreen(t)
  PROVE  LET p == [rows |-> Rows(t.buffer), row |-> t.row + 1, column |-> t.column + 1]
         IN  IsPaper(p) /\ Matches(t, p)
<1> DEFINE r == Rows(t.buffer)
           p == [rows |-> r, row |-> t.row + 1, column |-> t.column + 1]
<1>1. VGA_HEIGHT \in Nat /\ VGA_WIDTH \in Nat
  BY Dimensions
<1>2. r \in Seq(RowText) /\ Len(r) = VGA_HEIGHT
      /\ \A y \in 1..VGA_HEIGHT, x \in 1..VGA_WIDTH : r[y][x] = t.buffer[Cell(y, x)]
  BY ScreenFacts, RowsFacts
<1>3. t.row \in 0..VGA_HEIGHT - 1 /\ t.column \in 0..VGA_WIDTH - 1
  BY DEF OnScreen
<1> HIDE DEF r
<1>4. p.rows = r /\ p.row = t.row + 1 /\ p.column = t.column + 1
      /\ p \in [rows : Seq(RowText), row : Nat, column : Nat]
  BY <1>1, <1>2, <1>3
<1> HIDE DEF p
<1>5. Len(p.rows) = VGA_HEIGHT
  BY <1>2, <1>4
<1> DEFINE a == t.row
           e == t.column
<1>6. a + 1 \in VGA_HEIGHT - VGA_HEIGHT + 1..VGA_HEIGHT /\ e + 1 \in 1..VGA_WIDTH
      /\ VGA_HEIGHT >= VGA_HEIGHT /\ a + 1 = a + 1 - (VGA_HEIGHT - VGA_HEIGHT)
  <2>1. a \in 0..VGA_HEIGHT - 1 /\ e \in 0..VGA_WIDTH - 1
    BY <1>3
  <2> HIDE DEF a, e
  <2> QED
    BY <1>1, <2>1
<1>7. IsPaper(p)
  BY <1>4, <1>5, <1>6 DEF IsPaper, PaperRows
<1>8. \A y \in 1..VGA_HEIGHT : VGA_HEIGHT - VGA_HEIGHT + y = y
  BY <1>1
<1>9. Matches(t, p)
  BY <1>2, <1>4, <1>5, <1>6, <1>8 DEF Matches, Shows
<1> QED
  BY <1>7, <1>9 DEF p, r

LEMMA InitHolds == Init => IInv
<1> SUFFICES ASSUME Init PROVE IInv
  OBVIOUS
<1>1. VGA_WIDTH \in Nat /\ VGA_WIDTH > 0 /\ VGA_HEIGHT \in Nat /\ VGA_HEIGHT > 0
      /\ ByteSize \in Nat /\ ByteSize > 0
  BY Dimensions
<1> DEFINE b == [x \in Cells |-> " "]
<1>2. b \in Buffers /\ term = [row |-> 0, column |-> 0, buffer |-> b] /\ " " \in Chars
  BY DEF Buffers, Chars, Init
<1> HIDE DEF b
<1>3. term \in Screens /\ term.row = 0 /\ term.column = 0 /\ term.buffer = b
  BY <1>2 DEF Screens
<1>r. /\ pc = "rest" /\ ch = " " /\ left = 0
      /\ vga = [index |-> "high", low |-> 0, high |-> 0] /\ reg_pos = 0 /\ disturbed = FALSE
  BY DEF Init
<1>4. PositionInv
  <2>1. ch \in Chars /\ left \in 0..3
    <3>1. ch \in Chars
      BY <1>2, <1>r, Zenon
    <3>2. left \in 0..3
      <4>1. left = 0
        BY <1>r, Zenon
      <4> QED
        BY ONLY <4>1
    <3> QED
      BY <3>1, <3>2
  <2>2. term.row \in 0..VGA_HEIGHT - 1 /\ term.column \in 0..VGA_WIDTH - 1
    BY <1>1, <1>3
  <2>3. term \in Screens
    BY <1>3
  <2> QED
    BY ONLY <1>r, <2>1, <2>2, <2>3 DEF PositionInv, Putting, Scrolling, Updating
<1>5. Position(term) = 0
  BY <1>1, <1>3 DEF Position
<1>6. CursorInv
  <2>1. 0 % ByteSize = 0 /\ 0 \div ByteSize = 0
    BY <1>1
  <2> QED
    <3>1. Position(term) % ByteSize = 0 /\ (Position(term) \div ByteSize) % ByteSize = 0
      BY <1>5, <2>1
    <3>2. vga.low = 0 /\ vga.high = 0 /\ vga.index = "high"
          /\ vga \in [index : {"low", "high"}, low : Int, high : Int]
      <4>1. vga = [index |-> "high", low |-> 0, high |-> 0]
        BY <1>r
      <4> QED
        BY ONLY <4>1
    <3> QED
      BY ONLY <1>r, <3>1, <3>2 DEF CursorInv, Updating
<1>7. RegisterInv
  BY DEF RegisterInv, Init
<1>8. OnScreen(term)
  BY <1>1, <1>3 DEF OnScreen
<1>9. paper = [rows |-> Rows(term.buffer), row |-> term.row + 1, column |-> term.column + 1]
  <2>1. \A y \in 1..VGA_HEIGHT : Row(b, y - 1) = [x \in 1..VGA_WIDTH |-> " "]
    <3> TAKE y \in 1..VGA_HEIGHT
    <3>1. \A x \in 1..VGA_WIDTH : b[(y - 1) * VGA_WIDTH + x - 1] = " "
      <4> TAKE x \in 1..VGA_WIDTH
      <4> DEFINE q == (y - 1) * VGA_WIDTH
      <4>1. q \in Int /\ x \in Int /\ Cell(y, x) = q + (x - 1) /\ Cell(y, x) \in Cells
        BY <1>1, Product, CellFacts DEF Cell
      <4> HIDE DEF q
      <4>2. q + x - 1 = q + (x - 1)
        BY <4>1
      <4>3. b[q + x - 1] = " "
        BY <4>1, <4>2 DEF b
      <4> QED
        BY <4>3 DEF q
    <3> QED
      BY <3>1 DEF Row
  <2>2. Rows(b) = [y \in 1..VGA_HEIGHT |-> [x \in 1..VGA_WIDTH |-> " "]]
    BY <2>1 DEF Rows
  <2>3. paper = [rows |-> [y \in 1..VGA_HEIGHT |-> [x \in 1..VGA_WIDTH |-> " "]],
                 row |-> 1, column |-> 1]
    BY DEF Init
  <2>4. paper = [rows |-> Rows(b), row |-> 1, column |-> 1]
    BY <2>2, <2>3
  <2> QED
    BY <1>3, <2>4
<1>10. IsPaper(paper) /\ Matches(term, paper)
  BY <1>3, <1>8, <1>9, OwnPaper
<1>11. Finished = term
  BY DEF Finished, FinishedFrom, Init
<1> QED
  BY <1>4, <1>6, <1>7, <1>10, <1>11 DEF IInv, PaperInv


LEMMA LoadRowKeeps == IInv /\ LoadRow => IInv'
<1> SUFFICES ASSUME IInv, LoadRow PROVE IInv'
  OBVIOUS
<1>1. PositionInv /\ CursorInv /\ RegisterInv /\ PaperInv
  BY DEF IInv
<1>2. VGA_WIDTH \in Nat /\ VGA_WIDTH > 0 /\ VGA_HEIGHT \in Nat /\ VGA_HEIGHT > 0
  BY Dimensions
<1>3. term \in Screens /\ term.row \in Nat /\ term.column \in Nat /\ term.buffer \in Buffers
      /\ ch \in Chars /\ left \in 0..3
  BY <1>1, ScreenFacts DEF PositionInv
<1>4. term' = term
  BY DEF LoadRow, Goto, At, rest_unchanged, screen, screen
<1>5. PositionInv'
  BY <1>1, <1>2, <1>3, <1>4 DEF PositionInv, LoadRow, Goto, At, rest_unchanged, screen, Putting, Scrolling, Updating
<1>6. CursorInv'
  BY <1>1, <1>3, <1>4 DEF CursorInv, LoadRow, Goto, At, rest_unchanged, screen, Updating
<1>7. RegisterInv'
  BY <1>1, <1>3, <1>4 DEF RegisterInv, LoadRow, Goto, At, rest_unchanged, screen, Putting, Scrolling, Updating
<1>8. ASSUME ~ disturbed PROVE Finished' = Finished
  BY <1>1, <1>4, <1>8 DEF Finished, FinishedFrom, LoadRow, Goto, At, rest_unchanged, screen, At
<1>9. PaperInv'
  <2>1. paper' = paper /\ disturbed' = disturbed /\ pc # "rest"
        /\ (pc' = "rest" => ~ disturbed)
    BY <1>1, <1>2, <1>3, <1>4 DEF LoadRow, Goto, At, rest_unchanged, screen, At
  <2> QED
    BY <1>1, <1>8, <2>1 DEF PaperInv
<1> QED
  BY <1>5, <1>6, <1>7, <1>9 DEF IInv

LEMMA LoadColumnKeeps == IInv /\ LoadColumn => IInv'
<1> SUFFICES ASSUME IInv, LoadColumn PROVE IInv'
  OBVIOUS
<1>1. PositionInv /\ CursorInv /\ RegisterInv /\ PaperInv
  BY DEF IInv
<1>2. VGA_WIDTH \in Nat /\ VGA_WIDTH > 0 /\ VGA_HEIGHT \in Nat /\ VGA_HEIGHT > 0
  BY Dimensions
<1>3. term \in Screens /\ term.row \in Nat /\ term.column \in Nat /\ term.buffer \in Buffers
      /\ ch \in Chars /\ left \in 0..3
  BY <1>1, ScreenFacts DEF PositionInv
<1>4. term' = term
  BY DEF LoadColumn, Goto, At, rest_unchanged, screen, screen
<1>5. PositionInv'
  BY <1>1, <1>2, <1>3, <1>4 DEF PositionInv, LoadColumn, Goto, At, rest_unchanged, screen, Putting, Scrolling, Updating
<1>6. CursorInv'
  BY <1>1, <1>3, <1>4 DEF CursorInv, LoadColumn, Goto, At, rest_unchanged, screen, Updating
<1>7. RegisterInv'
  BY <1>1, <1>3, <1>4 DEF RegisterInv, LoadColumn, Goto, At, rest_unchanged, screen, Putting, Scrolling, Updating
<1>8. ASSUME ~ disturbed PROVE Finished' = Finished
  BY <1>1, <1>4, <1>8 DEF Finished, FinishedFrom, LoadColumn, Goto, At, rest_unchanged, screen, At
<1>9. PaperInv'
  <2>1. paper' = paper /\ disturbed' = disturbed /\ pc # "rest"
        /\ (pc' = "rest" => ~ disturbed)
    BY <1>1, <1>2, <1>3, <1>4 DEF LoadColumn, Goto, At, rest_unchanged, screen, At
  <2> QED
    BY <1>1, <1>8, <2>1 DEF PaperInv
<1> QED
  BY <1>5, <1>6, <1>7, <1>9 DEF IInv

LEMMA ScrollLoadRowKeeps == IInv /\ ScrollLoadRow => IInv'
<1> SUFFICES ASSUME IInv, ScrollLoadRow PROVE IInv'
  OBVIOUS
<1>1. PositionInv /\ CursorInv /\ RegisterInv /\ PaperInv
  BY DEF IInv
<1>2. VGA_WIDTH \in Nat /\ VGA_WIDTH > 0 /\ VGA_HEIGHT \in Nat /\ VGA_HEIGHT > 0
  BY Dimensions
<1>3. term \in Screens /\ term.row \in Nat /\ term.column \in Nat /\ term.buffer \in Buffers
      /\ ch \in Chars /\ left \in 0..3
  BY <1>1, ScreenFacts DEF PositionInv
<1>4. term' = term
  BY DEF ScrollLoadRow, Goto, At, rest_unchanged, screen, screen
<1>5. PositionInv'
  BY <1>1, <1>2, <1>3, <1>4 DEF PositionInv, ScrollLoadRow, Goto, At, rest_unchanged, screen, Putting, Scrolling, Updating
<1>6. CursorInv'
  BY <1>1, <1>3, <1>4 DEF CursorInv, ScrollLoadRow, Goto, At, rest_unchanged, screen, Updating
<1>7. RegisterInv'
  BY <1>1, <1>3, <1>4 DEF RegisterInv, ScrollLoadRow, Goto, At, rest_unchanged, screen, Putting, Scrolling, Updating
<1>8. ASSUME ~ disturbed PROVE Finished' = Finished
  BY <1>1, <1>4, <1>8 DEF Finished, FinishedFrom, ScrollLoadRow, Goto, At, rest_unchanged, screen, At
<1>9. PaperInv'
  <2>1. paper' = paper /\ disturbed' = disturbed /\ pc # "rest"
        /\ (pc' = "rest" => ~ disturbed)
    BY <1>1, <1>2, <1>3, <1>4 DEF ScrollLoadRow, Goto, At, rest_unchanged, screen, At
  <2> QED
    BY <1>1, <1>8, <2>1 DEF PaperInv
<1> QED
  BY <1>5, <1>6, <1>7, <1>9 DEF IInv

LEMMA CursorPositionKeeps == IInv /\ CursorPosition => IInv'
<1> SUFFICES ASSUME IInv, CursorPosition PROVE IInv'
  OBVIOUS
<1>1. PositionInv /\ CursorInv /\ RegisterInv /\ PaperInv
  BY DEF IInv
<1>2. VGA_WIDTH \in Nat /\ VGA_WIDTH > 0 /\ VGA_HEIGHT \in Nat /\ VGA_HEIGHT > 0
  BY Dimensions
<1>3. term \in Screens /\ term.row \in Nat /\ term.column \in Nat /\ term.buffer \in Buffers
      /\ ch \in Chars /\ left \in 0..3
  BY <1>1, ScreenFacts DEF PositionInv
<1>4. term' = term
  BY DEF CursorPosition, Goto, At, rest_unchanged, screen, screen
<1>5. PositionInv'
  BY <1>1, <1>2, <1>3, <1>4 DEF PositionInv, CursorPosition, Goto, At, rest_unchanged, screen, Position, Putting, Scrolling, Updating
<1>6. CursorInv'
  BY <1>1, <1>3, <1>4 DEF CursorInv, CursorPosition, Goto, At, rest_unchanged, screen, Position, Updating
<1>7. RegisterInv'
  BY <1>1, <1>3, <1>4 DEF RegisterInv, CursorPosition, Goto, At, rest_unchanged, screen, Position, Putting, Scrolling, Updating
<1>8. ASSUME ~ disturbed PROVE Finished' = Finished
  BY <1>1, <1>4, <1>8 DEF Finished, FinishedFrom, CursorPosition, Goto, At, rest_unchanged, screen, At
<1>9. PaperInv'
  <2>1. paper' = paper /\ disturbed' = disturbed /\ pc # "rest"
        /\ (pc' = "rest" => ~ disturbed)
    BY <1>1, <1>2, <1>3, <1>4 DEF CursorPosition, Goto, At, rest_unchanged, screen, Position, At
  <2> QED
    BY <1>1, <1>8, <2>1 DEF PaperInv
<1> QED
  BY <1>5, <1>6, <1>7, <1>9 DEF IInv

LEMMA PutEntryType ==
  ASSUME NEW b \in Buffers, NEW c \in Chars, NEW x, NEW y
  PROVE  terminal_putentryat(b, c, x, y) \in Buffers
BY DEF terminal_putentryat, Buffers


LEMMA CarriageReturnKeeps == IInv /\ CarriageReturn => IInv'
<1> SUFFICES ASSUME IInv, CarriageReturn PROVE IInv'
  OBVIOUS
<1>1. PositionInv /\ CursorInv /\ RegisterInv /\ PaperInv
  BY DEF IInv
<1>2. VGA_WIDTH \in Nat /\ VGA_WIDTH > 0 /\ VGA_HEIGHT \in Nat /\ VGA_HEIGHT > 0
  BY Dimensions
<1>3. term \in Screens /\ term.row \in Nat /\ term.column \in Nat /\ term.buffer \in Buffers
      /\ ch \in Chars /\ left \in 0..3
  BY <1>1, ScreenFacts DEF PositionInv
<1> DEFINE a == 0
<1>a. a \in Nat
  BY <1>1, <1>2, <1>3 DEF PositionInv, CursorInv, CarriageReturn, Goto, At, rest_unchanged, screen, Putting, Scrolling, Updating
<1>t. term' = [term EXCEPT !.column = a]
  BY DEF CarriageReturn, Goto, At, rest_unchanged, screen, At
<1> HIDE DEF a
<1>4. term' \in Screens /\ term'.row = term.row /\ term'.column = a
      /\ term'.buffer = term.buffer
      /\ term' = [row |-> term.row, column |-> a, buffer |-> term.buffer]
  <2>1. term' = [row |-> term.row, column |-> a, buffer |-> term.buffer]
    BY <1>3, <1>t, ScreenUpdates
  <2> QED
    BY <1>3, <1>a, <2>1 DEF Screens
<1>5. PositionInv'
  BY <1>1, <1>2, <1>3, <1>4 DEF PositionInv, CarriageReturn, Goto, At, rest_unchanged, screen, Putting, Scrolling, Updating
<1>6. CursorInv'
  BY <1>1, <1>3, <1>4 DEF CursorInv, CarriageReturn, Goto, At, rest_unchanged, screen, Updating
<1>7. RegisterInv'
  BY <1>1, <1>3, <1>4 DEF RegisterInv, CarriageReturn, Goto, At, rest_unchanged, screen, Putting, Scrolling, Updating
<1>8. ASSUME ~ disturbed PROVE Finished' = Finished
  BY <1>t, <1>8 DEF Finished, FinishedFrom, a, CarriageReturn, Goto, At
<1>9. PaperInv'
  <2>1. paper' = paper /\ disturbed' = disturbed /\ pc # "rest"
        /\ (pc' = "rest" => ~ disturbed)
    BY <1>1, <1>2, <1>3, <1>4 DEF CarriageReturn, Goto, At, rest_unchanged, screen, At
  <2> QED
    BY <1>1, <1>8, <2>1 DEF PaperInv
<1> QED
  BY <1>5, <1>6, <1>7, <1>9 DEF IInv

LEMMA PutEntryKeeps == IInv /\ PutEntry => IInv'
<1> SUFFICES ASSUME IInv, PutEntry PROVE IInv'
  OBVIOUS
<1>1. PositionInv /\ CursorInv /\ RegisterInv /\ PaperInv
  BY DEF IInv
<1>2. VGA_WIDTH \in Nat /\ VGA_WIDTH > 0 /\ VGA_HEIGHT \in Nat /\ VGA_HEIGHT > 0
  BY Dimensions
<1>3. term \in Screens /\ term.row \in Nat /\ term.column \in Nat /\ term.buffer \in Buffers
      /\ ch \in Chars /\ left \in 0..3
  BY <1>1, ScreenFacts DEF PositionInv
<1> DEFINE a == terminal_putentryat(term.buffer, ch, reg_column, reg_row)
<1>a. a \in Buffers
  BY <1>3, PutEntryType DEF PositionInv, CursorInv, PutEntry, Goto, At, rest_unchanged, screen, Putting, Scrolling, Updating
<1>t. term' = [term EXCEPT !.buffer = a]
  BY DEF PutEntry, Goto, At, rest_unchanged, screen, At
<1> HIDE DEF a
<1>4. term' \in Screens /\ term'.row = term.row /\ term'.column = term.column
      /\ term'.buffer = a
      /\ term' = [row |-> term.row, column |-> term.column, buffer |-> a]
  <2>1. term' = [row |-> term.row, column |-> term.column, buffer |-> a]
    BY <1>3, <1>t, ScreenUpdates
  <2> QED
    BY <1>3, <1>a, <2>1 DEF Screens
<1>5. PositionInv'
  BY <1>1, <1>2, <1>3, <1>4 DEF PositionInv, PutEntry, Goto, At, rest_unchanged, screen, Putting, Scrolling, Updating
<1>6. CursorInv'
  BY <1>1, <1>3, <1>4 DEF CursorInv, PutEntry, Goto, At, rest_unchanged, screen, Updating
<1>7. RegisterInv'
  BY <1>1, <1>3, <1>4 DEF RegisterInv, PutEntry, Goto, At, rest_unchanged, screen, Putting, Scrolling, Updating
<1>8. ASSUME ~ disturbed PROVE Finished' = Finished
  <2>1. pc = "entry" /\ pc' = "store_column" /\ ch' = ch /\ left' = left /\ left \in 1..3
        /\ reg_row = term.row /\ reg_column = term.column
    BY <1>1, <1>3, <1>8 DEF PutEntry, Goto, At, PositionInv, RegisterInv, Putting
  <2>2. term' = [term EXCEPT !.buffer = terminal_putentryat(term.buffer, ch, term.column, term.row)]
    BY <1>t, <2>1 DEF a
  <2>3. FinishedFrom("store_column", term', ch, left) = FinishedFrom("entry", term, ch, left)
    BY <1>3, <1>4, <2>1, <2>2, FinishedEntry
  <2> QED
    BY <2>1, <2>3 DEF Finished
<1>9. PaperInv'
  <2>1. paper' = paper /\ disturbed' = disturbed /\ pc # "rest"
        /\ (pc' = "rest" => ~ disturbed)
    BY <1>1, <1>2, <1>3, <1>4 DEF PutEntry, Goto, At, rest_unchanged, screen, At
  <2> QED
    BY <1>1, <1>8, <2>1 DEF PaperInv
<1> QED
  BY <1>5, <1>6, <1>7, <1>9 DEF IInv

LEMMA StoreColumnKeeps == IInv /\ StoreColumn => IInv'
<1> SUFFICES ASSUME IInv, StoreColumn PROVE IInv'
  OBVIOUS
<1>1. PositionInv /\ CursorInv /\ RegisterInv /\ PaperInv
  BY DEF IInv
<1>2. VGA_WIDTH \in Nat /\ VGA_WIDTH > 0 /\ VGA_HEIGHT \in Nat /\ VGA_HEIGHT > 0
  BY Dimensions
<1>3. term \in Screens /\ term.row \in Nat /\ term.column \in Nat /\ term.buffer \in Buffers
      /\ ch \in Chars /\ left \in 0..3
  BY <1>1, ScreenFacts DEF PositionInv
<1> DEFINE a == reg_column + 1
<1>a. a \in Nat /\ reg_column \in 0..VGA_WIDTH - 1 /\ a = reg_column + 1
  BY <1>1, <1>2, <1>3 DEF PositionInv, CursorInv, StoreColumn, Goto, At, rest_unchanged, screen, PutDone, Putting, Scrolling, Updating
<1>t. term' = [term EXCEPT !.column = a]
  BY DEF StoreColumn, Goto, At, rest_unchanged, screen, PutDone, At
<1> HIDE DEF a
<1>4. term' \in Screens /\ term'.row = term.row /\ term'.column = a
      /\ term'.buffer = term.buffer
      /\ term' = [row |-> term.row, column |-> a, buffer |-> term.buffer]
  <2>1. term' = [row |-> term.row, column |-> a, buffer |-> term.buffer]
    BY <1>3, <1>t, ScreenUpdates
  <2> QED
    BY <1>3, <1>a, <2>1 DEF Screens
<1>5. PositionInv'
  BY <1>1, <1>2, <1>3, <1>4 DEF PositionInv, StoreColumn, Goto, At, rest_unchanged, screen, PutDone, Putting, Scrolling, Updating
<1>6. CursorInv'
  BY <1>1, <1>3, <1>4 DEF CursorInv, StoreColumn, Goto, At, rest_unchanged, screen, PutDone, Updating
<1>7. RegisterInv'
  BY <1>1, <1>3, <1>4 DEF RegisterInv, StoreColumn, Goto, At, rest_unchanged, screen, PutDone, Putting, Scrolling, Updating
<1>8. ASSUME ~ disturbed PROVE Finished' = Finished
  <2>1. pc = "store_column" /\ ch' = ch /\ left \in 1..3 /\ reg_column = term.column
    BY <1>1, <1>3, <1>8 DEF StoreColumn, Goto, PutDone, At, PositionInv, RegisterInv, Putting
  <2>2. Finished = Others(Stored(term), ch, left)
    BY <1>3, <2>1, FinishedStore DEF Finished
  <2>3. term' = [row |-> term.row, column |-> term.column + 1, buffer |-> term.buffer]
    BY <1>4, <2>1 DEF a
  <2>4. CASE reg_column + 1 = VGA_WIDTH
    <3>1. pc' = "scroll" /\ left' = left
      BY <2>4 DEF StoreColumn, Goto
    <3>2. Stored(term) = scroll_up(term')
      BY <2>1, <2>3, <2>4 DEF Stored
    <3> QED
      BY <2>1, <2>2, <3>1, <3>2 DEF Finished, FinishedFrom
  <2>5. CASE reg_column + 1 # VGA_WIDTH
    <3>1. /\ left' = IF left = 0 THEN 0 ELSE left - 1
          /\ pc' = IF left' = 0 THEN "cursor" ELSE "put"
      BY <2>5 DEF StoreColumn, PutDone
    <3>2. Stored(term) = term'
      BY <2>1, <2>3, <2>5 DEF Stored
    <3>3. FinishedFrom(pc', term', ch, left') = Others(term', ch, left)
      BY <1>3, <3>1, FinishedDone
    <3> QED
      BY <2>1, <2>2, <3>2, <3>3 DEF Finished
  <2> QED
    BY <2>4, <2>5
<1>9. PaperInv'
  <2>1. paper' = paper /\ disturbed' = disturbed /\ pc # "rest"
        /\ (pc' = "rest" => ~ disturbed)
    BY <1>1, <1>2, <1>3, <1>4 DEF StoreColumn, Goto, At, rest_unchanged, screen, PutDone, At
  <2> QED
    BY <1>1, <1>8, <2>1 DEF PaperInv
<1> QED
  BY <1>5, <1>6, <1>7, <1>9 DEF IInv

LEMMA ScrollColumnKeeps == IInv /\ ScrollColumn => IInv'
<1> SUFFICES ASSUME IInv, ScrollColumn PROVE IInv'
  OBVIOUS
<1>1. PositionInv /\ CursorInv /\ RegisterInv /\ PaperInv
  BY DEF IInv
<1>2. VGA_WIDTH \in Nat /\ VGA_WIDTH > 0 /\ VGA_HEIGHT \in Nat /\ VGA_HEIGHT > 0
  BY Dimensions
<1>3. term \in Screens /\ term.row \in Nat /\ term.column \in Nat /\ term.buffer \in Buffers
      /\ ch \in Chars /\ left \in 0..3
  BY <1>1, ScreenFacts DEF PositionInv
<1> DEFINE a == 0
<1>a. a \in Nat /\ a = 0
  BY <1>1, <1>2, <1>3 DEF PositionInv, CursorInv, ScrollColumn, Goto, At, rest_unchanged, screen, Putting, Scrolling, Updating
<1>t. term' = [term EXCEPT !.column = a]
  BY DEF ScrollColumn, Goto, At, rest_unchanged, screen, At
<1> HIDE DEF a
<1>4. term' \in Screens /\ term'.row = term.row /\ term'.column = a
      /\ term'.buffer = term.buffer
      /\ term' = [row |-> term.row, column |-> a, buffer |-> term.buffer]
  <2>1. term' = [row |-> term.row, column |-> a, buffer |-> term.buffer]
    BY <1>3, <1>t, ScreenUpdates
  <2> QED
    BY <1>3, <1>a, <2>1 DEF Screens
<1>5. PositionInv'
  BY <1>1, <1>2, <1>3, <1>4 DEF PositionInv, ScrollColumn, Goto, At, rest_unchanged, screen, Putting, Scrolling, Updating
<1>6. CursorInv'
  BY <1>1, <1>3, <1>4 DEF CursorInv, ScrollColumn, Goto, At, rest_unchanged, screen, Updating
<1>7. RegisterInv'
  BY <1>1, <1>3, <1>4 DEF RegisterInv, ScrollColumn, Goto, At, rest_unchanged, screen, Putting, Scrolling, Updating
<1>8. ASSUME ~ disturbed PROVE Finished' = Finished
  <2>1. pc = "scroll_column" /\ pc' = "scroll_row" /\ ch' = ch /\ left' = left
    BY DEF ScrollColumn, Goto, At
  <2>2. scroll_up(term') = scroll_up(term)
    BY <1>3, <1>t, FinishedScrolls DEF a
  <2> QED
    BY <2>1, <2>2 DEF Finished, FinishedFrom
<1>9. PaperInv'
  <2>1. paper' = paper /\ disturbed' = disturbed /\ pc # "rest"
        /\ (pc' = "rest" => ~ disturbed)
    BY <1>1, <1>2, <1>3, <1>4 DEF ScrollColumn, Goto, At, rest_unchanged, screen, At
  <2> QED
    BY <1>1, <1>8, <2>1 DEF PaperInv
<1> QED
  BY <1>5, <1>6, <1>7, <1>9 DEF IInv

LEMMA ScrollStoreRowKeeps == IInv /\ ScrollStoreRow => IInv'
<1> SUFFICES ASSUME IInv, ScrollStoreRow PROVE IInv'
  OBVIOUS
<1>1. PositionInv /\ CursorInv /\ RegisterInv /\ PaperInv
  BY DEF IInv
<1>2. VGA_WIDTH \in Nat /\ VGA_WIDTH > 0 /\ VGA_HEIGHT \in Nat /\ VGA_HEIGHT > 0
  BY Dimensions
<1>3. term \in Screens /\ term.row \in Nat /\ term.column \in Nat /\ term.buffer \in Buffers
      /\ ch \in Chars /\ left \in 0..3
  BY <1>1, ScreenFacts DEF PositionInv
<1> DEFINE a == reg_row + 1
<1>a. a \in Nat /\ reg_row \in 0..VGA_HEIGHT - 1 /\ a = reg_row + 1
  BY <1>1, <1>2, <1>3 DEF PositionInv, CursorInv, ScrollStoreRow, Goto, At, rest_unchanged, screen, PutDone, Putting, Scrolling, Updating
<1>t. term' = [term EXCEPT !.row = a]
  BY DEF ScrollStoreRow, Goto, At, rest_unchanged, screen, PutDone, At
<1> HIDE DEF a
<1>4. term' \in Screens /\ term'.row = a /\ term'.column = term.column
      /\ term'.buffer = term.buffer
      /\ term' = [row |-> a, column |-> term.column, buffer |-> term.buffer]
  <2>1. term' = [row |-> a, column |-> term.column, buffer |-> term.buffer]
    BY <1>3, <1>t, ScreenUpdates
  <2> QED
    BY <1>3, <1>a, <2>1 DEF Screens
<1>5. PositionInv'
  BY <1>1, <1>2, <1>3, <1>4 DEF PositionInv, ScrollStoreRow, Goto, At, rest_unchanged, screen, PutDone, Putting, Scrolling, Updating
<1>6. CursorInv'
  BY <1>1, <1>3, <1>4 DEF CursorInv, ScrollStoreRow, Goto, At, rest_unchanged, screen, PutDone, Updating
<1>7. RegisterInv'
  BY <1>1, <1>3, <1>4 DEF RegisterInv, ScrollStoreRow, Goto, At, rest_unchanged, screen, PutDone, Putting, Scrolling, Updating
<1>8. ASSUME ~ disturbed PROVE Finished' = Finished
  <2>1. pc = "scroll_row" /\ ch' = ch /\ reg_row = term.row /\ term.column = 0
    BY <1>1, <1>3, <1>8 DEF ScrollStoreRow, Goto, PutDone, At, PositionInv, RegisterInv
  <2>2. Finished = Others(scroll_up(term), ch, left)
    BY <2>1 DEF Finished, FinishedFrom
  <2>3. term' = [term EXCEPT !.row = term.row + 1]
    BY <1>t, <2>1 DEF a
  <2>f. IF term.row + 1 = VGA_HEIGHT
          THEN scroll_up(term) = [row |-> VGA_HEIGHT - 1, column |-> term'.column,
                                  buffer |-> Scrolled(term'.buffer)]
          ELSE scroll_up(term) = term'
    BY <1>3, <2>1, <2>3, FinishedRow
  <2>4. CASE reg_row + 1 = VGA_HEIGHT
    <3>1. pc' = "move" /\ left' = left
      BY <2>4 DEF ScrollStoreRow, Goto
    <3>2. FinishedFrom("move", term', ch, left) = Others(scroll_up(term), ch, left)
      BY <2>1, <2>4, <2>f, FinishedMove
    <3> QED
      BY <2>1, <2>2, <3>1, <3>2 DEF Finished
  <2>5. CASE reg_row + 1 # VGA_HEIGHT
    <3>1. /\ left' = IF left = 0 THEN 0 ELSE left - 1
          /\ pc' = IF left' = 0 THEN "cursor" ELSE "put"
      BY <2>5 DEF ScrollStoreRow, PutDone
    <3>2. scroll_up(term) = term'
      BY <2>1, <2>5, <2>f
    <3>3. FinishedFrom(pc', term', ch, left') = Others(term', ch, left)
      BY <1>3, <3>1, FinishedDone
    <3> QED
      BY <2>1, <2>2, <3>2, <3>3 DEF Finished
  <2> QED
    BY <2>4, <2>5
<1>9. PaperInv'
  <2>1. paper' = paper /\ disturbed' = disturbed /\ pc # "rest"
        /\ (pc' = "rest" => ~ disturbed)
    BY <1>1, <1>2, <1>3, <1>4 DEF ScrollStoreRow, Goto, At, rest_unchanged, screen, PutDone, At
  <2> QED
    BY <1>1, <1>8, <2>1 DEF PaperInv
<1> QED
  BY <1>5, <1>6, <1>7, <1>9 DEF IInv

LEMMA MoveRowsKeeps == IInv /\ MoveRows => IInv'
<1> SUFFICES ASSUME IInv, MoveRows PROVE IInv'
  OBVIOUS
<1>1. PositionInv /\ CursorInv /\ RegisterInv /\ PaperInv
  BY DEF IInv
<1>2. VGA_WIDTH \in Nat /\ VGA_WIDTH > 0 /\ VGA_HEIGHT \in Nat /\ VGA_HEIGHT > 0
  BY Dimensions
<1>3. term \in Screens /\ term.row \in Nat /\ term.column \in Nat /\ term.buffer \in Buffers
      /\ ch \in Chars /\ left \in 0..3
  BY <1>1, ScreenFacts DEF PositionInv
<1> DEFINE a == Scrolled(term.buffer)
<1>a. a \in Buffers
  BY <1>3, ScrolledType DEF PositionInv, CursorInv, MoveRows, Goto, At, rest_unchanged, screen, Putting, Scrolling, Updating
<1>t. term' = [term EXCEPT !.buffer = a]
  BY DEF MoveRows, Goto, At, rest_unchanged, screen, At
<1> HIDE DEF a
<1>4. term' \in Screens /\ term'.row = term.row /\ term'.column = term.column
      /\ term'.buffer = a
      /\ term' = [row |-> term.row, column |-> term.column, buffer |-> a]
  <2>1. term' = [row |-> term.row, column |-> term.column, buffer |-> a]
    BY <1>3, <1>t, ScreenUpdates
  <2> QED
    BY <1>3, <1>a, <2>1 DEF Screens
<1>5. PositionInv'
  BY <1>1, <1>2, <1>3, <1>4 DEF PositionInv, MoveRows, Goto, At, rest_unchanged, screen, Putting, Scrolling, Updating
<1>6. CursorInv'
  BY <1>1, <1>3, <1>4 DEF CursorInv, MoveRows, Goto, At, rest_unchanged, screen, Updating
<1>7. RegisterInv'
  BY <1>1, <1>3, <1>4 DEF RegisterInv, MoveRows, Goto, At, rest_unchanged, screen, Putting, Scrolling, Updating
<1>8. ASSUME ~ disturbed PROVE Finished' = Finished
  <2>1. pc = "move" /\ pc' = "last_row" /\ ch' = ch /\ left' = left
    BY DEF MoveRows, Goto, At
  <2>2. [term' EXCEPT !.row = VGA_HEIGHT - 1] =
          [row |-> VGA_HEIGHT - 1, column |-> term.column, buffer |-> Scrolled(term.buffer)]
    <3>1. [term' EXCEPT !.row = VGA_HEIGHT - 1] =
            [row |-> VGA_HEIGHT - 1, column |-> term'.column, buffer |-> term'.buffer]
      BY <1>4, ScreenUpdates
    <3> QED
      BY <1>4, <3>1 DEF a
  <2>3. Finished = Others([row |-> VGA_HEIGHT - 1, column |-> term.column,
                           buffer |-> Scrolled(term.buffer)], ch, left)
    BY <2>1, FinishedMove DEF Finished
  <2>4. Finished' = Others([term' EXCEPT !.row = VGA_HEIGHT - 1], ch, left)
    BY <2>1 DEF Finished, FinishedFrom
  <2> QED
    BY <2>2, <2>3, <2>4
<1>9. PaperInv'
  <2>1. paper' = paper /\ disturbed' = disturbed /\ pc # "rest"
        /\ (pc' = "rest" => ~ disturbed)
    BY <1>1, <1>2, <1>3, <1>4 DEF MoveRows, Goto, At, rest_unchanged, screen, At
  <2> QED
    BY <1>1, <1>8, <2>1 DEF PaperInv
<1> QED
  BY <1>5, <1>6, <1>7, <1>9 DEF IInv

LEMMA LastRowKeeps == IInv /\ LastRow => IInv'
<1> SUFFICES ASSUME IInv, LastRow PROVE IInv'
  OBVIOUS
<1>1. PositionInv /\ CursorInv /\ RegisterInv /\ PaperInv
  BY DEF IInv
<1>2. VGA_WIDTH \in Nat /\ VGA_WIDTH > 0 /\ VGA_HEIGHT \in Nat /\ VGA_HEIGHT > 0
  BY Dimensions
<1>3. term \in Screens /\ term.row \in Nat /\ term.column \in Nat /\ term.buffer \in Buffers
      /\ ch \in Chars /\ left \in 0..3
  BY <1>1, ScreenFacts DEF PositionInv
<1> DEFINE a == VGA_HEIGHT - 1
<1>a. a \in Nat /\ a = VGA_HEIGHT - 1
  BY <1>1, <1>2, <1>3 DEF PositionInv, CursorInv, LastRow, Goto, At, rest_unchanged, screen, PutDone, Putting, Scrolling, Updating
<1>t. term' = [term EXCEPT !.row = a]
  BY DEF LastRow, Goto, At, rest_unchanged, screen, PutDone, At
<1> HIDE DEF a
<1>4. term' \in Screens /\ term'.row = a /\ term'.column = term.column
      /\ term'.buffer = term.buffer
      /\ term' = [row |-> a, column |-> term.column, buffer |-> term.buffer]
  <2>1. term' = [row |-> a, column |-> term.column, buffer |-> term.buffer]
    BY <1>3, <1>t, ScreenUpdates
  <2> QED
    BY <1>3, <1>a, <2>1 DEF Screens
<1>5. PositionInv'
  BY <1>1, <1>2, <1>3, <1>4 DEF PositionInv, LastRow, Goto, At, rest_unchanged, screen, PutDone, Putting, Scrolling, Updating
<1>6. CursorInv'
  BY <1>1, <1>3, <1>4 DEF CursorInv, LastRow, Goto, At, rest_unchanged, screen, PutDone, Updating
<1>7. RegisterInv'
  BY <1>1, <1>3, <1>4 DEF RegisterInv, LastRow, Goto, At, rest_unchanged, screen, PutDone, Putting, Scrolling, Updating
<1>8. ASSUME ~ disturbed PROVE Finished' = Finished
  <2>1. pc = "last_row" /\ ch' = ch
        /\ left' = (IF left = 0 THEN 0 ELSE left - 1)
        /\ pc' = (IF left' = 0 THEN "cursor" ELSE "put")
    BY DEF LastRow, PutDone, At
  <2>2. Finished = Others(term', ch, left)
    BY <1>t, <2>1 DEF Finished, FinishedFrom, a
  <2>3. FinishedFrom(pc', term', ch, left') = Others(term', ch, left)
    BY <1>3, <2>1, FinishedDone
  <2> QED
    BY <2>1, <2>2, <2>3 DEF Finished
<1>9. PaperInv'
  <2>1. paper' = paper /\ disturbed' = disturbed /\ pc # "rest"
        /\ (pc' = "rest" => ~ disturbed)
    BY <1>1, <1>2, <1>3, <1>4 DEF LastRow, Goto, At, rest_unchanged, screen, PutDone, At
  <2> QED
    BY <1>1, <1>8, <2>1 DEF PaperInv
<1> QED
  BY <1>5, <1>6, <1>7, <1>9 DEF IInv

LEMMA CursorIndexLowKeeps == IInv /\ CursorIndexLow => IInv'
<1> SUFFICES ASSUME IInv, CursorIndexLow PROVE IInv'
  OBVIOUS
<1>1. PositionInv /\ CursorInv /\ RegisterInv /\ PaperInv
  BY DEF IInv
<1>2. VGA_WIDTH \in Nat /\ VGA_WIDTH > 0 /\ VGA_HEIGHT \in Nat /\ VGA_HEIGHT > 0
  BY Dimensions
<1>3. term \in Screens /\ term.row \in Nat /\ term.column \in Nat /\ term.buffer \in Buffers
      /\ ch \in Chars /\ left \in 0..3
  BY <1>1, ScreenFacts DEF PositionInv
<1>4. term' = term
  BY DEF CursorIndexLow, Goto, At, rest_unchanged, screen, CursorIndex, screen
<1>5. PositionInv'
  BY <1>1, <1>2, <1>3, <1>4 DEF PositionInv, CursorIndexLow, Goto, At, rest_unchanged, screen, CursorIndex, Putting, Scrolling, Updating
<1>6. CursorInv'
  BY <1>1, <1>3, <1>4 DEF CursorInv, CursorIndexLow, Goto, At, rest_unchanged, screen, CursorIndex, Updating
<1>7. RegisterInv'
  BY <1>1, <1>3, <1>4 DEF RegisterInv, CursorIndexLow, Goto, At, rest_unchanged, screen, CursorIndex, Putting, Scrolling, Updating
<1>8. ASSUME ~ disturbed PROVE Finished' = Finished
  BY <1>1, <1>4, <1>8 DEF Finished, FinishedFrom, CursorIndexLow, Goto, At, rest_unchanged, screen, CursorIndex, At
<1>9. PaperInv'
  <2>1. paper' = paper /\ disturbed' = disturbed /\ pc # "rest"
        /\ (pc' = "rest" => ~ disturbed)
    BY <1>1, <1>2, <1>3, <1>4 DEF CursorIndexLow, Goto, At, rest_unchanged, screen, CursorIndex, At
  <2> QED
    BY <1>1, <1>8, <2>1 DEF PaperInv
<1> QED
  BY <1>5, <1>6, <1>7, <1>9 DEF IInv

LEMMA CursorIndexHighKeeps == IInv /\ CursorIndexHigh => IInv'
<1> SUFFICES ASSUME IInv, CursorIndexHigh PROVE IInv'
  OBVIOUS
<1>1. PositionInv /\ CursorInv /\ RegisterInv /\ PaperInv
  BY DEF IInv
<1>2. VGA_WIDTH \in Nat /\ VGA_WIDTH > 0 /\ VGA_HEIGHT \in Nat /\ VGA_HEIGHT > 0
  BY Dimensions
<1>3. term \in Screens /\ term.row \in Nat /\ term.column \in Nat /\ term.buffer \in Buffers
      /\ ch \in Chars /\ left \in 0..3
  BY <1>1, ScreenFacts DEF PositionInv
<1>4. term' = term
  BY DEF CursorIndexHigh, Goto, At, rest_unchanged, screen, CursorIndex, screen
<1>5. PositionInv'
  BY <1>1, <1>2, <1>3, <1>4 DEF PositionInv, CursorIndexHigh, Goto, At, rest_unchanged, screen, CursorIndex, Putting, Scrolling, Updating
<1>6. CursorInv'
  BY <1>1, <1>3, <1>4 DEF CursorInv, CursorIndexHigh, Goto, At, rest_unchanged, screen, CursorIndex, Updating
<1>7. RegisterInv'
  BY <1>1, <1>3, <1>4 DEF RegisterInv, CursorIndexHigh, Goto, At, rest_unchanged, screen, CursorIndex, Putting, Scrolling, Updating
<1>8. ASSUME ~ disturbed PROVE Finished' = Finished
  BY <1>1, <1>4, <1>8 DEF Finished, FinishedFrom, CursorIndexHigh, Goto, At, rest_unchanged, screen, CursorIndex, At
<1>9. PaperInv'
  <2>1. paper' = paper /\ disturbed' = disturbed /\ pc # "rest"
        /\ (pc' = "rest" => ~ disturbed)
    BY <1>1, <1>2, <1>3, <1>4 DEF CursorIndexHigh, Goto, At, rest_unchanged, screen, CursorIndex, At
  <2> QED
    BY <1>1, <1>8, <2>1 DEF PaperInv
<1> QED
  BY <1>5, <1>6, <1>7, <1>9 DEF IInv

LEMMA VgaWrite ==
  ASSUME NEW v \in [index : {"low", "high"}, low : Int, high : Int], NEW r \in Int
  PROVE  LET w == [v EXCEPT ![v.index] = r]
         IN  /\ w \in [index : {"low", "high"}, low : Int, high : Int]
             /\ w.index = v.index
             /\ v.index = "low" => w.low = r /\ w.high = v.high
             /\ v.index = "high" => w.high = r /\ w.low = v.low
<1>1. CASE v.index = "low"
  <2>1. [v EXCEPT ![v.index] = r] = [index |-> "low", low |-> r, high |-> v.high]
    <3>1. [v EXCEPT ![v.index] = r] = [v EXCEPT !["low"] = r]
      BY <1>1, Zenon
    <3>2. [v EXCEPT !["low"] = r] = [index |-> v.index, low |-> r, high |-> v.high]
      <4>1. [v EXCEPT !["low"] = r] = [v EXCEPT !.low = r]
        BY Zenon
      <4>2. [v EXCEPT !.low = r] = [index |-> v.index, low |-> r, high |-> v.high]
        OBVIOUS
      <4> QED
        BY <4>1, <4>2, Zenon
    <3> QED
      BY <1>1, <3>1, <3>2
  <2> QED
    BY <1>1, <2>1
<1>2. CASE v.index = "high"
  <2>1. [v EXCEPT ![v.index] = r] = [index |-> "high", low |-> v.low, high |-> r]
    <3>1. [v EXCEPT ![v.index] = r] = [v EXCEPT !["high"] = r]
      BY <1>2, Zenon
    <3>2. [v EXCEPT !["high"] = r] = [index |-> v.index, low |-> v.low, high |-> r]
      <4>1. [v EXCEPT !["high"] = r] = [v EXCEPT !.high = r]
        BY Zenon
      <4>2. [v EXCEPT !.high = r] = [index |-> v.index, low |-> v.low, high |-> r]
        OBVIOUS
      <4> QED
        BY <4>1, <4>2, Zenon
    <3> QED
      BY <1>2, <3>1, <3>2
  <2> QED
    BY <1>2, <2>1
<1> QED
  BY <1>1, <1>2

LEMMA Bytes ==
  ASSUME NEW k \in Int
  PROVE  k % ByteSize \in Int /\ (k \div ByteSize) % ByteSize \in Int
<1>1. ByteSize \in Nat /\ ByteSize > 0
  BY Dimensions
<1>2. k % ByteSize \in Int /\ k \div ByteSize \in Int
  BY <1>1
<1> DEFINE q == k \div ByteSize
<1>3. q \in Int
  BY <1>2
<1> HIDE DEF q
<1>4. q % ByteSize \in Int
  BY <1>1, <1>3
<1> QED
  BY <1>2, <1>4 DEF q

LEMMA CursorLowKeeps == IInv /\ CursorLow => IInv'
<1> SUFFICES ASSUME IInv, CursorLow PROVE IInv'
  OBVIOUS
<1>1. PositionInv /\ CursorInv /\ RegisterInv /\ PaperInv
  BY DEF IInv
<1>2. VGA_WIDTH \in Nat /\ VGA_WIDTH > 0 /\ VGA_HEIGHT \in Nat /\ VGA_HEIGHT > 0
  BY Dimensions
<1>3. term \in Screens /\ term.row \in Nat /\ term.column \in Nat /\ term.buffer \in Buffers
      /\ ch \in Chars /\ left \in 0..3
  BY <1>1, ScreenFacts DEF PositionInv
<1>4. term' = term
  BY DEF CursorLow, Goto, At, rest_unchanged, screen, screen
<1>5. PositionInv'
  BY <1>1, <1>2, <1>3, <1>4 DEF PositionInv, CursorLow, Goto, At, rest_unchanged, screen, Putting, Scrolling, Updating
<1>6. CursorInv'
  <2> DEFINE r == reg_pos % ByteSize
  <2>1. pc = "low" /\ pc' = "index_high" /\ vga' = [vga EXCEPT ![vga.index] = r]
        /\ disturbed' = disturbed /\ reg_pos' = reg_pos
    BY DEF CursorLow, Goto, At, rest_unchanged
  <2>2. r \in Int /\ vga \in [index : {"low", "high"}, low : Int, high : Int]
        /\ reg_pos \in Int /\ disturbed \in BOOLEAN
    BY <1>1, Bytes DEF CursorInv
  <2>3. ~ disturbed => vga.index = "low" /\ reg_pos = Position(term)
    BY <1>1, <2>1 DEF CursorInv, Updating
  <2>4. r = reg_pos % ByteSize
    OBVIOUS
  <2> HIDE DEF r
  <2>5. /\ vga' \in [index : {"low", "high"}, low : Int, high : Int]
        /\ vga.index = "low" => vga'.low = r
    BY <2>1, <2>2, VgaWrite
  <2> DEFINE k == Position(term)
  <2>6. Position(term)' = k
    BY <1>4 DEF Position
  <2> HIDE DEF k
  <2>7. ~ disturbed => vga'.low = k % ByteSize /\ reg_pos' = k
    BY <2>1, <2>3, <2>4, <2>5 DEF k
  <2> QED
    BY ONLY <2>1, <2>2, <2>5, <2>6, <2>7 DEF CursorInv, Updating
<1>7. RegisterInv'
  BY <1>1, <1>3, <1>4 DEF RegisterInv, CursorLow, Goto, At, rest_unchanged, screen, Putting, Scrolling, Updating
<1>8. ASSUME ~ disturbed PROVE Finished' = Finished
  BY <1>1, <1>4, <1>8 DEF Finished, FinishedFrom, CursorLow, Goto, At, rest_unchanged, screen, At
<1>9. PaperInv'
  <2>1. paper' = paper /\ disturbed' = disturbed /\ pc # "rest"
        /\ (pc' = "rest" => ~ disturbed)
    BY <1>1, <1>2, <1>3, <1>4 DEF CursorLow, Goto, At, rest_unchanged, screen, At
  <2> QED
    BY <1>1, <1>8, <2>1 DEF PaperInv
<1> QED
  BY <1>5, <1>6, <1>7, <1>9 DEF IInv

\* The end of putchar(): a disturbed one starts a sheet of its own.
LEMMA CursorHighKeeps == IInv /\ CursorHigh => IInv'
<1> SUFFICES ASSUME IInv, CursorHigh PROVE IInv'
  OBVIOUS
<1>1. PositionInv /\ CursorInv /\ RegisterInv /\ PaperInv
  BY DEF IInv
<1>2. /\ pc = "high" /\ pc' = "rest" /\ ch' = ch /\ left' = left /\ term' = term
      /\ reg_row' = reg_row /\ reg_column' = reg_column /\ reg_pos' = reg_pos
      /\ disturbed' = disturbed
  BY DEF CursorHigh, Goto, At
<1>3. PositionInv'
  BY <1>1, <1>2 DEF PositionInv, Putting, Scrolling, Updating
<1>4. CursorInv'
  <2> DEFINE r == (reg_pos \div ByteSize) % ByteSize
             k == Position(term)
  <2>1. vga' = [vga EXCEPT ![vga.index] = r]
    BY DEF CursorHigh
  <2>2. r \in Int /\ vga \in [index : {"low", "high"}, low : Int, high : Int]
        /\ reg_pos \in Int /\ disturbed \in BOOLEAN
    BY <1>1, Bytes DEF CursorInv
  <2>3. ~ disturbed => vga.index = "high" /\ reg_pos = k /\ vga.low = k % ByteSize
    BY <1>1, <1>2 DEF CursorInv, Updating
  <2>4. r = (reg_pos \div ByteSize) % ByteSize
    OBVIOUS
  <2> HIDE DEF r
  <2>5. /\ vga' \in [index : {"low", "high"}, low : Int, high : Int]
        /\ vga.index = "high" => vga'.high = r /\ vga'.low = vga.low
    BY <2>1, <2>2, VgaWrite
  <2>6. Position(term)' = k
    BY <1>2 DEF Position
  <2> HIDE DEF k
  <2>7. ~ disturbed => vga'.low = k % ByteSize /\ vga'.high = (k \div ByteSize) % ByteSize
    BY <2>3, <2>4, <2>5
  <2> QED
    BY ONLY <1>2, <2>2, <2>5, <2>6, <2>7 DEF CursorInv, Updating
<1>5. RegisterInv'
  BY <1>1, <1>2 DEF RegisterInv
<1>6. Finished' = term /\ Finished = term
  BY <1>2 DEF Finished, FinishedFrom
<1>7. CASE disturbed
  <2>1. term \in Screens /\ OnScreen(term)
    BY <1>1, <1>2 DEF PositionInv, OnScreen
  <2>2. paper' = [rows |-> Rows(term.buffer), row |-> term.row + 1, column |-> term.column + 1]
    BY <1>7 DEF CursorHigh
  <2>3. IsPaper(paper') /\ Matches(term, paper')
    BY <2>1, <2>2, OwnPaper
  <2> QED
    BY <1>3, <1>4, <1>5, <1>6, <2>3 DEF IInv, PaperInv
<1>8. CASE ~ disturbed
  <2>1. paper' = paper
    BY <1>8 DEF CursorHigh
  <2>2. IsPaper(paper) /\ Matches(term, paper)
    BY <1>1, <1>6, <1>8 DEF PaperInv
  <2> QED
    BY <1>3, <1>4, <1>5, <1>6, <2>1, <2>2 DEF IInv, PaperInv
<1> QED
  BY <1>7, <1>8

LEMMA putcharKeeps ==
  ASSUME NEW c \in Letters \cup {"\n", "\r", "\t"}
  PROVE  IInv /\ putchar(c) => IInv'
<1> SUFFICES ASSUME IInv, putchar(c) PROVE IInv'
  OBVIOUS
<1>1. PositionInv /\ CursorInv /\ RegisterInv /\ PaperInv
  BY DEF IInv
<1>2. /\ pc = "rest" /\ term' = term /\ vga' = vga
      /\ reg_row' = reg_row /\ reg_column' = reg_column /\ reg_pos' = reg_pos
      /\ disturbed' = FALSE /\ paper' = Typed(paper, c)
      /\ ch' = (IF c = "\t" THEN " " ELSE c)
      /\ left' = (CASE c = "\t" -> 3 [] c \in {"\n", "\r"} -> 0 [] OTHER -> 1)
      /\ pc' = (CASE c = "\n" -> "scroll" [] c = "\r" -> "return" [] OTHER -> "put")
  BY DEF putchar, At, screen
<1>3. c \in Chars /\ ch' \in Chars
  <2>1. c \in Chars /\ " " \in Chars
    BY DEF Chars
  <2>2. ch' = " " \/ ch' = c
    BY <1>2
  <2> QED
    BY <2>1, <2>2, Zenon
<1>4. left' \in 0..3 /\ pc' \in {"scroll", "return", "put"} /\ (pc' = "put" => left' > 0)
  <2>1. c = "\n" \/ c = "\r" \/ c = "\t" \/ c \notin {"\n", "\r", "\t"}
    OBVIOUS
  <2>2. \/ left' = 0 /\ pc' \in {"scroll", "return"}
        \/ left' \in {1, 3} /\ pc' = "put"
    BY <1>2, <2>1
  <2> QED
    BY ONLY <2>2
<1>5. term \in Screens /\ OnScreen(term)
  BY <1>1, <1>2 DEF PositionInv, OnScreen
<1>6. PositionInv'
  BY <1>2, <1>3, <1>4, <1>5 DEF PositionInv, OnScreen, Putting, Scrolling, Updating
<1>7. CursorInv'
  <2>1. vga \in [index : {"low", "high"}, low : Int, high : Int] /\ reg_pos \in Int
    BY <1>1 DEF CursorInv
  <2>2. vga' = vga /\ reg_pos' = reg_pos /\ disturbed' \in BOOLEAN
    BY <1>2
  <2> QED
    BY ONLY <1>4, <2>1, <2>2 DEF CursorInv, Updating
<1>8. RegisterInv'
  BY ONLY <1>4 DEF RegisterInv
<1>9. IsPaper(paper) /\ Matches(term, paper)
  <2>1. Finished = term
    BY <1>2 DEF Finished, FinishedFrom
  <2> QED
    BY <1>1, <1>2, <2>1 DEF PaperInv
<1>10. Finished' = __terminal_putchar(term, c)
  <2>1. FinishedFrom(pc', term, ch', left') = __terminal_putchar(term, c)
    <3>1. Begins(c, pc', ch', left')
      BY <1>2 DEF Begins
    <3> QED
      BY <3>1, FinishedPutchar
  <2> QED
    BY <1>2, <2>1 DEF Finished
<1>11. IsPaper(paper')
  <2>1. paper \in Papers
    BY <1>9 DEF Papers, IsPaper, PaperRows
  <2>2. Typed(paper, c) \in Papers
    BY <1>3, <2>1, TypedPaper
  <2> QED
    BY <1>2, <2>2 DEF Papers
<1>12. Matches(Finished', paper')
  BY <1>2, <1>3, <1>5, <1>9, <1>10, PutcharTyped
<1> QED
  BY <1>6, <1>7, <1>8, <1>11, <1>12 DEF IInv, PaperInv

\* A handler between any two steps of the kernel.
LEMMA HandlerKeeps ==
  ASSUME NEW m \in Messages
  PROVE  IInv /\ HandlerPrints(m) => IInv'
<1> SUFFICES ASSUME IInv, HandlerPrints(m) PROVE IInv'
  OBVIOUS
<1>1. PositionInv /\ CursorInv /\ RegisterInv /\ PaperInv
  BY DEF IInv
<1> DEFINE u == FoldLeft(__terminal_putchar, term, m)
<1>2. /\ pc' = pc /\ ch' = ch /\ left' = left /\ term' = u /\ vga' = vga_update_cursor(u)
      /\ reg_row' = reg_row /\ reg_column' = reg_column /\ reg_pos' = reg_pos
      /\ pc = "rest" => paper' = FoldLeft(Typed, paper, m) /\ disturbed' = FALSE
      /\ pc # "rest" => disturbed' = TRUE /\ paper' = paper
  BY DEF HandlerPrints, cpu, At
<1>3. term \in Screens
  BY <1>1 DEF PositionInv
<1>4. /\ u \in Screens /\ u.column = 0
      /\ term.row \in 0..VGA_HEIGHT - 1 => u.row \in 0..VGA_HEIGHT - 1
      /\ \A p : IsPaper(p) /\ OnScreen(term) /\ Matches(term, p) =>
           IsPaper(FoldLeft(Typed, p, m)) /\ Matches(u, FoldLeft(Typed, p, m))
  BY <1>3, MessageLeaves
<1> HIDE DEF u
<1>5. PositionInv'
  <2>1. 0 \in 0..VGA_WIDTH - 1
    BY Dimensions
  <2>2. u \in Screens /\ u.column = 0 /\ (term.row \in 0..VGA_HEIGHT - 1 => u.row \in 0..VGA_HEIGHT - 1)
    BY <1>4
  <2> QED
    BY ONLY <1>1, <1>2, <2>1, <2>2 DEF PositionInv
<1>6. CursorInv'
  <2> DEFINE k == Position(u)
  <2>1. k \in Int
    <3>1. u.row \in Nat /\ u.column \in Nat /\ VGA_WIDTH \in Nat
      BY <1>4, ScreenFacts, Dimensions
    <3>2. u.row * VGA_WIDTH \in Int
      BY <3>1
    <3> QED
      BY <3>1, <3>2 DEF Position
  <2>2. k % ByteSize \in Int /\ (k \div ByteSize) % ByteSize \in Int
    BY <2>1, Bytes
  <2>3. vga' = [index |-> "high", low |-> k % ByteSize, high |-> (k \div ByteSize) % ByteSize]
    BY <1>2 DEF vga_update_cursor
  <2>4. Position(term)' = k
    BY <1>2 DEF Position
  <2> HIDE DEF k
  <2>5. /\ vga' \in [index : {"low", "high"}, low : Int, high : Int]
        /\ vga'.low = k % ByteSize /\ vga'.high = (k \div ByteSize) % ByteSize
    BY ONLY <2>2, <2>3
  <2>6. reg_pos' \in Int /\ disturbed' \in BOOLEAN /\ (~ disturbed' => pc' = "rest")
    BY <1>1, <1>2 DEF CursorInv
  <2> QED
    BY ONLY <2>4, <2>5, <2>6 DEF CursorInv, Updating
<1>7. RegisterInv'
  BY ONLY <1>2 DEF RegisterInv
<1>8. CASE pc = "rest"
  <2>1. OnScreen(term)
    BY <1>1, <1>8 DEF PositionInv, OnScreen
  <2>2. Finished = term /\ Finished' = u
    BY <1>2, <1>8 DEF Finished, FinishedFrom
  <2>3. IsPaper(paper) /\ Matches(term, paper)
    BY <1>1, <1>8, <2>2 DEF PaperInv
  <2>4. IsPaper(paper') /\ Matches(u, paper')
    BY <1>2, <1>4, <1>8, <2>1, <2>3
  <2> QED
    BY <1>5, <1>6, <1>7, <2>2, <2>4 DEF IInv, PaperInv
<1>9. CASE pc # "rest"
  <2>1. IsPaper(paper') /\ ~ (pc' = "rest" \/ ~ disturbed')
    BY <1>1, <1>2, <1>9 DEF PaperInv
  <2> QED
    BY <1>5, <1>6, <1>7, <2>1 DEF IInv, PaperInv
<1> QED
  BY <1>8, <1>9

LEMMA StutterKeeps == IInv /\ UNCHANGED vars => IInv'
<1> SUFFICES ASSUME IInv, UNCHANGED vars PROVE IInv'
  OBVIOUS
<1>1. /\ pc' = pc /\ ch' = ch /\ left' = left /\ term' = term /\ vga' = vga
      /\ reg_row' = reg_row /\ reg_column' = reg_column /\ reg_pos' = reg_pos
      /\ paper' = paper /\ disturbed' = disturbed
  BY DEF vars, screen, cpu
<1>2. PositionInv'
  BY <1>1 DEF IInv, PositionInv
<1>3. CursorInv'
  BY <1>1 DEF IInv, CursorInv, Position
<1>4. RegisterInv'
  BY <1>1 DEF IInv, RegisterInv
<1>5. PaperInv'
  BY <1>1 DEF IInv, PaperInv, Finished
<1> QED
  BY <1>2, <1>3, <1>4, <1>5 DEF IInv

-----------------------------------------------------------------------------
(* The theorems *)

\* Whatever prints where, the four parts of the invariant hold: the position,
\* the cursor registers, what the kernel keeps in registers, and the screen it
\* is about to leave.
THEOREM Printing == Spec => []IInv
<1>1. IInv /\ [Next]_vars => IInv'
  <2> SUFFICES ASSUME IInv, [Next]_vars PROVE IInv'
    OBVIOUS
  <2>1. CASE terminal_write
    BY <2>1, putcharKeeps, CarriageReturnKeeps, LoadRowKeeps, LoadColumnKeeps,
       PutEntryKeeps, StoreColumnKeeps, ScrollLoadRowKeeps, ScrollColumnKeeps,
       ScrollStoreRowKeeps, MoveRowsKeeps, LastRowKeeps, CursorPositionKeeps,
       CursorIndexLowKeeps, CursorLowKeeps, CursorIndexHighKeeps, CursorHighKeeps
       DEF terminal_write
  <2>2. CASE \E m \in Messages : HandlerPrints(m)
    BY <2>2, HandlerKeeps
  <2>3. CASE UNCHANGED vars
    BY <2>3, StutterKeeps
  <2> QED
    BY <2>1, <2>2, <2>3 DEF Next
<1> QED
  BY <1>1, InitHolds, PTL DEF Spec

\* putchar() leaves a position on the screen, wherever handlers came in.
THEOREM PositionStays == Spec => []PositionInRange
<1>1. IInv => PositionInRange
  BY DEF IInv, PositionInv, PositionInRange, At
<1> QED
  BY <1>1, Printing, PTL

\* The cursor follows every putchar() that was not interrupted.
THEOREM Cursor == Spec => []CursorFollows
<1>1. IInv => CursorFollows
  <2> SUFFICES ASSUME IInv, pc = "rest", ~ disturbed
               PROVE  vga.high * ByteSize + vga.low = Position(term)
    BY DEF CursorFollows, At
  <2> DEFINE k == Position(term)
  <2>1. vga.low = k % ByteSize /\ vga.high = (k \div ByteSize) % ByteSize
    BY DEF IInv, CursorInv
  <2>2. k \in 0..VGA_WIDTH * VGA_HEIGHT - 1
    <3>1. term.row \in 0..VGA_HEIGHT - 1 /\ term.column \in 0..VGA_WIDTH - 1
      BY DEF IInv, PositionInv
    <3>2. k \in Cells
      BY <3>1, CellOf DEF Position
    <3> QED
      BY <3>2 DEF Cells
  <2> HIDE DEF k
  <2>3. ((k \div ByteSize) % ByteSize) * ByteSize + (k % ByteSize) = k
    BY <2>2, TwoBytes
  <2> QED
    BY <2>1, <2>3 DEF k
<1> QED
  BY <1>1, Printing, PTL

\* Between two characters the screen shows the end of the text, as typed on
\* endless paper.
THEOREM Shown == Spec => []ScreenShowsTheText
<1>1. IInv => ScreenShowsTheText
  <2> SUFFICES ASSUME IInv, pc = "rest"
               PROVE  /\ Rows(term.buffer) = Visible(paper)
                      /\ term.row + 1 = paper.row - (Len(paper.rows) - VGA_HEIGHT)
                      /\ term.column + 1 = paper.column
    BY DEF ScreenShowsTheText, At
  <2>1. VGA_HEIGHT \in Nat /\ VGA_HEIGHT > 0 /\ VGA_WIDTH \in Nat
    BY Dimensions
  <2>2. Finished = term
    BY DEF Finished, FinishedFrom
  <2>3. IsPaper(paper) /\ Matches(term, paper)
    BY <2>2 DEF IInv, PaperInv
  <2> DEFINE r == paper.rows
             n == Len(r)
             v == Visible(paper)
             w == Rows(term.buffer)
  <2>4. r \in Seq(RowText) /\ n \in Nat /\ n >= VGA_HEIGHT
    BY <2>3, LenProperties DEF IsPaper, PaperRows
  <2>5. w \in Seq(RowText) /\ Len(w) = VGA_HEIGHT
        /\ \A y \in 1..VGA_HEIGHT, x \in 1..VGA_WIDTH : w[y][x] = term.buffer[Cell(y, x)]
    <3>1. term.buffer \in Buffers
      BY ScreenFacts DEF IInv, PositionInv
    <3> QED
      BY <3>1, RowsFacts
  <2>6. v \in Seq(RowText) /\ Len(v) = VGA_HEIGHT
        /\ \A y \in 1..VGA_HEIGHT : v[y] = r[n - VGA_HEIGHT + y] /\ v[y] \in RowText
    <3> HIDE DEF n
    <3>1. n - VGA_HEIGHT + 1 \in 1..n + 1 /\ n \in n - VGA_HEIGHT + 1 - 1..n
      BY <2>1, <2>4
    <3>2. v = SubSeq(r, n - VGA_HEIGHT + 1, n)
      BY DEF Visible, n
    <3>3. v \in Seq(RowText) /\ Len(v) = n - (n - VGA_HEIGHT + 1) + 1
          /\ \A y \in 1..n - (n - VGA_HEIGHT + 1) + 1 : v[y] = r[n - VGA_HEIGHT + 1 + y - 1]
      BY <2>4, <3>1, <3>2, SubSeqProperties DEF n
    <3>4. n - (n - VGA_HEIGHT + 1) + 1 = VGA_HEIGHT
          /\ \A y \in 1..VGA_HEIGHT : n - VGA_HEIGHT + 1 + y - 1 = n - VGA_HEIGHT + y
      BY <2>1, <2>4
    <3> HIDE DEF v, r
    <3>5. \A y \in 1..Len(v) : v[y] \in RowText
      BY <3>3, ElementOfSeq
    <3> QED
      BY <3>3, <3>4, <3>5
  <2>7. ASSUME NEW y \in 1..VGA_HEIGHT PROVE w[y] = v[y]
    <3>1. w[y] \in RowText /\ v[y] \in RowText
      BY <2>5, <2>6, ElementOfSeq
    <3>2. \A x \in 1..VGA_WIDTH : w[y][x] = v[y][x]
      BY <2>3, <2>5, <2>6 DEF Matches, Shows
    <3> DEFINE f == w[y]
               g == v[y]
    <3>3. f \in RowText /\ g \in RowText /\ \A x \in 1..VGA_WIDTH : f[x] = g[x]
      BY <3>1, <3>2
    <3> HIDE DEF f, g
    <3>4. f = g
      <4>1. f = [x \in 1..VGA_WIDTH |-> f[x]] /\ g = [x \in 1..VGA_WIDTH |-> g[x]]
        BY <3>3 DEF RowText
      <4> QED
        BY <3>3, <4>1, Zenon
    <3> QED
      BY <3>4 DEF f, g
  <2>8. w = v
    <3> HIDE DEF w, v
    <3> QED
      BY <2>5, <2>6, <2>7, SeqEqual
  <2> QED
    BY <2>3, <2>8 DEF Matches, Shows
<1> QED
  BY <1>1, Printing, PTL
=============================================================================
