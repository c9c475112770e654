----------------------------- MODULE MC_Symbols -----------------------------
(***************************************************************************)
(* Symbols for TLC: two digits, numbers of at most three of them, sorted    *)
(* files of up to three good lines, files with a bad line in any place, and *)
(* stacks whose frames return to every address of the symbols and around    *)
(* them.                                                                    *)
(***************************************************************************)
EXTENDS Symbols, FiniteSets

CONSTANT MaxLines

Digits == [n \in 1..6 |-> CASE n = 1 -> <<1>>     [] n = 2 -> <<1, 0>>
                            [] n = 3 -> <<1, 1>>  [] n = 4 -> <<1, 0, 0>>
                            [] n = 5 -> <<1, 0, 1>> [] n = 6 -> <<1, 1, 0>>]

Good(name, addr, rest) ==
  [fields |-> 4, name |-> name, addr |-> Digits[addr], rest |-> rest]

GoodLines ==
  {Good(n, a, r) : n \in {"f", Stub}, a \in {2, 3, 5}, r \in {<<>>, <<0>>, <<1, 0>>}}

\* A line that breaks one rule of the grammar each.
BadLines ==
  {[Good("f", 3, <<>>) EXCEPT !.fields = n] : n \in 1..3}
    \cup {[Good("f", 3, <<>>) EXCEPT !.name = n] : n \in {"", LongName}}
    \cup {[Good("f", 3, <<>>) EXCEPT !.addr = a] :
            a \in {<<1, 0, 0, 0>>, <<1, NotADigit>>}}
    \cup {[Good("f", 3, <<>>) EXCEPT !.rest = r] :
            r \in {<<1, 0, 0, 0>>, <<NotADigit, 1>>}}

GoodBodies ==
  {lines \in UNION {[1..n -> GoodLines] : n \in 1..MaxLines} : Sorted(lines)}

BadBodies ==
  {<<l>> : l \in BadLines}
    \cup {<<l, Good(Stub, 5, <<>>)>> : l \in BadLines}
    \cup {<<Good(Stub, 2, <<>>), l>> : l \in BadLines}

MCFiles ==
  {[lines |-> b, tail |-> "end"] : b \in GoodBodies \cup BadBodies}
    \cup {[lines |-> <<>>, tail |-> t] : t \in {"end", "nul"}}
    \cup {[lines |-> b, tail |-> "nul"] :
            b \in {<<l>> : l \in GoodLines} \cup {<<l>> : l \in BadLines}}

Frame(eip, interrupted) ==
  [eip |-> eip, ebp |-> 1, interrupted |-> interrupted]

Outermost == [eip |-> 3, ebp |-> 0, interrupted |-> 0]

MCStacks ==
  {<<Frame(e, n), Outermost>> : e \in 1..8, n \in {0, 3}}
    \cup {<<Frame(2, 7), Frame(6, 0), [Outermost EXCEPT !.eip = 0]>>,
          <<Outermost>>}

=============================================================================
