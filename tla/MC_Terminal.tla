----------------------------- MODULE MC_Terminal -----------------------------
(***************************************************************************)
(* Terminal for TLC: a screen of two rows of three columns, and handlers    *)
(* that print one short line or two.                                        *)
(***************************************************************************)
EXTENDS Terminal

MCMessages == {<<"w", "\n">>, <<"w", "w", "w", "\n">>}

=============================================================================
