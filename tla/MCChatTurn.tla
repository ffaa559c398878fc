----------------------------- MODULE MCChatTurn -----------------------------
(***************************************************************************)
(* Model-checking instances of ChatTurn.  Handlers are interchangeable, and *)
(* of the numbers of the steps only their order matters: states with the    *)
(* same steps in the same order are explored as one.                        *)
(***************************************************************************)
EXTENDS ChatTurn, Sequences, TLC

Interchangeable == Permutations(Handlers)

ByOrder ==
  SelectSeq([i \in 1 .. Newest(steps) |-> IF i \in DOMAIN steps THEN steps[i] ELSE NoRow],
            LAMBDA s : s # NoRow)

\* What an edit deletes from is a number, too; and the calls a request has come with are
\* of no use once it generates.
Ranked == [h \in Handlers |->
  CASE req[h].pc = "cutting" ->
         [req[h] EXCEPT !.from = Cardinality({i \in DOMAIN steps : i < req[h].from})]
    [] req[h].pc = "apply" -> req[h]
    [] OTHER -> [req[h] EXCEPT !.items = {}]]

UpToNumbers == <<ByOrder, row, Ranked, turns, lastCall, moneyVars, orderly, torn>>

=============================================================================
