--------------------------- MODULE MCIconService ---------------------------
(***************************************************************************)
(* Instances of IconService for TLC: three themes with two icons, in two    *)
(* directories each.                                                        *)
(***************************************************************************)
EXTENDS IconService

small == [min |-> 1, max |-> 2]
large == [min |-> 4, max |-> 5]

Dir(t, in, declared, here) ==
    [theme |-> t, inherits |-> in, declared |-> declared, files |-> [d \in 1 .. 2 |-> here]]

\* Oxygen inherits from base and has no icons, or from a list of themes taken for
\* one name and has one, in two sizes; base inherits from hicolor by default, or
\* from nothing.
MCThemeDirs ==
    { Dir("hicolor", "unset", <<small>>, {"edit", "quit"}),
      Dir("oxygen", "base", <<small>>, {}),
      Dir("oxygen", "base,hicolor", <<small, large>>, {"edit"}),
      Dir("base", "unset", <<>>, {"quit"}),
      Dir("base", "none", <<>>, {"quit"}) }

\* And base inherits from oxygen.
MCCircle == { Dir("oxygen", "base", <<small>>, {"edit"}), Dir("base", "oxygen", <<large>>, {"edit"}) }

MCPixmapSets == { {"edit"} }

Plain(i) == [icon |-> i, ending |-> FALSE]

MCRequests ==
    { [theme |-> "oxygen", names |-> <<Plain("quit"), Plain("edit")>>, size |-> 6, numeric |-> TRUE],
      [theme |-> "base,hicolor", names |-> <<[icon |-> "quit", ending |-> TRUE]>>, size |-> 1,
       numeric |-> TRUE],
      [theme |-> "oxygen", names |-> <<>>, size |-> 1, numeric |-> TRUE],
      [theme |-> "oxygen", names |-> <<Plain("quit")>>, size |-> 0, numeric |-> FALSE] }

\* An icon neither of the two has.
MCCircleRequests == { [theme |-> "oxygen", names |-> <<Plain("quit")>>, size |-> 3,
                        numeric |-> TRUE] }

=============================================================================
