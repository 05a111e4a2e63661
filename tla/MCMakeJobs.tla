------------------------------ MODULE MCMakeJobs ------------------------------
(* An instance of MakeJobs for TLC: pairs of jobs in a folder that has some of *)
(* the names they want.                                                        *)
EXTENDS MakeJobs, TLC

A == <<Char("a")>>
AT == <<Char("a"), Dot, Char("t")>>
\* Longer than 6 with a tag, so that its base is shortened to that of AT.
Long == <<Char("a"), Char("a"), Dot, Char("t")>>
Odd == <<Char("b"), Char("?")>>
OddT == Odd \o <<Dot, Char("t")>>

Work(kind, wanted) ==
  [kind |-> kind, wanted |-> wanted, here |-> FALSE, remote |-> FALSE, undoing |-> FALSE]
Here(w) == [w EXCEPT !.here = TRUE]
Remote(w) == [w EXCEPT !.remote = TRUE]
Undoing(w) == [w EXCEPT !.undoing = TRUE]

Case(system, max, w1, w2) ==
  [system |-> system, max |-> max, taken |-> {A, AT, Long}, work |-> ("p" :> w1) @@ ("q" :> w2)]
MCCases == {
  Case("posix", 5, Work("link", <<A, Odd>>), Here(Work("link", <<A>>))),
  Case("fat", 6, Work("link", <<A, Odd>>), Work("folder", <<Odd>>)),
  Case("ntfs", NoLimit, Work("link", <<Odd>>), Work("file", <<OddT>>)),
  Case("fat", NoLimit, Undoing(Work("template", <<OddT>>)), Work("file", <<AT>>)),
  Case("posix", 2, Work("folder", <<A>>), Remote(Work("link", <<A, AT>>))),
  Case("posix", 6, Work("template", <<AT>>), Work("file", <<Long>>)),
  Case("posix", NoLimit, Work("folder", <<A>>), Undoing(Work("folder", <<A>>)))}

MCOther == {A \o <<Space, Number(2)>>, <<Number(1), Link>> \o A,
            <<Char("a"), Open, Number(1), Copy, Dot, Char("t")>>}
=============================================================================
