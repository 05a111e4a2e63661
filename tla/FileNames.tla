------------------------------- MODULE FileNames -------------------------------
(***************************************************************************)
(* The names the file operations make up for copies, links and new folders *)
(* when the one that is wanted is taken.                                   *)
(*                                                                         *)
(* A name is a sequence of tokens one byte long: a character, a number, or *)
(* the words of a tag.  " (5th copy)" is Open, a number and Copy; the      *)
(* numbers 1 and 2 stand for " (copy)" and " (another copy)".              *)
(***************************************************************************)
EXTENDS Integers, Sequences, FiniteSets

Char(c) == <<c, 0>>
Number(n) == <<"number", n>>
Dot == Char(".")
Space == Char(" ")
Open == Char(" (")
Copy == Char("copy)")
Link == Char("link to ")

NoLimit == -1

\* The first of some places in a name, or 0.
FirstOf(places) ==
    IF places = {} THEN 0 ELSE CHOOSE i \in places : \A k \in places : i <= k

\* shorten_utf8_string; <<>> is NULL.
Shorten(base, by) == SubSeq(base, 1, Len(base) - by)

\* base with something before and after it, shortened when the whole is too long.
Fitted(before, base, after, max) ==
    LET over == Len(before \o base \o after) - max
        short == Shorten(base, over)
    IN  before \o (IF max > 0 /\ over > 0 /\ short # <<>> THEN short ELSE base) \o after

\* get_link_name.
LinkName(name, count, max) ==
    Fitted(IF count = 0 THEN <<>> ELSE <<Number(count), Link>>, name, <<>>, max)

\* A greater number in a tag is taken for none.
MaxTag == 1000000

\* parse_previous_duplicate_name: the suffix starts at the first dot but one the
\* name starts with, unless the tag of a copy comes after it.
Parse(name) ==
    LET dot == FirstOf({i \in 2..Len(name) : name[i] = Dot})
        suffixAt == IF dot = Len(name) THEN 0 ELSE dot
        tagged(n) == FirstOf({i \in 1..(Len(name) - 2) :
                                SubSeq(name, i, i + 2) = <<Open, Number(n), Copy>>})
        other == IF \A i \in DOMAIN name : name[i] # Copy THEN 0
                 ELSE FirstOf({i \in DOMAIN name : name[i] = Open})
        tag == IF tagged(1) # 0 THEN tagged(1)
               ELSE IF tagged(2) # 0 THEN tagged(2) ELSE other
        written == IF tag # 0 /\ tag < Len(name) /\ name[tag + 1][1] = "number"
                   THEN name[tag + 1][2] ELSE 0
        kept == suffixAt # 0 /\ (tag = 0 \/ tag < suffixAt)
    IN  [base |-> SubSeq(name, 1, IF tag # 0 THEN tag - 1
                                  ELSE IF kept THEN suffixAt - 1 ELSE Len(name)),
         suffix |-> IF kept THEN SubSeq(name, suffixAt, Len(name)) ELSE <<>>,
         count |-> IF written \in 1..MaxTag THEN written ELSE 0]

\* Mutant: a name that is too long is cut at its end.
NextNameCut(base, suffix, count, max) ==
    LET whole == base \o <<Open, Number(IF count < 1 THEN 1 ELSE count), Copy>> \o suffix
    IN  IF max > 0 /\ Len(whole) > max THEN Shorten(whole, Len(whole) - max) ELSE whole

\* make_next_duplicate_name.
NextName(base, suffix, count, max) ==
    LET n == IF count < 1 THEN 1 ELSE count
    IN  Fitted(<<>>, base, <<Open, Number(n), Copy>> \o suffix, max)

\* get_duplicate_name.
DuplicateName(name, increment, max) ==
    LET parsed == Parse(name)
    IN  NextName(parsed.base, parsed.suffix, parsed.count + increment, max)

\* The name of a new folder: too long, it loses its end, the number first.
NumberedName(name, count, max) ==
    LET numbered == name \o <<Space, Number(count)>>
        short == Shorten(numbered, Len(numbered) - max)
    IN  IF max > 0 /\ Len(numbered) > max /\ short # <<>> THEN short ELSE numbered

\* str_replace and make_file_name_valid_for_dest_fs: on a FAT file system, which
\* is not known to be one at first.
Forbidden == {Char("/"), Char(":"), Char(";"), Char("*"), Char("?"), Char("\""), Char("<"),
              Char(">")}

ValidForFs(name, fat) ==
    LET replaced == [i \in DOMAIN name |-> IF name[i] \in Forbidden THEN Char("_") ELSE name[i]]
        words == {i \in DOMAIN name : replaced[i] # Space}
        end == CHOOSE i \in words : \A k \in words : k <= i
    IN  IF ~ fat THEN name
        ELSE IF words = {} THEN replaced ELSE SubSeq(replaced, 1, end)
=============================================================================
