-------------------------------- MODULE Text --------------------------------
(***************************************************************************)
(* Texts as sequences of symbols, with the few operations of the standard  *)
(* library and of httputils.cpp that the parsers are made of.  A symbol is *)
(* a character, or a word nothing looks into.                              *)
(***************************************************************************)
EXTENDS Integers, SequencesExt, TLC

Blank == " "

(* Where d occurs in t, as find() and contains() see it.                   *)
OccursAt(t, d, i) == /\ i + Len(d) - 1 <= Len(t)
                     /\ SubSeq(t, i, i + Len(d) - 1) = d

Occurs(t, d) == {i \in 1 .. Len(t) : OccursAt(t, d, i)}

First(t, d) == Min(Occurs(t, d))

Before(t, d) == SubSeq(t, 1, First(t, d) - 1)
After(t, d)  == SubSeq(t, First(t, d) + Len(d), Len(t))

(* std::views::split.                                                      *)
Split(t, d) ==
    LET pieces[i \in 1 .. Len(t) + 1] ==
          IF i > Len(t) THEN << <<>> >>
          ELSE IF OccursAt(t, d, i) THEN << <<>> >> \o pieces[i + Len(d)]
          ELSE LET rest == pieces[i + 1]
               IN  << <<t[i]>> \o Head(rest) >> \o Tail(rest)
    IN pieces[1]

(* The elements of s other than x, by a fold that a proof can follow.      *)
Without(s, x) == FoldLeft(LAMBDA kept, y : IF y = x THEN kept ELSE Append(kept, y), <<>>, s)

NonEmpty(s) == Without(s, <<>>)

(* std::string::replace at the first occurrence, if there is one.          *)
ReplaceFirst(t, d, r) ==
    IF Occurs(t, d) = {} THEN t ELSE Before(t, d) \o r \o After(t, d)

(* replace_str, for each symbol of the domain of table.                    *)
Rewrite(t, table) ==
    FlattenSeq([i \in DOMAIN t |->
        IF t[i] \in DOMAIN table THEN table[t[i]] ELSE <<t[i]>>])

Trim(t) ==
    LET kept == {i \in DOMAIN t : t[i] # Blank}
    IN IF kept = {} THEN <<>> ELSE SubSeq(t, Min(kept), Max(kept))

(* A map with this entry, and std::map::try_emplace: an entry that is      *)
(* there stays.                                                            *)
NoEntries == [n \in {} |-> <<>>]

Put(map, name, value) == [n \in DOMAIN map \cup {name} |-> IF n = name THEN value ELSE map[n]]

TryEmplace(map, name, value) ==
    IF name \in DOMAIN map THEN map ELSE Put(map, name, value)
=============================================================================
