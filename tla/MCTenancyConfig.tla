--------------------------- MODULE MCTenancyConfig ---------------------------
(* TenancyConfig on names of a few characters. *)
EXTENDS TenancyConfig, SequencesExt

\* The word that stands for `user`, `table`, `order`.
Words == {<<Letter, Letter>>}

\* All names short enough, and one that is too long.
Parts == SeqOf({Letter, Upper, Digit, Other}, NameLimit) \cup {<<Letter, Upper, Digit>>}

\* Three that are accepted, one of them reserved, and one for each refusal.
Identifiers == {<<Letter>>, <<Upper, Digit>>, <<Letter, Letter>>} \cup
    {<<>>, <<Digit>>, <<Letter, Other>>, <<Letter, Dot>>, <<Letter, Upper, Digit>>}

\* No dot, one or two, between parts short enough, too long or malformed.
Dotted ==
    Parts \cup {p \o <<Dot>> \o q : p, q \in Parts}
        \cup {<<Letter, Dot, Letter, Dot, Letter>>}
===============================================================================
