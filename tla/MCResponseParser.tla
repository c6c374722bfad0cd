--------------------------- MODULE MCResponseParser ---------------------------
(* Instances of ResponseParser for TLC: every text of up to four pieces,   *)
(* which are single tokens, complete objects and members that hold one.    *)
EXTENDS ResponseParser

Piece ==
  {<<>>, <<"{", "member", "}">>, <<"key", "{", "member", "}">>} \cup {<<t>> : t \in Tokens}
MCTexts == {a \o b \o c \o d : a, b, c, d \in Piece}
=============================================================================
