------------------------- MODULE MCLexicalIndexing -------------------------
(* Small instances of LexicalIndexing for TLC.                              *)
EXTENDS LexicalIndexing

\* Two documents; the first content of the first is reviewed.
TwoDocs == {1, 2}
OneOrBoth == {{1}, {1, 2}}
OneReviewed == {<<1, 1>>}
=============================================================================
