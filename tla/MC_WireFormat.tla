--------------------------- MODULE MC_WireFormat ---------------------------
EXTENDS WireFormat
\* 200 takes two bytes of varint.  <<80, 49>> is text whose first byte would be
\* a tag (field 10) and <<8, 7>> bytes of a hash that would be field 1.
SmallNumbers == {0, 5, 200}
SmallTexts == {<<>>, <<80, 49>>, <<8, 7>>}
\* Up to five bytes: field 3 of wire type 2, lengths of up to three bytes, among
\* them the greatest int and -1; unknown fields of each size.
Bytes == {1, 26, 63, 127, 255}
SmallStrays == UNION {[1..n -> Bytes] : n \in 0..5}
=============================================================================
