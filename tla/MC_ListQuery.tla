---------------------------- MODULE MC_ListQuery ----------------------------
(* Go's int reduced to 8 bits; numerals at and beyond both ends of that     *)
(* range, around 0 and 1, and inside the table's epochs.                    *)
EXTENDS ListQuery

MCNumerals == {-129, -128, -1, 0, 1, 2, 6, 13, 127, 128}

MCSortTokens == {"created_at", "amount", "x", ":", "asc", "desc"}

MCAllowedFields == << <<"created_at">>, <<"amount">> >>

MCTable == <<1, 3, 5, 7>>
=============================================================================
