----------------------------- MODULE MCPackArray -----------------------------
(* PackArray for TLC: the end of one record is another record. *)
EXTENDS PackArray

MCRecords == {<<"a">>, <<"b", "a">>, <<"b", "b", "b", "a">>}
MCName == <<"n">>
MCCharacters == Markers \cup {"a", "b", "n"}

=============================================================================
