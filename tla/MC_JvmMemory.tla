--------------------------- MODULE MC_JvmMemory ---------------------------
(* Heap sizes at the edges of the two regular expressions: 1 and 4 digits *)
(* before M or m, 5 digits before M, 2 and 3 digits before G or g, a unit *)
(* with no digit, digits with no unit, text after the unit, and "|" as a *)
(* unit.                                                                  *)
EXTENDS JvmMemory

MCValues ==
    { <<"5", "M">>, <<"5", "5", "5", "5", "m">>, <<"5", "5", "5", "5", "5", "M">>,
      <<"5", "5", "g">>, <<"5", "5", "5", "G">>, <<"M">>, <<"5">>,
      <<"5", "M", "x">>, <<"5", "|">> }

=============================================================================
