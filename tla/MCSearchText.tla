---------------------------- MODULE MCSearchText ----------------------------
(* Five addresses in no segment, one, two with a gap, or two adjacent ones. *)
EXTENDS SearchText

MCLayouts ==
    {<<>>, << <<0, 5>> >>, << <<0, 2>>, <<3, 5>> >>, << <<1, 3>>, <<3, 5>> >>}
=============================================================================
