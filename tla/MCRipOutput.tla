---------------------------- MODULE MCRipOutput ----------------------------
(* Small discs: one with two areas (DST stereo, DSD surround), one that is *)
(* not encrypted and whose last track is one sector long, and an image cut *)
(* off in its second track; every way of asking for them.                  *)
EXTENDS RipOutput

TwoAreas ==
    [areas |-> <<[start |-> 1, end |-> 5, tracks |-> <<1, 3>>, dst |-> TRUE],
                 [start |-> 7, end |-> 9, tracks |-> <<7>>, dst |-> FALSE]>>,
     total |-> 11, plain |-> FALSE]

Plain ==
    [areas |-> <<[start |-> 2, end |-> 7, tracks |-> <<2, 4, 6>>,
                  dst |-> FALSE]>>,
     total |-> 8, plain |-> TRUE]

CutOff ==
    [areas |-> <<[start |-> 1, end |-> 5, tracks |-> <<1, 3>>, dst |-> TRUE]>>,
     total |-> 4, plain |-> FALSE]

MCDiscs == {TwoAreas, Plain, CutOff}

(* The areas, tracks and format make no difference to an ISO alone, nor -c *)
(* to DSF, nor the selection and DSF to an edit master.                    *)
MCRequests ==
    {r \in [mode : {"iso", "concurrent", "edit", "tracks"},
            areas : {{1}, {1, 2}}, pick : {1 .. 3, {2}},
            dsf : BOOLEAN, convert : BOOLEAN] :
        /\ r.dsf => ~r.convert
        /\ r.mode = "iso" => r.areas = {1} /\ ~r.convert
        /\ r.mode \in {"iso", "edit"} => r.pick = {2} /\ ~r.dsf}
=============================================================================
