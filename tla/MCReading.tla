----------------------------- MODULE MCReading -----------------------------
(***************************************************************************)
(* Temperatures and levels around every change of sign, of the number of   *)
(* digits and of the bit field's range.                                    *)
(***************************************************************************)
EXTENDS Reading

Flags == {<<o, g, c>> : o \in BOOLEAN, g \in BOOLEAN, c \in BOOLEAN}

Measuring(temps, internals, flags) ==
    {[temp |-> t, internal |-> i, OC |-> f[1], SVG |-> f[2], SVC |-> f[3]] :
        t \in temps, i \in internals, f \in flags}

Sound ==
    Measuring({-8192, -401, -41, -3, 0, 39}, {-2048}, {<<FALSE, FALSE, FALSE>>})
        \cup Measuring({-399, -1, 2, 41, 3999, 4001, 8191}, {368},
                       {<<FALSE, FALSE, FALSE>>})

Failed == Measuring({-1, 8191}, {2047}, Flags \ {<<FALSE, FALSE, FALSE>>})

SampledMeasurements == Sound \cup Failed
=============================================================================
