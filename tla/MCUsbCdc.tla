------------------------------ MODULE MCUsbCdc ------------------------------
(* Traffic in one direction at a time, and a little in both.               *)
EXTENDS UsbCdc

OneWayAtATime == {[out |-> 3, in |-> 0], [out |-> 0, in |-> 6]}
=============================================================================
