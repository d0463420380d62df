--------------------------- MODULE MCSharedBuses ---------------------------
(* The drawings of the runs of SharedBuses: pixels and rectangles of two    *)
(* blocks by the display task, the screen's filling by the CDC task.        *)
EXTENDS SharedBuses

SmallBlocks == [t \in {"display", "cdc"} |->
                    IF t = "cdc" THEN {<<2, 1>>} ELSE {<<2>>, <<2, 1>>}]
============================================================================
