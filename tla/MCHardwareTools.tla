-------------------------- MODULE MCHardwareTools --------------------------
(***************************************************************************)
(* A board of two devices: next to TDO a device with a tristate pin, an    *)
(* output without an input cell and an instruction register of 6 bits,     *)
(* behind it an ARM DAP style device of 4 bits with a live processing      *)
(* system. A net leads from the first to the second.                       *)
(***************************************************************************)
EXTENDS HardwareTools

Cell(pin, fn, safe, by, value) ==
  [pin |-> pin, fn |-> fn, safe |-> safe, disabled_by |-> by, disable_value |-> value]

Pl == [idcode |-> <<1, 0, 1, 0>>, ir_length |-> 6, live |-> FALSE,
       ops |-> [SAMPLE |-> <<1, 0, 0, 0, 0, 0>>, EXTEST |-> <<0, 1, 1, 0, 0, 1>>,
                IDCODE |-> <<1, 0, 0, 1, 0, 0>>],
       cells |-> <<Cell("A", "INPUT", -1, 0, -1), Cell("A", "OUTPUT3", 0, 4, 1),
                   Cell("B", "OUTPUT2", 0, 0, -1), Cell("*", "CONTROL", 1, 0, -1)>>]
Dap == [idcode |-> <<1, 1, 0, 0>>, ir_length |-> 4, live |-> TRUE,
        ops |-> [SAMPLE |-> <<1, 1, 0, 0>>, EXTEST |-> <<0, 0, 0, 0>>, IDCODE |-> <<0, 1, 1, 1>>],
        cells |-> <<Cell("C", "INPUT", -1, 0, -1), Cell("D", "BIDIR", 0, 0, -1)>>]

TheBoard == <<Pl, Dap>>
TheArmIds == {Dap.idcode}
TheFilters == {{"B"}}
TheNets == {[driver |-> <<1, "A">>, receivers |-> << <<2, "C">> >>]}
TheImages == {<< <<1, 0, 1, 0>>, <<1, 0>> >>, << <<0, 1, 0, 1>>, <<0, 1>> >>}
=============================================================================
