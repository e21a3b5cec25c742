---------------------------- MODULE MCDeviceList ----------------------------
(* Three cells, so that one can be removed from the middle of the list, at *)
(* both ends and alone; addresses a cell's size apart.                     *)
EXTENDS DeviceList, TLC

MCAddr == {10, 20, 30}

Symmetric == Permutations(Port)
=============================================================================
