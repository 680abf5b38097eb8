------------------------------ MODULE MCI2cBus ------------------------------
(***************************************************************************)
(* The bus as app_main wires it: the ADS1115 is device 1, used by the      *)
(* sensor task, and the SSD1306 is device 2, used by the display task.     *)
(***************************************************************************)
EXTENDS I2cBus

CONSTANTS sensor, display

MCWorkers  == {sensor, display}
MCDeviceOf == [w \in MCWorkers |-> IF w = sensor THEN 1 ELSE 2]
=============================================================================
