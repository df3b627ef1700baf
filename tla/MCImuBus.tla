------------------------------ MODULE MCImuBus ------------------------------
(* The sensor bus with the board's two ride-along devices; periods 2 and 1   *)
(* stand for the coprime 10 and 7 slots of bme280.h and vl53l0x.h: in every  *)
(* second slot both are due and the first one wins.                          *)
EXTENDS ImuBus

MCRides  == <<"bme280", "vl53l0x">>
MCEveryN == [d \in {"bme280", "vl53l0x"} |-> IF d = "bme280" THEN 2 ELSE 1]
=============================================================================
