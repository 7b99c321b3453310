----------------------- MODULE MCDeviceServiceClient -----------------------
(* Instances of DeviceServiceClient for TLC: the two objects a page can have *)
(* and enough changes for two of them to be on their way together.           *)
EXTENDS DeviceServiceClient

MCMaxChanges == 3
=============================================================================
