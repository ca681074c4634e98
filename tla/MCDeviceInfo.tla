---------------------------- MODULE MCDeviceInfo ----------------------------
(***************************************************************************)
(* A TLC instance of DeviceInfo.                                           *)
(***************************************************************************)
EXTENDS DeviceInfo

CONSTANTS cpu, gpu1, gpu2

MCMachines ==
  {<<<<cpu>>>>, <<<<gpu1>>>>, <<<<cpu, gpu1>>, <<gpu2>>>>, <<<<cpu>>, <<gpu1, gpu2>>>>,
   <<<<gpu1, gpu2>>, <<>>>>, <<>>}
MCGpus == {gpu1, gpu2}

\* CL_OUT_OF_RESOURCES, CL_INVALID_VALUE and CL_INVALID_DEVICE.
MCCodes == {-5, -30, -33}

=============================================================================
