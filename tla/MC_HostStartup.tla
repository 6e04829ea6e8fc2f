---------------------------- MODULE MC_HostStartup ----------------------------
(* Instantiates HostStartup for TLC: a /proc/devices with and without the  *)
(* xdma entry, and identifier registers of an H2C channel, a C2H channel,  *)
(* an absent channel (0), a failed PCIe read (0xffffffff), and a near miss *)
(* 0x1fd00006 that differs from an identifier only in the third digit.     *)
EXTENDS HostStartup

MCProcDevices == {<<"1", "mem", "241", "xdma">>, <<"1", "mem">>}

MCRegisterValues == {<<8128, 6>>, <<8129, 6>>, <<8144, 6>>, <<0, 0>>, <<65535, 65535>>}

=============================================================================
