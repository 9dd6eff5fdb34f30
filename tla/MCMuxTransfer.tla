--------------------------- MODULE MCMuxTransfer ---------------------------
(* Instances of MuxTransfer: ranks with and without a disabled DPU.        *)
EXTENDS MuxTransfer

NoneDisabled == {}
OneDisabled  == {<<1, 3>>}
=============================================================================
