---- MODULE MCFlowControl ----
EXTENDS FlowControl, TLC

(* USB is always listed, hybrid only with Bluetooth.                       *)
BothOrUsb == {{"usb"}, {"usb", "hybrid"}}
UsbOnly == {{"usb"}}

Symmetry == Permutations(Requests) \cup Permutations(Discoveries)
====
