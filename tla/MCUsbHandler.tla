---- MODULE MCUsbHandler ----
EXTENDS UsbHandler
====
