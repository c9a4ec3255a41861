------------------------------ MODULE MCDrives ------------------------------
(***************************************************************************)
(* Drives for TLC: a hard disk with a USB stick and a USB device whose     *)
(* path begins with the stick's; the stick with two partitions; the device *)
(* as a stick that takes over a letter, its volume with a serial number of *)
(* its own.                                                                *)
(***************************************************************************)
EXTENDS Drives, TLC

CONSTANTS v1, v2, v3, u1, u2, d1, d2

Drive(l, p) == [kind |-> "letter", letter |-> l, path |-> p, serial |-> None]
Volume(p) == [kind |-> "volume", letter |-> None, path |-> p, serial |-> None]
Usb(p, s) == [kind |-> "usb", letter |-> None, path |-> p, serial |-> s]
UsbStor(p, s) == [kind |-> "usbstor", letter |-> None, path |-> p, serial |-> s]

Sticks == <<Drive("C", v1), Drive("E", v2), Usb(u1, "s1"), Usb(u2, "s2"),
            UsbStor(v2, "s1"), Volume(v1)>>
Partitions == <<Usb(u1, "s1"), UsbStor(v2, "s1"), Drive("E", v2), UsbStor(v3, "s1"),
                Drive("F", v3)>>
Moved == <<UsbStor(v3, "s3"), Drive("E", v3), Usb(u2, "s2")>>

MCDirectories == {Sticks, Partitions, Moved}
MCDevicePath == (d1 :> u1) @@ (d2 :> u2)
MCDeviceSerial == (d1 :> "s1") @@ (d2 :> "s2")
MCBegins == [p \in Paths |-> IF p = u1 THEN {u1, u2} ELSE {p}]
MCAlike == [p \in Paths |-> IF p \in {v1, v2, v3} THEN {v1, v2, v3} ELSE {u1, u2}]
=============================================================================
