------------------------------ MODULE MCIntake ------------------------------
(***************************************************************************)
(* Instances of Intake: a phone that shows itself over USB with three      *)
(* product ids, one of them without MTP, and a phone over adb.             *)
(***************************************************************************)
EXTENDS Intake

Usb(serial, transport) == [watcher |-> "usb", maker |-> "Samsung", model |-> "USB-attached Android",
                           serial |-> serial, transport |-> transport]
Adb == [watcher |-> "adb", maker |-> "samsung", model |-> "SM-G960F", serial |-> "R58",
        transport |-> "usb-adb"]

MCUsb == {Usb("usb-04e8-6860", "usb-mtp"), Usb("usb-04e8-685c", "usb-mtp"),
          Usb("usb-04e8-6601", "usb-unknown")}
MCAdb == {Adb}
=============================================================================
