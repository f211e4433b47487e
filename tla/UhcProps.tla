----------------------------- MODULE UhcProps -----------------------------
(***************************************************************************)
(* What the application may rely on when a device is plugged in            *)
(***************************************************************************)
EXTENDS Uhc

(* The variables have their types, the counters their ranges. *)
TypeOK ==
    /\ \A i \in DOMAIN u.queue : u.queue[i] \in Requests
    /\ u.enum_try \in 0 .. UHC_ENUM_NB_TRY
    /\ u.address \in {0, DEVICE_ADD, NOT_VALID} /\ u.uhaddr \in {0, DEVICE_ADD}
    /\ u.conf_desc \in {"NULL", "held", "freed"}
    /\ u.timer \in {"none", "step3", "step5", "step7", "step9", "step11"}
    /\ u.reset \in {"none", "step2", "step4", "step8"}
    /\ u.status \in EnumStatus
    /\ pc \in {"idle", "suspend", "delay", "freeze"}

(* The configuration descriptor is neither leaked nor freed twice, through retries,
   aborted enumerations, requests that outlive their device, and reconnections. *)
DescriptorOwned == {"leak", "freed twice"} \cap u.heap = {}

(* While the application believes that the device is enumerated, it is plugged in, pipe 0
   is enabled with its address, its configuration is there, uhi_vendor holds it, and no
   other enumeration goes on. *)
ReadyWhenEnumerated ==
    u.status = "SUCCESS" =>
        /\ connected /\ u.address = DEVICE_ADD
        /\ u.enabled /\ u.uhaddr = DEVICE_ADD
        /\ u.conf_desc = "held"
        /\ u.dev /\ u.main_b_usb_dev /\ u.endpoints
        /\ u.enum_try = 0 /\ u.timer = "none" /\ u.reset = "none"

(* uhi_vendor and the pipes hold no device that is gone. *)
ReleasedWhenGone ==
    u.address = NOT_VALID => ~u.dev /\ ~u.main_b_usb_dev /\ ~u.endpoints

(* An enumeration is tried a bounded number of times, once more if the request of an
   earlier one ends in it. *)
TriesBounded == u.attempts <= UHC_ENUM_NB_TRY + 1

(* Every enumeration ends with an event, a disconnection or a suspend. *)
EnumerationEnds == ~u.done ~> u.done \/ ~u.sof
=============================================================================
