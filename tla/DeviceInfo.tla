----------------------------- MODULE DeviceInfo -----------------------------
(***************************************************************************)
(* Context::display_opencl_info, platform_info and device_info, and the    *)
(* same queries made by init: every query of a driver may fail, and the    *)
(* codes of the failures are put together with |=.                         *)
(*                                                                         *)
(* A platform is a sequence of devices; a text or a number that a query    *)
(* returns is identified with the platform or device it describes.         *)
(***************************************************************************)
EXTENDS Integers, Sequences, Functions

CONSTANTS
  Machines,     \* what may be installed: sequences of platforms
  Gpus,         \* the devices that are GPUs
  Codes,        \* the codes queries fail with, on a machine that has a platform
  Unset         \* what a field holds that was never filled in

CL_SUCCESS == 0
CL_DEVICE_NOT_FOUND == -1
CL_PLATFORM_NOT_FOUND_KHR == -1001

\* The codes cl.h defines and get_opencl_error_str names; those of cl_ext.h it leaves out.
ErrorCodes == -14 .. CL_SUCCESS \union -64 .. -30

\* Once there is a platform, queries fail with codes of cl.h.
ASSUME InfoAssumption ==
  /\ \A m \in Machines : m \in Seq(Seq(UNION {Range(p) : p \in Range(m)}))
  /\ Codes \subseteq ErrorCodes \ {CL_SUCCESS}

VARIABLES
  machine, routine,     \* what is installed; which of the two routines runs
  platform,             \* the platform it has got to, an index of machine
  platform_fields, device_fields,
                        \* fields filled in, with what: of the PlatformInfo, and of the DeviceInfo
  device_ids, device,   \* the ids clGetDeviceIDs gave, and the one it has got to
  devices,              \* the vector of the DeviceInfos of a platform
  ciErr1, failures,     \* the error code, and the codes that went into it
  shown,                \* what was printed, or what init stored
  host_pc

info == <<platform_fields, device_fields, device_ids, device, devices>>
vars == <<machine, routine, platform, info, ciErr1, failures, shown, host_pc>>

PlatformFields == <<"name", "vendor", "version">>
DeviceFields == <<"global_mem_size", "image_support", "max_work_group_size", "address_bits",
                  "work_items_for_dims", "type", "name">>

-----------------------------------------------------------------------------
(* Error codes *)

\* A slip in BitOr: codes are added up.
BitOrSum(a, b) == a + b

\* a | b of two codes: seven bits of two's complement tell them apart, the last one the sign.
BitOr(a, b) ==
  LET Bit(w) == IF (a \div w) % 2 = 1 \/ (b \div w) % 2 = 1 THEN w ELSE 0
  IN Bit(1) + Bit(2) + Bit(4) + Bit(8) + Bit(16) + Bit(32) - Bit(64)

\* A code's name is identified with the code.
get_opencl_error_str(code) == IF code \in ErrorCodes THEN {code} ELSE {}

-----------------------------------------------------------------------------
FieldsUnset(fields) == [f \in Range(fields) |-> Unset]

Init ==
  /\ machine \in Machines
  /\ routine \in {"display_opencl_info", "init"}
  /\ platform = 1
  /\ platform_fields = FieldsUnset(PlatformFields)
  /\ device_fields = FieldsUnset(DeviceFields)
  /\ device_ids = <<>> /\ device = 1 /\ devices = <<>>
  /\ ciErr1 = CL_SUCCESS /\ failures = {}
  /\ shown = <<>>
  /\ host_pc = [at |-> "platforms", i |-> 0]

At(what, i) == host_pc = [at |-> what, i |-> i]
Goto(what, i) == host_pc' = [at |-> what, i |-> i]

\* A call whose code is checked at once.
Fail(e) ==
  /\ ciErr1' = e /\ failures' = {e}
  /\ Goto("threw", 0)
  /\ UNCHANGED <<machine, routine, platform, info, shown>>

\* clGetPlatformIDs: the count and the ids in display_opencl_info, the first one in init.
\* Without a platform it is an error.
GetPlatforms ==
  /\ At("platforms", 0)
  /\ \/ \E e \in Codes : Fail(e)
     \/ /\ machine = <<>>
        /\ Fail(CL_PLATFORM_NOT_FOUND_KHR)
     \/ /\ machine # <<>>
        /\ Goto("platform_info", 1)
        /\ UNCHANGED <<machine, routine, platform, info, ciErr1, failures, shown>>

\* A slip in Accumulated: = for |=.
AccumulatedLast(i, code) == code

\* What field i, whose query returned code, leaves in ciErr1.
Accumulated(i, code) == IF i = 1 THEN code ELSE BitOr(ciErr1, code)
FailuresWith(i, code) ==
  (IF i = 1 THEN {} ELSE failures) \union (IF code = CL_SUCCESS THEN {} ELSE {code})

\* The query of field i of platform_info; the code is looked at after the last of them.
PlatformField(i) ==
  /\ At("platform_info", i)
  /\ \E code \in {CL_SUCCESS} \union Codes :
       /\ ciErr1' = Accumulated(i, code) /\ failures' = FailuresWith(i, code)
       /\ IF code = CL_SUCCESS
            THEN platform_fields' = [platform_fields EXCEPT ![PlatformFields[i]] = platform]
            ELSE UNCHANGED platform_fields
  /\ IF i < Len(PlatformFields) THEN Goto("platform_info", i + 1)
     ELSE IF ciErr1' # CL_SUCCESS THEN Goto("threw", 0)
     ELSE Goto("device_ids", 0)
  /\ UNCHANGED <<machine, routine, platform, device_fields, device_ids, device, devices, shown>>

\* What clGetDeviceIDs may answer for platform p: every device to a listing, one GPU to init.
Answers(p) ==
  IF routine = "init" THEN {<<d>> : d \in Range(machine[p]) \intersect Gpus}
                      ELSE {machine[p]} \ {<<>>}

\* On a platform without a device of the type asked for it is an error.
GetDeviceIds ==
  /\ At("device_ids", 0)
  /\ \/ \E e \in Codes : Fail(e)
     \/ /\ Answers(platform) = {}
        /\ Fail(CL_DEVICE_NOT_FOUND)
     \/ /\ device_ids' \in Answers(platform)
        /\ Goto("device_info", 1)
        /\ UNCHANGED <<machine, routine, platform, platform_fields, device_fields, device, devices,
                       ciErr1, failures, shown>>

\* The device whose DeviceInfo is being filled in.
Current == device_ids[device]

\* The query of field i of device_info.
DeviceField(i) ==
  /\ At("device_info", i)
  /\ \E code \in {CL_SUCCESS} \union Codes :
       /\ ciErr1' = Accumulated(i, code) /\ failures' = FailuresWith(i, code)
       /\ IF code = CL_SUCCESS
            THEN device_fields' = [device_fields EXCEPT ![DeviceFields[i]] = Current]
            ELSE UNCHANGED device_fields
  /\ IF i < Len(DeviceFields) THEN Goto("device_info", i + 1)
     ELSE IF ciErr1' # CL_SUCCESS THEN Goto("threw", 0)
     ELSE Goto("push_back", 0)
  /\ UNCHANGED <<machine, routine, platform, platform_fields, device_ids, device, devices, shown>>

\* Each device in a DeviceInfo of its own.
PushBack ==
  /\ At("push_back", 0)
  /\ devices' = Append(devices, device_fields)
  /\ device_fields' = FieldsUnset(DeviceFields)
  /\ IF device < Len(device_ids)
       THEN device' = device + 1 /\ Goto("device_info", 1)
       ELSE device' = 1 /\ Goto("show", 0)
  /\ UNCHANGED <<machine, routine, platform, platform_fields, device_ids, ciErr1, failures, shown>>

ShowAnd(next_devices) ==
  /\ At("show", 0)
  /\ shown' = Append(shown, [platform |-> platform_fields, devices |-> devices])
  /\ IF routine = "display_opencl_info" /\ platform < Len(machine)
       THEN /\ platform' = platform + 1
            /\ devices' = next_devices
            /\ Goto("platform_info", 1)
       ELSE Goto("done", 0) /\ UNCHANGED <<platform, devices>>
  /\ UNCHANGED <<machine, routine, platform_fields, device_fields, device_ids, device, ciErr1, failures>>

\* A slip in Show: the vector is not cleared for the next platform.
ShowUncleared == ShowAnd(devices)

Show == ShowAnd(<<>>)

Ended == host_pc.at \in {"done", "threw"} /\ UNCHANGED vars

Next ==
  \/ GetPlatforms
  \/ \E i \in DOMAIN PlatformFields : PlatformField(i)
  \/ GetDeviceIds
  \/ \E i \in DOMAIN DeviceFields : DeviceField(i)
  \/ PushBack \/ Show
  \/ Ended

Spec == Init /\ [][Next]_vars

-----------------------------------------------------------------------------
(* Properties *)

\* What is shown of a platform or a device, or stored by init, is its own: no field of the
\* platform before it, and none whose query failed.
OnlyOwnFields ==
  \A n \in DOMAIN shown :
    /\ \A f \in DOMAIN shown[n].platform : shown[n].platform[f] = n
    /\ \A j \in DOMAIN shown[n].devices : \A f \in DOMAIN shown[n].devices[j] :
         /\ shown[n].devices[j][f] \in Range(machine[n])
         /\ shown[n].devices[j][f] = shown[n].devices[j]["name"]

\* A listing that ends shows every platform with all its devices, in order, each once; init
\* binds a GPU of the first platform.
ListsEverything ==
  host_pc.at = "done" =>
    IF routine = "init"
      THEN /\ Len(shown) = 1 /\ Len(shown[1].devices) = 1
           /\ shown[1].devices[1]["name"] \in Range(machine[1]) \intersect Gpus
      ELSE /\ Len(shown) = Len(machine)
           /\ \A n \in DOMAIN machine :
                [j \in DOMAIN shown[n].devices |-> shown[n].devices[j]["name"]] = machine[n]

\* When all the calls that failed before a check failed alike, the code reported, by number
\* and by name, is theirs; but that no platform was found has no name, its line in the table
\* being commented out (UtilsOpenCL.cpp:168): "unknown error code" is what is said.  Different
\* codes mix: -33 and -30 are reported as -1, CL_DEVICE_NOT_FOUND.
CodeReportedWasReturned ==
  host_pc.at = "threw" =>
    /\ failures # {}
    /\ \A e \in failures :
         failures = {e} =>
           /\ ciErr1 = e
           /\ get_opencl_error_str(ciErr1) = IF e = CL_PLATFORM_NOT_FOUND_KHR THEN {} ELSE {e}

=============================================================================
