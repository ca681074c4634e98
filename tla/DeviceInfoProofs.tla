-------------------------- MODULE DeviceInfoProofs --------------------------
(***************************************************************************)
(* What is shown is its own, complete, and an error is what a query gave,  *)
(* for machines of any number of platforms and devices and for any codes.  *)
(***************************************************************************)
EXTENDS DeviceInfo, SequenceTheorems, TLAPS

-----------------------------------------------------------------------------
(* The inductive invariant *)

OwnPlatform(p) == [f \in Range(PlatformFields) |-> p]
OwnDevice(d) == [f \in Range(DeviceFields) |-> d]

\* The first n devices of ids, each in a DeviceInfo of its own.
Infos(ids, n) == [j \in 1 .. n |-> OwnDevice(ids[j])]

\* What is to be shown of platform p when clGetDeviceIDs answers ids.
Entry(p, ids) == [platform |-> OwnPlatform(p), devices |-> Infos(ids, Len(ids))]
Entries == UNION {{Entry(p, ids) : ids \in Answers(p)} : p \in DOMAIN machine}

Positions ==
  {[at |-> what, i |-> 0] :
     what \in {"platforms", "device_ids", "push_back", "show", "done", "threw"}}
  \union {[at |-> "platform_info", i |-> n] : n \in DOMAIN PlatformFields}
  \union {[at |-> "device_info", i |-> n] : n \in DOMAIN DeviceFields}

PlaceInv ==
  /\ machine \in Machines /\ routine \in {"display_opencl_info", "init"}
  /\ host_pc \in Positions
  /\ platform \in 1 .. Len(machine) + 1
  /\ host_pc.at \notin {"platforms", "threw"} => platform \in DOMAIN machine
  /\ routine = "init" \/ host_pc.at = "platforms" => platform = 1
  /\ host_pc.at = "done" => routine = "init" \/ platform = Len(machine)

\* The codes: none failed, or they are those of the calls that failed.
ErrInv ==
  /\ \/ ciErr1 \in -64 .. 0 /\ failures \subseteq ErrorCodes \ {CL_SUCCESS}
     \/ ciErr1 \in Int /\ failures \subseteq {CL_PLATFORM_NOT_FOUND_KHR} /\ host_pc.at = "threw"
  /\ ciErr1 = CL_SUCCESS <=> failures = {}
  /\ \A e \in failures : failures = {e} => ciErr1 = e
  /\ host_pc.at = "threw" => failures # {}

\* Fields are filled one after the other, until one fails.
FieldsInv ==
  /\ platform_fields = [f \in Range(PlatformFields) |-> platform_fields[f]]
  /\ device_fields = [f \in Range(DeviceFields) |-> device_fields[f]]
  /\ host_pc.at = "platform_info" =>
       \A j \in 1 .. host_pc.i - 1 :
         ciErr1 = CL_SUCCESS => platform_fields[PlatformFields[j]] = platform
  /\ host_pc.at \in {"device_ids", "device_info", "push_back", "show"} =>
       platform_fields = OwnPlatform(platform)
  /\ host_pc.at = "device_info" =>
       \A j \in 1 .. host_pc.i - 1 :
         ciErr1 = CL_SUCCESS => device_fields[DeviceFields[j]] = Current
  /\ host_pc.at = "push_back" => device_fields = OwnDevice(Current)

\* The vector holds the devices before the one it has got to.
VectorInv ==
  /\ host_pc.at \in {"platforms", "platform_info", "device_ids", "show"} => device = 1
  /\ host_pc.at \in {"platforms", "platform_info", "device_ids"} => devices = <<>>
  /\ host_pc.at \in {"device_info", "push_back", "show"} => device_ids \in Answers(platform)
  /\ host_pc.at \in {"device_info", "push_back"} =>
       device \in 1 .. Len(device_ids) /\ devices = Infos(device_ids, device - 1)
  /\ host_pc.at = "show" => devices = Infos(device_ids, Len(device_ids))

ShownInv ==
  /\ shown \in Seq(Entries)
  /\ Len(shown) = (IF host_pc.at = "done" THEN platform ELSE platform - 1)
  /\ \A n \in DOMAIN shown : \E ids \in Answers(n) : shown[n] = Entry(n, ids)

InfoInv == PlaceInv /\ ErrInv /\ FieldsInv /\ VectorInv /\ ShownInv

-----------------------------------------------------------------------------
(* Codes *)

LEMMA CodesAreSmall == ErrorCodes \subseteq -64 .. 0 /\ CL_SUCCESS \in ErrorCodes
  BY DEF ErrorCodes, CL_SUCCESS

\* A code is the sum of its bits, as BitOr takes them.
LEMMA BitsOfCode ==
  ASSUME NEW a \in -64 .. 0
  PROVE  BitOr(a, a) = a
<1>. DEFINE B(w) == IF (a \div w) % 2 = 1 THEN w ELSE 0
<1>1. BitOr(a, a) = B(1) + B(2) + B(4) + B(8) + B(16) + B(32) - B(64)
  BY DEF BitOr
<1>2. /\ (a \div 1) = a /\ (a \div 2) = 2 * (a \div 4) + ((a \div 2) % 2)
      /\ a = 2 * (a \div 2) + (a % 2)
      /\ (a \div 4) = 2 * (a \div 8) + ((a \div 4) % 2)
      /\ (a \div 8) = 2 * (a \div 16) + ((a \div 8) % 2)
      /\ (a \div 16) = 2 * (a \div 32) + ((a \div 16) % 2)
      /\ (a \div 32) = 2 * (a \div 64) + ((a \div 32) % 2)
  OBVIOUS
<1>3. (a \div 64) = -((a \div 64) % 2)
  OBVIOUS
<1>4. /\ B(1) = a % 2 /\ B(2) = 2 * ((a \div 2) % 2)
      /\ B(4) = 4 * ((a \div 4) % 2) /\ B(8) = 8 * ((a \div 8) % 2)
      /\ B(16) = 16 * ((a \div 16) % 2) /\ B(32) = 32 * ((a \div 32) % 2)
      /\ B(64) = 64 * ((a \div 64) % 2)
  BY <1>2
<1>. QED
  BY <1>1, <1>2, <1>3, <1>4

\* No failure gets lost in joining two codes, and none appears.
LEMMA BitOrFacts ==
  ASSUME NEW a \in -64 .. 0, NEW b \in -64 .. 0
  PROVE  /\ BitOr(a, b) \in -64 .. 0
         /\ BitOr(a, b) = 0 <=> a = 0 /\ b = 0
         /\ a = 0 => BitOr(a, b) = b
         /\ b = 0 => BitOr(a, b) = a
<1>. DEFINE B(x, w) == IF (x \div w) % 2 = 1 THEN w ELSE 0
            J(w) == IF (a \div w) % 2 = 1 \/ (b \div w) % 2 = 1 THEN w ELSE 0
<1>1. BitOr(a, b) = J(1) + J(2) + J(4) + J(8) + J(16) + J(32) - J(64)
  BY DEF BitOr
<1>2. J(1) + J(2) + J(4) + J(8) + J(16) + J(32) \in 0 .. 63
  OBVIOUS
<1>3. ASSUME NEW x \in -64 .. 0 PROVE (x \div 64) % 2 = 1 <=> x < 0
  BY <1>3
<1>4. J(64) = IF a = 0 /\ b = 0 THEN 0 ELSE 64
  BY <1>3
<1>5. a = 0 => BitOr(a, b) = BitOr(b, b)
  BY DEF BitOr
<1>6. b = 0 => BitOr(a, b) = BitOr(a, a)
  BY DEF BitOr
<1>7. a = 0 /\ b = 0 => BitOr(a, b) = 0
  BY <1>5, BitsOfCode
<1>. QED
  BY <1>1, <1>2, <1>4, <1>5, <1>6, <1>7, BitsOfCode

\* What a query leaves in the code and the failures keeps them in agreement.
LEMMA AccumulateKeepsErrInv ==
  ASSUME ErrInv, host_pc.at # "threw", NEW i \in Nat, NEW code \in {CL_SUCCESS} \union Codes,
         ciErr1' = Accumulated(i, code), failures' = FailuresWith(i, code)
  PROVE  /\ ciErr1' \in -64 .. 0
         /\ failures' \subseteq ErrorCodes \ {CL_SUCCESS}
         /\ ciErr1' = CL_SUCCESS <=> failures' = {}
         /\ \A e \in failures' : failures' = {e} => ciErr1' = e
         /\ i # 1 /\ ciErr1' = CL_SUCCESS => ciErr1 = CL_SUCCESS
         /\ ciErr1' = CL_SUCCESS => code = CL_SUCCESS
<1>1. code \in -64 .. 0 /\ (code = CL_SUCCESS \/ code \in ErrorCodes \ {CL_SUCCESS})
  BY CodesAreSmall, InfoAssumption
<1>2. CASE i = 1
  BY <1>1, <1>2 DEF Accumulated, FailuresWith
<1>3. CASE i # 1
  <2>1. ciErr1' = BitOr(ciErr1, code)
    BY <1>3 DEF Accumulated
  <2>2. failures' = failures \union (IF code = CL_SUCCESS THEN {} ELSE {code})
    BY <1>3 DEF FailuresWith
  <2>3. /\ ciErr1' \in -64 .. 0
        /\ ciErr1' = CL_SUCCESS <=> ciErr1 = CL_SUCCESS /\ code = CL_SUCCESS
        /\ ciErr1 = CL_SUCCESS => ciErr1' = code
        /\ code = CL_SUCCESS => ciErr1' = ciErr1
    <3>1. ciErr1 \in -64 .. 0
      BY DEF ErrInv
    <3>2. /\ BitOr(ciErr1, code) \in -64 .. 0
          /\ BitOr(ciErr1, code) = 0 <=> ciErr1 = 0 /\ code = 0
          /\ ciErr1 = 0 => BitOr(ciErr1, code) = code
          /\ code = 0 => BitOr(ciErr1, code) = ciErr1
      BY <1>1, <3>1, BitOrFacts
    <3>. QED BY <2>1, <3>2 DEF CL_SUCCESS
  <2>4. ASSUME NEW e \in failures', failures' = {e}
        PROVE  ciErr1' = e
    <3>1. CASE code = CL_SUCCESS
      <4>1. failures' = failures /\ ciErr1' = ciErr1
        BY <2>2, <2>3, <3>1
      <4>2. failures = {e}
        BY <2>4, <4>1
      <4>. QED BY <4>1, <4>2 DEF ErrInv
    <3>2. CASE code # CL_SUCCESS /\ failures = {}
      BY <2>2, <2>3, <2>4, <3>2 DEF ErrInv
    <3>3. CASE code # CL_SUCCESS /\ failures # {}
      <4>1. failures = {code} /\ e = code
        BY <2>2, <2>4, <3>3
      <4>2. ciErr1 = code
        BY <4>1 DEF ErrInv
      <4>3. BitOr(code, code) = code
        BY <1>1, BitsOfCode
      <4>. QED BY <2>1, <4>1, <4>2, <4>3
    <3>. QED BY <3>1, <3>2, <3>3
  <2>5. failures' \subseteq ErrorCodes \ {CL_SUCCESS}
    BY <1>1, <2>2 DEF ErrInv
  <2>6. failures' = {} <=> failures = {} /\ code = CL_SUCCESS
    BY <2>2
  <2>. QED BY <2>3, <2>4, <2>5, <2>6 DEF ErrInv
<1>. QED
  BY <1>2, <1>3

-----------------------------------------------------------------------------
(* Every step keeps InfoInv *)

LEMMA FieldFacts ==
  /\ DOMAIN PlatformFields = 1 .. 3 /\ Len(PlatformFields) = 3
  /\ DOMAIN DeviceFields = 1 .. 7 /\ Len(DeviceFields) = 7
  /\ \A f \in Range(PlatformFields) : \E j \in 1 .. 3 : f = PlatformFields[j]
  /\ \A f \in Range(DeviceFields) : \E j \in 1 .. 7 : f = DeviceFields[j]
  /\ \A j \in 1 .. 3 : PlatformFields[j] \in Range(PlatformFields)
  /\ \A j \in 1 .. 7 : DeviceFields[j] \in Range(DeviceFields)
<1>1. /\ DOMAIN PlatformFields = 1 .. 3 /\ Len(PlatformFields) = 3
      /\ DOMAIN DeviceFields = 1 .. 7 /\ Len(DeviceFields) = 7
  BY DEF PlatformFields, DeviceFields
<1>. QED
  BY <1>1 DEF Range

LEMMA PositionFacts ==
  ASSUME host_pc \in Positions
  PROVE  /\ \A what, i : At(what, i) => host_pc.at = what /\ host_pc.i = i
         /\ host_pc = [at |-> host_pc.at, i |-> host_pc.i]
  BY DEF Positions, At

LEMMA Positioned ==
  ASSUME NEW what \in {"platforms", "device_ids", "push_back", "show", "done", "threw"},
         NEW n \in 1 .. 3, NEW k \in 1 .. 7
  PROVE  /\ [at |-> what, i |-> 0] \in Positions
         /\ [at |-> "platform_info", i |-> n] \in Positions
         /\ [at |-> "device_info", i |-> k] \in Positions
  BY FieldFacts DEF Positions

LEMMA MachineFacts ==
  ASSUME PlaceInv
  PROVE  /\ DOMAIN machine = 1 .. Len(machine) /\ Len(machine) \in Nat
         /\ machine # <<>> => Len(machine) # 0
         /\ \A p \in DOMAIN machine : machine[p] \in Seq(UNION {Range(q) : q \in Range(machine)})
         /\ platform \in Nat \ {0}
<1>. DEFINE S == UNION {Range(p) : p \in Range(machine)}
<1>1. machine \in Seq(Seq(S))
  BY InfoAssumption DEF PlaceInv
<1>2. /\ DOMAIN machine = 1 .. Len(machine) /\ Len(machine) \in Nat
      /\ machine # <<>> => Len(machine) # 0
  BY <1>1, EmptySeq
<1>3. platform \in Nat \ {0}
  <2>1. Len(machine) \in Nat
    BY <1>2
  <2>2. platform \in 1 .. Len(machine) + 1
    BY DEF PlaceInv
  <2>. QED BY <2>1, <2>2
<1>4. \A p \in DOMAIN machine : machine[p] \in Seq(S)
  BY <1>1
<1>. QED
  BY <1>1, <1>2, <1>3, <1>4

\* An answer is a list of devices of the platform.
LEMMA AnswerFacts ==
  ASSUME PlaceInv, NEW p \in DOMAIN machine, NEW ids \in Answers(p)
  PROVE  /\ ids \in Seq(Range(machine[p]))
         /\ Len(ids) \in Nat \ {0}
         /\ routine = "init" => Len(ids) = 1 /\ ids[1] \in Range(machine[p]) \intersect Gpus
         /\ routine # "init" => ids = machine[p]
<1>1. CASE routine = "init"
  <2>1. PICK d \in Range(machine[p]) \intersect Gpus : ids = <<d>>
    BY <1>1 DEF Answers
  <2>. QED BY <1>1, <2>1
<1>2. CASE routine # "init"
  <2>. DEFINE S == UNION {Range(q) : q \in Range(machine)}
  <2>1. ids = machine[p] /\ ids # <<>>
    BY <1>2 DEF Answers
  <2>2. ids \in Seq(S)
    BY <2>1, MachineFacts
  <2>3. ids \in Seq(Range(ids)) /\ Len(ids) \in Nat \ {0}
    BY <2>1, <2>2, EmptySeq DEF Range
  <2>. QED BY <1>2, <2>1, <2>3
<1>. QED
  BY <1>1, <1>2

\* What a list of answers is shown as.
LEMMA InfosFacts ==
  ASSUME NEW ids, NEW n \in Nat
  PROVE  /\ Infos(ids, n) \in Seq({OwnDevice(ids[j]) : j \in 1 .. n})
         /\ Len(Infos(ids, n)) = n
         /\ Append(Infos(ids, n), OwnDevice(ids[n + 1])) = Infos(ids, n + 1)
         /\ Infos(ids, 0) = <<>>
<1>. DEFINE S == {OwnDevice(ids[j]) : j \in 1 .. n + 1}
<1>1. /\ Infos(ids, n) \in Seq({OwnDevice(ids[j]) : j \in 1 .. n})
      /\ Infos(ids, n) \in Seq(S) /\ Len(Infos(ids, n)) = n
  BY DEF Infos
<1>2. Infos(ids, n + 1) \in Seq(S) /\ Len(Infos(ids, n + 1)) = n + 1
  BY DEF Infos
<1>3. OwnDevice(ids[n + 1]) \in S
  OBVIOUS
<1>4. Append(Infos(ids, n), OwnDevice(ids[n + 1])) = Infos(ids, n + 1)
  <2>. DEFINE s == Append(Infos(ids, n), OwnDevice(ids[n + 1]))
  <2>1. /\ s \in Seq(S) /\ Len(s) = n + 1
        /\ \A j \in 1 .. n : s[j] = Infos(ids, n)[j]
        /\ s[n + 1] = OwnDevice(ids[n + 1])
    BY <1>1, <1>3, AppendProperties
  <2>2. \A j \in 1 .. n + 1 : s[j] = Infos(ids, n + 1)[j]
    BY <2>1 DEF Infos
  <2>. QED BY <1>2, <2>1, <2>2, SeqEqual
<1>5. Infos(ids, 0) = <<>>
  BY DEF Infos
<1>. QED
  BY <1>1, <1>4, <1>5

LEMMA InitInv == Init => InfoInv
<1>. SUFFICES ASSUME Init PROVE InfoInv
  OBVIOUS
<1>1. host_pc \in Positions /\ host_pc.at = "platforms"
  BY Positioned DEF Init
<1>2. platform = 1 /\ platform \in 1 .. Len(machine) + 1
  <2>. DEFINE S == Seq(UNION {Range(p) : p \in Range(machine)})
  <2>1. machine \in Seq(S) /\ platform = 1
    BY InfoAssumption DEF Init
  <2>. QED BY <2>1
<1>3. PlaceInv
  BY <1>1, <1>2 DEF Init, PlaceInv
<1>4. ErrInv
  BY <1>1 DEF Init, ErrInv, CL_SUCCESS
<1>5. FieldsInv
  BY <1>1 DEF Init, FieldsInv, FieldsUnset
<1>6. VectorInv
  BY <1>1 DEF Init, VectorInv
<1>7. ShownInv
  BY <1>1 DEF Init, ShownInv
<1>. QED
  BY <1>3, <1>4, <1>5, <1>6, <1>7 DEF InfoInv

LEMMA FailStep ==
  ASSUME InfoInv, NEW e \in Codes \union {CL_DEVICE_NOT_FOUND, CL_PLATFORM_NOT_FOUND_KHR},
         Fail(e), host_pc.at # "done"
  PROVE  InfoInv'
<1>1. \/ e \in ErrorCodes \ {CL_SUCCESS} /\ e \in -64 .. 0
      \/ e = CL_PLATFORM_NOT_FOUND_KHR /\ e \in Int /\ e # CL_SUCCESS
  BY InfoAssumption, CodesAreSmall
     DEF ErrorCodes, CL_SUCCESS, CL_DEVICE_NOT_FOUND, CL_PLATFORM_NOT_FOUND_KHR
<1>2. host_pc' = [at |-> "threw", i |-> 0] /\ host_pc'.at = "threw" /\ host_pc' \in Positions
  BY Positioned DEF Fail, Goto
<1>3. ErrInv'
  BY <1>1, <1>2 DEF Fail, ErrInv
<1>4. PlaceInv'
  BY <1>2 DEF Fail, InfoInv, PlaceInv
<1>5. FieldsInv'
  BY <1>2 DEF Fail, info, InfoInv, FieldsInv
<1>6. VectorInv'
  BY <1>2 DEF Fail, info, InfoInv, VectorInv
<1>7. ShownInv'
  BY <1>2 DEF Fail, InfoInv, ShownInv, Entries, Answers
<1>. QED
  BY <1>3, <1>4, <1>5, <1>6, <1>7 DEF InfoInv

LEMMA GetPlatformsStep == InfoInv /\ GetPlatforms => InfoInv'
<1>. SUFFICES ASSUME InfoInv, GetPlatforms PROVE InfoInv'
  OBVIOUS
<1>1. host_pc.at = "platforms"
  BY DEF GetPlatforms, At
<1>2. CASE \E e \in Codes \union {CL_PLATFORM_NOT_FOUND_KHR} : Fail(e)
  BY <1>1, <1>2, FailStep
<1>3. CASE /\ machine # <<>>
           /\ Goto("platform_info", 1)
           /\ UNCHANGED <<machine, routine, platform, info, ciErr1, failures, shown>>
  <2>1. host_pc'.at = "platform_info" /\ host_pc'.i = 1 /\ host_pc' \in Positions
    BY <1>3, Positioned DEF Goto
  <2>2. PlaceInv'
    <3>1. platform = 1
      BY <1>1 DEF InfoInv, PlaceInv
    <3>2. platform \in DOMAIN machine
      BY <1>3, <3>1, MachineFacts DEF InfoInv
    <3>. QED BY <1>3, <2>1, <3>2 DEF InfoInv, PlaceInv
  <2>3. ErrInv'
    BY <1>1, <1>3, <2>1 DEF InfoInv, ErrInv
  <2>4. FieldsInv'
    BY <1>3, <2>1 DEF info, InfoInv, FieldsInv
  <2>5. VectorInv'
    BY <1>1, <1>3, <2>1 DEF info, InfoInv, VectorInv
  <2>6. ShownInv'
    BY <1>1, <1>3, <2>1 DEF InfoInv, ShownInv, Entries, Answers
  <2>. QED BY <2>2, <2>3, <2>4, <2>5, <2>6 DEF InfoInv
<1>. QED
  BY <1>2, <1>3 DEF GetPlatforms

LEMMA PlatformFieldStep ==
  ASSUME InfoInv, NEW i \in DOMAIN PlatformFields, PlatformField(i)
  PROVE  InfoInv'
<1>1. /\ i \in 1 .. 3 /\ host_pc.at = "platform_info" /\ host_pc.i = i
  BY FieldFacts DEF PlatformField, At
<1>2. PICK code \in {CL_SUCCESS} \union Codes :
        /\ ciErr1' = Accumulated(i, code) /\ failures' = FailuresWith(i, code)
        /\ IF code = CL_SUCCESS
             THEN platform_fields' = [platform_fields EXCEPT ![PlatformFields[i]] = platform]
             ELSE UNCHANGED platform_fields
  BY DEF PlatformField
<1>3. UNCHANGED <<machine, routine, platform, device_fields, device_ids, device, devices, shown>>
  BY DEF PlatformField
<1>4. /\ ciErr1' \in -64 .. 0
      /\ failures' \subseteq ErrorCodes \ {CL_SUCCESS}
      /\ ciErr1' = CL_SUCCESS <=> failures' = {}
      /\ \A e \in failures' : failures' = {e} => ciErr1' = e
      /\ i # 1 /\ ciErr1' = CL_SUCCESS => ciErr1 = CL_SUCCESS
      /\ ciErr1' = CL_SUCCESS => code = CL_SUCCESS
  BY <1>1, <1>2, AccumulateKeepsErrInv DEF InfoInv
\* The fields up to this one are the platform's, when none has failed.
<1>5. /\ platform_fields' = [f \in Range(PlatformFields) |-> platform_fields'[f]]
      /\ \A j \in 1 .. i : ciErr1' = CL_SUCCESS => platform_fields'[PlatformFields[j]] = platform
  <2>1. platform_fields' = [f \in Range(PlatformFields) |-> platform_fields'[f]]
    BY <1>2 DEF InfoInv, FieldsInv
  <2>2. ASSUME NEW j \in 1 .. i, ciErr1' = CL_SUCCESS
        PROVE  platform_fields'[PlatformFields[j]] = platform
    <3>1. platform_fields' = [platform_fields EXCEPT ![PlatformFields[i]] = platform]
      BY <1>2, <1>4, <2>2
    <3>2. PlatformFields[j] \in DOMAIN platform_fields
      BY <1>1, FieldFacts DEF InfoInv, FieldsInv
    <3>3. CASE j = i
      BY <3>1, <3>2, <3>3
    <3>4. CASE j # i
      <4>1. j \in 1 .. i - 1 /\ i # 1 /\ ciErr1 = CL_SUCCESS
        BY <1>1, <1>4, <2>2, <3>4
      <4>2. platform_fields[PlatformFields[j]] = platform
        BY <1>1, <4>1 DEF InfoInv, FieldsInv
      <4>. QED BY <3>1, <3>2, <4>2
    <3>. QED BY <3>3, <3>4
  <2>. QED BY <2>1, <2>2
<1>6. \/ i < 3 /\ Goto("platform_info", i + 1)
      \/ ciErr1' # CL_SUCCESS /\ Goto("threw", 0)
      \/ i = 3 /\ ciErr1' = CL_SUCCESS /\ Goto("device_ids", 0)
  BY <1>1, FieldFacts DEF PlatformField
<1>7. /\ host_pc' \in Positions
      /\ \/ host_pc'.at = "platform_info" /\ host_pc'.i = i + 1
         \/ host_pc'.at = "threw" /\ ciErr1' # CL_SUCCESS
         \/ host_pc'.at = "device_ids" /\ i = 3 /\ ciErr1' = CL_SUCCESS
  BY <1>1, <1>6, Positioned DEF Goto
<1>8. PlaceInv'
  BY <1>1, <1>3, <1>7 DEF InfoInv, PlaceInv
<1>9. ErrInv'
  BY <1>4, <1>7 DEF ErrInv
<1>10. FieldsInv'
  <2>1. ASSUME i = 3, ciErr1' = CL_SUCCESS
        PROVE  platform_fields' = OwnPlatform(platform)
    <3>1. \A f \in Range(PlatformFields) : platform_fields'[f] = platform
      BY <1>5, <2>1, FieldFacts
    <3>. QED BY <1>5, <3>1 DEF OwnPlatform
  <2>2. device_fields' = [f \in Range(DeviceFields) |-> device_fields'[f]]
    BY <1>3 DEF InfoInv, FieldsInv
  <2>. QED BY <1>1, <1>3, <1>5, <1>7, <2>1, <2>2 DEF FieldsInv
<1>11. VectorInv'
  BY <1>1, <1>3, <1>7 DEF InfoInv, VectorInv
<1>12. ShownInv'
  BY <1>1, <1>3, <1>7 DEF InfoInv, ShownInv, Entries, Answers
<1>. QED
  BY <1>8, <1>9, <1>10, <1>11, <1>12 DEF InfoInv

LEMMA GetDeviceIdsStep == InfoInv /\ GetDeviceIds => InfoInv'
<1>. SUFFICES ASSUME InfoInv, GetDeviceIds PROVE InfoInv'
  OBVIOUS
<1>1. host_pc.at = "device_ids"
  BY DEF GetDeviceIds, At
<1>2. CASE \E e \in Codes \union {CL_DEVICE_NOT_FOUND} : Fail(e)
  BY <1>1, <1>2, FailStep
<1>3. CASE /\ device_ids' \in Answers(platform)
           /\ Goto("device_info", 1)
           /\ UNCHANGED <<machine, routine, platform, platform_fields, device_fields, device,
                          devices, ciErr1, failures, shown>>
  <2>1. host_pc'.at = "device_info" /\ host_pc'.i = 1 /\ host_pc' \in Positions
    BY <1>3, Positioned DEF Goto
  <2>2. PlaceInv'
    BY <1>1, <1>3, <2>1 DEF InfoInv, PlaceInv
  <2>3. ErrInv'
    BY <1>1, <1>3, <2>1 DEF InfoInv, ErrInv
  <2>4. FieldsInv'
    BY <1>1, <1>3, <2>1 DEF InfoInv, FieldsInv
  <2>5. VectorInv'
    <3>1. device' = 1 /\ devices' = <<>>
      BY <1>1, <1>3 DEF InfoInv, VectorInv
    <3>2. device_ids' \in Answers(platform)' /\ Len(device_ids') \in Nat \ {0}
      BY <1>3, AnswerFacts DEF InfoInv, PlaceInv, Answers
    <3>3. Infos(device_ids', 0) = <<>>
      BY InfosFacts
    <3>. QED BY <2>1, <3>1, <3>2, <3>3 DEF VectorInv, Infos
  <2>6. ShownInv'
    BY <1>1, <1>3, <2>1 DEF InfoInv, ShownInv, Entries, Answers
  <2>. QED BY <2>2, <2>3, <2>4, <2>5, <2>6 DEF InfoInv
<1>. QED
  BY <1>2, <1>3 DEF GetDeviceIds

LEMMA DeviceFieldStep ==
  ASSUME InfoInv, NEW i \in DOMAIN DeviceFields, DeviceField(i)
  PROVE  InfoInv'
<1>1. /\ i \in 1 .. 7 /\ host_pc.at = "device_info" /\ host_pc.i = i
  BY FieldFacts DEF DeviceField, At
<1>2. PICK code \in {CL_SUCCESS} \union Codes :
        /\ ciErr1' = Accumulated(i, code) /\ failures' = FailuresWith(i, code)
        /\ IF code = CL_SUCCESS
             THEN device_fields' = [device_fields EXCEPT ![DeviceFields[i]] = Current]
             ELSE UNCHANGED device_fields
  BY DEF DeviceField
<1>3. /\ UNCHANGED <<machine, routine, platform, platform_fields, device_ids, device, devices, shown>>
      /\ UNCHANGED Current
  BY DEF DeviceField, Current
<1>4. /\ ciErr1' \in -64 .. 0
      /\ failures' \subseteq ErrorCodes \ {CL_SUCCESS}
      /\ ciErr1' = CL_SUCCESS <=> failures' = {}
      /\ \A e \in failures' : failures' = {e} => ciErr1' = e
      /\ i # 1 /\ ciErr1' = CL_SUCCESS => ciErr1 = CL_SUCCESS
      /\ ciErr1' = CL_SUCCESS => code = CL_SUCCESS
  BY <1>1, <1>2, AccumulateKeepsErrInv DEF InfoInv
\* The fields up to this one are the device's, when none has failed.
<1>5. /\ device_fields' = [f \in Range(DeviceFields) |-> device_fields'[f]]
      /\ \A j \in 1 .. i : ciErr1' = CL_SUCCESS => device_fields'[DeviceFields[j]] = Current
  <2>1. device_fields' = [f \in Range(DeviceFields) |-> device_fields'[f]]
    BY <1>2 DEF InfoInv, FieldsInv
  <2>2. ASSUME NEW j \in 1 .. i, ciErr1' = CL_SUCCESS
        PROVE  device_fields'[DeviceFields[j]] = Current
    <3>1. device_fields' = [device_fields EXCEPT ![DeviceFields[i]] = Current]
      BY <1>2, <1>4, <2>2
    <3>2. DeviceFields[j] \in DOMAIN device_fields
      BY <1>1, FieldFacts DEF InfoInv, FieldsInv
    <3>3. CASE j = i
      BY <3>1, <3>2, <3>3
    <3>4. CASE j # i
      <4>1. j \in 1 .. i - 1 /\ i # 1 /\ ciErr1 = CL_SUCCESS
        BY <1>1, <1>4, <2>2, <3>4
      <4>2. device_fields[DeviceFields[j]] = Current
        BY <1>1, <4>1 DEF InfoInv, FieldsInv
      <4>. QED BY <3>1, <3>2, <4>2
    <3>. QED BY <3>3, <3>4
  <2>. QED BY <2>1, <2>2
<1>6. \/ i < 7 /\ Goto("device_info", i + 1)
      \/ ciErr1' # CL_SUCCESS /\ Goto("threw", 0)
      \/ i = 7 /\ ciErr1' = CL_SUCCESS /\ Goto("push_back", 0)
  BY <1>1, FieldFacts DEF DeviceField
<1>7. /\ host_pc' \in Positions
      /\ \/ host_pc'.at = "device_info" /\ host_pc'.i = i + 1
         \/ host_pc'.at = "threw" /\ ciErr1' # CL_SUCCESS
         \/ host_pc'.at = "push_back" /\ i = 7 /\ ciErr1' = CL_SUCCESS
  BY <1>1, <1>6, Positioned DEF Goto
<1>8. PlaceInv'
  BY <1>1, <1>3, <1>7 DEF InfoInv, PlaceInv
<1>9. ErrInv'
  BY <1>4, <1>7 DEF ErrInv
<1>10. FieldsInv'
  <2>1. ASSUME i = 7, ciErr1' = CL_SUCCESS
        PROVE  device_fields' = OwnDevice(Current)
    <3>1. \A f \in Range(DeviceFields) : device_fields'[f] = Current
      BY <1>5, <2>1, FieldFacts
    <3>. QED BY <1>5, <3>1 DEF OwnDevice
  <2>2. /\ platform_fields' = [f \in Range(PlatformFields) |-> platform_fields'[f]]
        /\ platform_fields' = OwnPlatform(platform')
    BY <1>1, <1>3 DEF InfoInv, FieldsInv
  <2>3. host_pc'.at = "device_info" =>
          \A j \in 1 .. host_pc'.i - 1 :
            ciErr1' = CL_SUCCESS => device_fields'[DeviceFields[j]] = Current'
    <3>1. Current' = Current
      BY <1>3
    <3>2. host_pc'.at = "device_info" => host_pc'.i - 1 = i
      BY <1>1, <1>7
    <3>. QED BY <1>5, <3>1, <3>2
  <2>4. host_pc'.at = "push_back" => device_fields' = OwnDevice(Current')
    BY <1>3, <1>7, <2>1
  <2>5. host_pc'.at # "platform_info"
    BY <1>7
  <2>. QED BY <1>5, <2>2, <2>3, <2>4, <2>5 DEF FieldsInv
<1>11. VectorInv'
  BY <1>1, <1>3, <1>7 DEF InfoInv, VectorInv, Answers
<1>12. ShownInv'
  BY <1>1, <1>3, <1>7 DEF InfoInv, ShownInv, Entries, Answers
<1>. QED
  BY <1>8, <1>9, <1>10, <1>11, <1>12 DEF InfoInv

LEMMA PushBackStep == InfoInv /\ PushBack => InfoInv'
<1>. SUFFICES ASSUME InfoInv, PushBack PROVE InfoInv'
  OBVIOUS
<1>1. host_pc.at = "push_back"
  BY DEF PushBack, At
<1>2. UNCHANGED <<machine, routine, platform, platform_fields, device_ids, ciErr1, failures, shown>>
  BY DEF PushBack
<1>3. /\ device_ids \in Answers(platform) /\ Len(device_ids) \in Nat \ {0}
      /\ device \in 1 .. Len(device_ids) /\ devices = Infos(device_ids, device - 1)
  BY <1>1, AnswerFacts DEF InfoInv, VectorInv, PlaceInv
<1>4. devices' = Infos(device_ids, device)
  <2>1. devices' = Append(Infos(device_ids, device - 1), OwnDevice(device_ids[device]))
    BY <1>1, <1>3 DEF PushBack, InfoInv, FieldsInv, Current
  <2>2. device - 1 \in Nat /\ (device - 1) + 1 = device
    BY <1>3
  <2>. QED BY <2>1, <2>2, InfosFacts
<1>5. /\ host_pc' \in Positions
      /\ \/ /\ device < Len(device_ids) /\ device' = device + 1
            /\ host_pc'.at = "device_info" /\ host_pc'.i = 1
         \/ device = Len(device_ids) /\ device' = 1 /\ host_pc'.at = "show"
  BY <1>3, Positioned DEF PushBack, Goto
<1>6. PlaceInv'
  BY <1>1, <1>2, <1>5 DEF InfoInv, PlaceInv
<1>7. ErrInv'
  BY <1>1, <1>2, <1>5 DEF InfoInv, ErrInv
<1>8. FieldsInv'
  <2>1. device_fields' = [f \in Range(DeviceFields) |-> device_fields'[f]]
    BY DEF PushBack, FieldsUnset
  <2>2. /\ platform_fields' = [f \in Range(PlatformFields) |-> platform_fields'[f]]
        /\ platform_fields' = OwnPlatform(platform')
    BY <1>1, <1>2 DEF InfoInv, FieldsInv
  <2>3. host_pc'.at # "platform_info" /\ host_pc'.at # "push_back"
    BY <1>5
  <2>4. host_pc'.at = "device_info" => 1 .. host_pc'.i - 1 = {}
    BY <1>5
  <2>. QED BY <2>1, <2>2, <2>3, <2>4 DEF FieldsInv
<1>9. VectorInv'
  <2>1. device_ids' \in Answers(platform)'
    BY <1>2, <1>3 DEF Answers
  <2>2. device < Len(device_ids) => device + 1 \in 1 .. Len(device_ids) /\ (device + 1) - 1 = device
    BY <1>3
  <2>. QED BY <1>2, <1>4, <1>5, <2>1, <2>2 DEF VectorInv, Infos
<1>10. ShownInv'
  BY <1>1, <1>2, <1>5 DEF InfoInv, ShownInv, Entries, Answers
<1>. QED
  BY <1>6, <1>7, <1>8, <1>9, <1>10 DEF InfoInv

LEMMA ShowStep == InfoInv /\ Show => InfoInv'
<1>. SUFFICES ASSUME InfoInv, Show PROVE InfoInv'
  OBVIOUS
<1>1. host_pc.at = "show"
  BY DEF Show, ShowAnd, At
<1>2. /\ UNCHANGED <<machine, routine, platform_fields, device_fields, device_ids, device,
                     ciErr1, failures>>
      /\ shown' = Append(shown, [platform |-> platform_fields, devices |-> devices])
  BY DEF Show, ShowAnd
<1>3. device_ids \in Answers(platform) /\ devices = Infos(device_ids, Len(device_ids)) /\ device = 1
  BY <1>1 DEF InfoInv, VectorInv
<1>4. shown' = Append(shown, Entry(platform, device_ids)) /\ Entry(platform, device_ids) \in Entries
  BY <1>1, <1>2, <1>3 DEF Entry, Entries, InfoInv, PlaceInv, FieldsInv
<1>5. /\ platform \in DOMAIN machine /\ platform \in 1 .. Len(machine) /\ Len(machine) \in Nat
      /\ DOMAIN machine = 1 .. Len(machine) /\ platform \in Nat
  BY <1>1, MachineFacts DEF InfoInv, PlaceInv
<1>6. /\ host_pc' \in Positions
      /\ \/ /\ routine # "init" /\ platform < Len(machine)
            /\ platform' = platform + 1 /\ devices' = <<>>
            /\ host_pc'.at = "platform_info" /\ host_pc'.i = 1
         \/ /\ routine = "init" \/ platform = Len(machine)
            /\ platform' = platform /\ devices' = devices
            /\ host_pc'.at = "done"
  BY <1>5, Positioned DEF Show, ShowAnd, Goto, InfoInv, PlaceInv
<1>7. PlaceInv'
  <2>1. platform' \in DOMAIN machine
    BY <1>5, <1>6
  <2>. QED BY <1>2, <1>6, <2>1 DEF InfoInv, PlaceInv
<1>8. ErrInv'
  BY <1>1, <1>2, <1>6 DEF InfoInv, ErrInv
<1>9. FieldsInv'
  BY <1>1, <1>2, <1>6 DEF InfoInv, FieldsInv
<1>10. VectorInv'
  BY <1>2, <1>3, <1>6 DEF VectorInv
<1>11. ShownInv'
  <2>1. shown \in Seq(Entries) /\ Len(shown) = platform - 1
    BY <1>1 DEF InfoInv, ShownInv
  <2>2. /\ shown' \in Seq(Entries) /\ Len(shown') = platform
        /\ \A n \in 1 .. platform - 1 : shown'[n] = shown[n]
        /\ shown'[platform] = Entry(platform, device_ids)
    BY <1>4, <1>5, <2>1, AppendProperties
  <2>3. Entries' = Entries /\ DOMAIN shown' = 1 .. platform /\ DOMAIN shown = 1 .. platform - 1
    BY <1>2, <1>5, <2>1, <2>2 DEF Entries, Answers
  <2>4. ASSUME NEW n \in DOMAIN shown'
        PROVE  \E ids \in Answers(n)' : shown'[n] = Entry(n, ids)
    <3>1. Answers(n)' = Answers(n)
      BY <1>2 DEF Answers
    <3>2. CASE n = platform
      BY <1>3, <2>2, <3>1, <3>2
    <3>3. CASE n # platform
      <4>1. n \in DOMAIN shown
        BY <1>5, <2>3, <3>3
      <4>2. PICK ids \in Answers(n) : shown[n] = Entry(n, ids)
        BY <4>1 DEF InfoInv, ShownInv
      <4>. QED BY <2>2, <2>3, <3>1, <4>1, <4>2
    <3>. QED BY <3>2, <3>3
  <2>5. Len(shown') = IF host_pc'.at = "done" THEN platform' ELSE platform' - 1
    BY <1>5, <1>6, <2>2
  <2>. QED BY <2>2, <2>3, <2>4, <2>5 DEF ShownInv
<1>. QED
  BY <1>7, <1>8, <1>9, <1>10, <1>11 DEF InfoInv

LEMMA StutterStep == InfoInv /\ UNCHANGED vars => InfoInv'
<1>. SUFFICES ASSUME InfoInv, UNCHANGED vars PROVE InfoInv'
  OBVIOUS
<1>1. PlaceInv' /\ ErrInv'
  BY DEF vars, info, InfoInv, PlaceInv, ErrInv
<1>2. FieldsInv' /\ VectorInv'
  BY DEF vars, info, InfoInv, FieldsInv, VectorInv, Current, Answers
<1>3. ShownInv'
  BY DEF vars, info, InfoInv, ShownInv, Entries, Answers
<1>. QED
  BY <1>1, <1>2, <1>3 DEF InfoInv

\* The invariant of the routines that ask for platforms and devices.
THEOREM InfoInvariance == Spec => []InfoInv
<1>1. InfoInv /\ [Next]_vars => InfoInv'
  BY GetPlatformsStep, PlatformFieldStep, GetDeviceIdsStep, DeviceFieldStep, PushBackStep,
     ShowStep, StutterStep DEF Next, Ended
<1>. QED
  BY <1>1, InitInv, PTL DEF Spec

-----------------------------------------------------------------------------
(* What follows *)

\* No field that is shown was left by another platform or device, or by a query that failed.
THEOREM OnlyOwnFieldsAreShown == Spec => []OnlyOwnFields
<1>1. InfoInv => OnlyOwnFields
  <2>. SUFFICES ASSUME InfoInv, NEW n \in DOMAIN shown
               PROVE  /\ \A f \in DOMAIN shown[n].platform : shown[n].platform[f] = n
                      /\ \A j \in DOMAIN shown[n].devices : \A f \in DOMAIN shown[n].devices[j] :
                           /\ shown[n].devices[j][f] \in Range(machine[n])
                           /\ shown[n].devices[j][f] = shown[n].devices[j]["name"]
    BY DEF OnlyOwnFields
  <2>1. n \in DOMAIN machine
    BY MachineFacts DEF InfoInv, PlaceInv, ShownInv
  <2>2. PICK ids \in Answers(n) : shown[n] = Entry(n, ids)
    BY DEF InfoInv, ShownInv
  <2>3. ids \in Seq(Range(machine[n]))
    BY <2>1, <2>2, AnswerFacts DEF InfoInv
  <2>4. \A f \in DOMAIN shown[n].platform : shown[n].platform[f] = n
    BY <2>2 DEF Entry, OwnPlatform
  <2>5. ASSUME NEW j \in DOMAIN shown[n].devices, NEW f \in DOMAIN shown[n].devices[j]
        PROVE  /\ shown[n].devices[j][f] \in Range(machine[n])
               /\ shown[n].devices[j][f] = shown[n].devices[j]["name"]
    <3>1. j \in 1 .. Len(ids) /\ shown[n].devices[j] = OwnDevice(ids[j])
      BY <2>2, <2>5 DEF Entry, Infos
    <3>2. "name" \in Range(DeviceFields)
      BY FieldFacts DEF DeviceFields
    <3>3. shown[n].devices[j][f] = ids[j] /\ shown[n].devices[j]["name"] = ids[j]
      BY <2>5, <3>1, <3>2 DEF OwnDevice
    <3>. QED BY <2>3, <3>1, <3>3
  <2>. QED BY <2>4, <2>5
<1>. QED
  BY <1>1, InfoInvariance, PTL

\* A listing that ends is complete and in order; init binds a GPU of the first platform.
THEOREM ListingIsComplete == Spec => []ListsEverything
<1>1. InfoInv => ListsEverything
  <2>. SUFFICES ASSUME InfoInv, host_pc.at = "done" PROVE ListsEverything
    BY DEF ListsEverything
  <2>1. DOMAIN machine = 1 .. Len(machine) /\ Len(machine) \in Nat
        /\ platform \in 1 .. Len(machine) /\ Len(shown) = platform
        /\ DOMAIN shown = 1 .. platform /\ "name" \in Range(DeviceFields)
    BY MachineFacts, FieldFacts DEF InfoInv, PlaceInv, ShownInv, DeviceFields
  <2>2. ASSUME NEW n \in DOMAIN shown
        PROVE  \E ids \in Answers(n) :
                 /\ ids \in Seq(Range(machine[n]))
                 /\ Len(shown[n].devices) = Len(ids)
                 /\ DOMAIN shown[n].devices = 1 .. Len(ids)
                 /\ \A j \in 1 .. Len(ids) : shown[n].devices[j]["name"] = ids[j]
    <3>1. PICK ids \in Answers(n) : shown[n] = Entry(n, ids)
      BY <2>2 DEF InfoInv, ShownInv
    <3>2. ids \in Seq(Range(machine[n]))
      BY <2>1, <2>2, <3>1, AnswerFacts DEF InfoInv
    <3>3. shown[n].devices = Infos(ids, Len(ids)) /\ Len(ids) \in Nat
      BY <3>1, <3>2 DEF Entry
    <3>. QED BY <2>1, <3>1, <3>2, <3>3, InfosFacts DEF Infos, OwnDevice
  <2>3. CASE routine = "init"
    <3>1. platform = 1 /\ 1 \in DOMAIN shown /\ 1 \in DOMAIN machine
      BY <2>1, <2>3 DEF InfoInv, PlaceInv
    <3>2. PICK ids \in Answers(1) :
            Len(shown[1].devices) = Len(ids)
            /\ \A j \in 1 .. Len(ids) : shown[1].devices[j]["name"] = ids[j]
      BY <2>2, <3>1
    <3>3. Len(ids) = 1 /\ ids[1] \in Range(machine[1]) \intersect Gpus
      BY <2>3, <3>1, <3>2, AnswerFacts DEF InfoInv
    <3>. QED BY <2>1, <2>3, <3>1, <3>2, <3>3 DEF ListsEverything
  <2>4. CASE routine # "init"
    <3>1. platform = Len(machine)
      BY <2>4 DEF InfoInv, PlaceInv
    <3>2. ASSUME NEW n \in DOMAIN machine
          PROVE  [j \in DOMAIN shown[n].devices |-> shown[n].devices[j]["name"]] = machine[n]
      <4>1. n \in DOMAIN shown
        BY <2>1, <3>1, <3>2
      <4>2. PICK ids \in Answers(n) :
              /\ ids \in Seq(Range(machine[n]))
              /\ DOMAIN shown[n].devices = 1 .. Len(ids)
              /\ \A j \in 1 .. Len(ids) : shown[n].devices[j]["name"] = ids[j]
        BY <2>2, <4>1
      <4>3. ids = machine[n]
        BY <2>4, <3>2, <4>2, AnswerFacts DEF InfoInv
      <4>4. ids = [j \in 1 .. Len(ids) |-> ids[j]]
        BY <4>2
      <4>. QED BY <4>2, <4>3, <4>4
    <3>. QED BY <2>1, <2>4, <3>1, <3>2 DEF ListsEverything
  <2>. QED BY <2>3, <2>4
<1>. QED
  BY <1>1, InfoInvariance, PTL

\* Failures that agree are reported as what they are: joining codes bit by bit loses nothing then.
THEOREM AgreeingCodesAreReported == Spec => []CodeReportedWasReturned
<1>1. InfoInv => CodeReportedWasReturned
  <2>. SUFFICES ASSUME InfoInv, host_pc.at = "threw"
                PROVE  /\ failures # {}
                       /\ \A e \in failures : failures = {e} =>
                            /\ ciErr1 = e
                            /\ get_opencl_error_str(ciErr1) =
                                 IF e = CL_PLATFORM_NOT_FOUND_KHR THEN {} ELSE {e}
    BY DEF CodeReportedWasReturned
  <2>1. failures # {} /\ \A e \in failures : failures = {e} => ciErr1 = e
    BY DEF InfoInv, ErrInv
  <2>2. failures \subseteq ErrorCodes \/ failures \subseteq {CL_PLATFORM_NOT_FOUND_KHR}
    BY DEF InfoInv, ErrInv
  <2>3. CL_PLATFORM_NOT_FOUND_KHR \notin ErrorCodes
    BY DEF CL_PLATFORM_NOT_FOUND_KHR, ErrorCodes, CL_SUCCESS
  <2>. QED BY <2>1, <2>2, <2>3 DEF get_opencl_error_str
<1>. QED
  BY <1>1, InfoInvariance, PTL

=============================================================================
