---------------------------- MODULE AbBootProofs ----------------------------
(***************************************************************************)
(* Proofs about AbBoot for every number of tries, images and power cuts,   *)
(* and with or without each of the failures it allows: what the operators  *)
(* of BootCtrl return and keep, type correctness, and that every rollback  *)
(* is announced.                                                           *)
(***************************************************************************)
EXTENDS AbBootProperties, TLAPS

-----------------------------------------------------------------------------
(* What the operators of BootCtrl return, keep and leave alone, for every  *)
(* metadata and every number of tries.                                     *)

LEMMA OtherSlot == ASSUME NEW s \in Slots
                   PROVE  Other(s) \in Slots /\ Other(s) # s
  BY DEF Slots, Other

LEMMA ActiveSlotType == ASSUME NEW info
                        PROVE  get_active_slot(info) \in Slots
  BY DEF get_active_slot, Slots

LEMMA ResetType == boot_info_reset \in BootloaderControl
  BY TriesAssumption DEF boot_info_reset, BootloaderControl, SlotMeta, Slots,
                         kActivePriority

LEMMA ValidatedType == ASSUME NEW info \in BootloaderControl
                       PROVE  Validated(info) \in BootloaderControl
  BY ResetType DEF Validated

\* Replacing the slots keeps the type of the rest.
LEMMA SlotsReplaced ==
    ASSUME NEW info \in BootloaderControl, NEW f \in [Slots -> SlotMeta]
    PROVE  [info EXCEPT !.slot = f] \in BootloaderControl
  BY DEF BootloaderControl

LEMMA SetActiveType ==
    ASSUME NEW info \in BootloaderControl, NEW s \in Slots
    PROVE  boot_info_set_active_slot(info, s) \in BootloaderControl
  <1> DEFINE raised(t) == [info.slot[t] EXCEPT !.priority = kActivePriority,
                                               !.tries_remaining = kActiveTries]
             lowered(t) == [info.slot[t] EXCEPT
                              !.priority = Lowered(info.slot[t].priority)]
             slots == [t \in Slots |-> IF t = s THEN raised(t) ELSE lowered(t)]
  <1>1. \A t \in Slots : info.slot[t] \in SlotMeta
    BY DEF BootloaderControl
  <1>2. ASSUME NEW t \in Slots PROVE raised(t) \in SlotMeta
    <2>1. info.slot[t] \in SlotMeta /\ kActiveTries \in 0..7 /\ kActivePriority \in 0..15
      BY <1>1, TriesAssumption DEF kActivePriority
    <2> QED BY <2>1 DEF SlotMeta
  <1>3. ASSUME NEW t \in Slots PROVE lowered(t) \in SlotMeta
    BY <1>1 DEF SlotMeta, Lowered, kActivePriority
  <1>4. slots \in [Slots -> SlotMeta]
    <2> HIDE DEF raised, lowered
    <2> QED BY <1>2, <1>3
  <1>5. boot_info_set_active_slot(info, s) = [info EXCEPT !.slot = slots]
    BY DEF boot_info_set_active_slot, BootloaderControl
  <1> HIDE DEF slots
  <1> QED BY <1>4, <1>5, SlotsReplaced

LEMMA NormalToVirtualType ==
    ASSUME NEW info \in BootloaderControl
    PROVE  NormalToVirtual(info) \in BootloaderControl
  <1> DEFINE kept == [boot_info_reset EXCEPT !.slot =
                        [s \in Slots |-> [boot_info_reset.slot[s] EXCEPT
                           !.successful_boot = info.slot[s].successful_boot]]]
  <1>1. \A s \in Slots : info.slot[s].successful_boot \in BOOLEAN
    BY DEF BootloaderControl, SlotMeta
  <1>2. kept \in BootloaderControl
    <2> DEFINE f == [s \in Slots |-> [boot_info_reset.slot[s] EXCEPT
                       !.successful_boot = info.slot[s].successful_boot]]
    <2>1. \A s \in Slots : boot_info_reset.slot[s] \in SlotMeta
      BY ResetType DEF BootloaderControl
    <2>2. f \in [Slots -> SlotMeta]
      BY <1>1, <2>1 DEF SlotMeta
    <2>3. kept = [boot_info_reset EXCEPT !.slot = f]
      BY ResetType DEF BootloaderControl
    <2> HIDE DEF f, kept
    <2> QED BY <2>2, <2>3, ResetType, SlotsReplaced
  <1>3. get_active_slot_normalAB(info) \in Slots
    BY DEF get_active_slot_normalAB, Slots
  <1> HIDE DEF kept
  <1>4. boot_info_set_active_slot(kept, get_active_slot_normalAB(info)) \in BootloaderControl
    BY <1>2, <1>3, SetActiveType
  <1> QED BY <1>4 DEF NormalToVirtual, kept

LEMMA CountFirstBootType ==
    ASSUME NEW info \in BootloaderControl, NEW rebootmode
    PROVE  CountFirstBoot(info, rebootmode) \in BootloaderControl
  <1>1. (info.boot_tries_remaining - 1) % 256 \in 0..255
    BY DEF BootloaderControl
  <1> QED BY <1>1 DEF CountFirstBoot, BootloaderControl

\* A try is charged only to a slot that has one left.
LEMMA CountTryType ==
    ASSUME NEW info \in BootloaderControl, NEW rebootmode
    PROVE  CountTry(info, rebootmode) \in BootloaderControl
  <1>1. get_active_slot(info) \in Slots
    BY ActiveSlotType
  <1>2. CASE OnTrial(info) /\ rebootmode # "fastboot"
    <2>1. info.slot[get_active_slot(info)].tries_remaining - 1 \in 0..7
      BY <1>1, <1>2 DEF OnTrial, slot_is_bootable, BootloaderControl, SlotMeta
    <2> QED BY <1>1, <1>2, <2>1 DEF CountTry, BootloaderControl, SlotMeta
  <1>3. CASE ~(OnTrial(info) /\ rebootmode # "fastboot")
    BY <1>3 DEF CountTry
  <1> QED BY <1>2, <1>3

LEMMA ForfeitType ==
    ASSUME NEW info \in BootloaderControl
    PROVE  ForfeitTries(info) \in BootloaderControl
  BY ActiveSlotType DEF ForfeitTries, BootloaderControl, SlotMeta

LEMMA StatusType ==
    ASSUME NEW info \in BootloaderControl, NEW s \in Slots
    PROVE  [info EXCEPT !.slot[s].uboot_status = 2] \in BootloaderControl
  BY DEF BootloaderControl, SlotMeta

-----------------------------------------------------------------------------
\* The active slot depends on the priorities and the successful bits only.
LEMMA SameActive ==
    ASSUME NEW a, NEW b,
           \A s \in Slots : /\ a.slot[s].priority = b.slot[s].priority
                            /\ a.slot[s].successful_boot = b.slot[s].successful_boot
    PROVE  get_active_slot(a) = get_active_slot(b)
  BY DEF get_active_slot, Slots

\* Charging and forfeiting tries, and noting that boot1 is up to date, leave
\* the active slot alone.
LEMMA TriesKeepActive ==
    ASSUME NEW info \in BootloaderControl, NEW rebootmode
    PROVE  /\ get_active_slot(CountTry(info, rebootmode)) = get_active_slot(info)
           /\ get_active_slot(CountFirstBoot(info, rebootmode)) = get_active_slot(info)
           /\ get_active_slot(ForfeitTries(info)) = get_active_slot(info)
  <1>1. \A s \in Slots :
           /\ CountTry(info, rebootmode).slot[s].priority = info.slot[s].priority
           /\ CountTry(info, rebootmode).slot[s].successful_boot = info.slot[s].successful_boot
    BY DEF CountTry, BootloaderControl, SlotMeta
  <1>2. \A s \in Slots :
           /\ CountFirstBoot(info, rebootmode).slot[s].priority = info.slot[s].priority
           /\ CountFirstBoot(info, rebootmode).slot[s].successful_boot
                = info.slot[s].successful_boot
    BY DEF CountFirstBoot, BootloaderControl
  <1>3. \A s \in Slots :
           /\ ForfeitTries(info).slot[s].priority = info.slot[s].priority
           /\ ForfeitTries(info).slot[s].successful_boot = info.slot[s].successful_boot
    BY DEF ForfeitTries, BootloaderControl, SlotMeta
  <1> QED BY <1>1, <1>2, <1>3, SameActive

LEMMA StatusKeepsActive ==
    ASSUME NEW info \in BootloaderControl, NEW s \in Slots
    PROVE  get_active_slot([info EXCEPT !.slot[s].uboot_status = 2])
             = get_active_slot(info)
  <1> DEFINE new == [info EXCEPT !.slot[s].uboot_status = 2]
  <1>1. \A t \in Slots :
           /\ new.slot[t].priority = info.slot[t].priority
           /\ new.slot[t].successful_boot = info.slot[t].successful_boot
    BY DEF BootloaderControl, SlotMeta
  <1> QED BY <1>1, SameActive

\* set_active_slot does what it says: whatever the metadata was, the slot is
\* the active one afterwards and has tries; what is known of the two slots'
\* boots, and the announcement of a rollback, are kept.
THEOREM SetActiveSlotActivates ==
    ASSUME NEW info \in BootloaderControl, NEW s \in Slots
    PROVE  LET new == boot_info_set_active_slot(info, s)
           IN  /\ get_active_slot(new) = s
               /\ slot_is_bootable(new, s)
               /\ new.roll_flag = info.roll_flag
               /\ \A t \in Slots : new.slot[t].successful_boot
                                     = info.slot[t].successful_boot
  <1> DEFINE new == boot_info_set_active_slot(info, s)
  <1>1. new.slot[s].priority = 15 /\ new.slot[s].tries_remaining = kActiveTries
    BY DEF boot_info_set_active_slot, BootloaderControl, SlotMeta, kActivePriority
  <1>2. new.slot[Other(s)].priority \in 0..14
    <2>1. new.slot[Other(s)].priority = Lowered(info.slot[Other(s)].priority)
      BY OtherSlot DEF boot_info_set_active_slot, BootloaderControl, SlotMeta
    <2>2. info.slot[Other(s)].priority \in 0..15
      BY OtherSlot DEF BootloaderControl, SlotMeta
    <2> QED BY <2>1, <2>2 DEF Lowered, kActivePriority
  <1>3. /\ new.roll_flag = info.roll_flag
        /\ \A t \in Slots : new.slot[t].successful_boot = info.slot[t].successful_boot
    BY DEF boot_info_set_active_slot, BootloaderControl, SlotMeta, Slots, Other
  <1>4. get_active_slot(new) = s
    <2> HIDE DEF new
    <2>1. CASE s = 0
      BY <1>1, <1>2, <2>1 DEF get_active_slot, Other
    <2>2. CASE s = 1
      BY <1>1, <1>2, <2>2 DEF get_active_slot, Other
    <2> QED BY <2>1, <2>2 DEF Slots
  <1>5. slot_is_bootable(new, s)
    BY <1>1, TriesAssumption DEF slot_is_bootable
  <1> QED BY <1>3, <1>4, <1>5

-----------------------------------------------------------------------------
(* The invariant: types, and where U-Boot is in a rollback.               *)

\* Where U-Boot goes on once the write in progress is complete.
Point == IF pc = "writing" THEN job.then ELSE pc

\* The commands each kind of rollback is made of, and what holds at each.
PlanAt(p) ==
    /\ p = "reason" => rb.kind \in {"valid_slot", "update", "rescueparty"}
    /\ p = "check" => rb.kind \in {"valid_slot", "update"}
    /\ p = "cancel" => rb.kind \in {"rescueparty", "mismatch"}
    /\ p \in {"copy", "flag", "active"} => rb.kind \in RollbackKinds
    /\ p = "active" => (rb.to \in Slots => misc.roll_flag)
    /\ p = "kernel" => env.slot_suffixes \in Slots

\* A rollback in progress is at a command of its kind, restores the user area
\* or boot0, and names the slot it goes to unless it follows a mismatch.
PlanOK ==
    /\ PlanAt(Point)
    /\ job.then # "writing"
    /\ rb.dst \in {0, 1}
    /\ rb.kind \in {"valid_slot", "update", "rescueparty"} => rb.to \in Slots

IInv == TypeOK /\ PlanOK

-----------------------------------------------------------------------------
(* Types of the constants of the model.                                    *)

LEMMA ImageTypes == Torn \in Images /\ FactoryImage \in Images
  BY AbBootAssumption DEF Torn, FactoryImage, Images

LEMMA EnvTypes == DefaultEnv \in Env
  BY DEF DefaultEnv, Env, RebootStatus, NoIndex, NoSlot, Slots, Copies

LEMMA IdleType == Idle \in Jobs
  BY ImageTypes, EnvTypes DEF Idle, Jobs, Copies, PC

LEMMA ReservedType == ASSUME NEW e \in Env
                      PROVE  defenv_reserv(e) \in Env
  BY EnvTypes DEF defenv_reserv, Env

\* Every change U-Boot makes to the env keeps its type.
LEMMA EnvUpdates ==
    ASSUME NEW e \in Env
    PROVE  /\ \A s \in Slots : [e EXCEPT !.slot_suffixes = s] \in Env
           /\ \A i \in Copies : [e EXCEPT !.bootloaderIndex = i] \in Env
           /\ [e EXCEPT !.reboot_status = "reboot_init"] \in Env
           /\ \A b \in BOOLEAN : [e EXCEPT !.insufficient_data = b] \in Env
           /\ [e EXCEPT !.write_boot = TRUE] \in Env
           /\ Boot0Written(e) \in Env
           /\ \A d \in {0, 1} : [e EXCEPT !.update_env = TRUE,
                                          !.reboot_status = "reboot_next",
                                          !.expect_index = d] \in Env
  <1>1. \A s \in Slots : [e EXCEPT !.slot_suffixes = s] \in Env
    BY DEF Env
  <1>2. \A i \in Copies : [e EXCEPT !.bootloaderIndex = i] \in Env
    BY DEF Env
  <1>3. [e EXCEPT !.reboot_status = "reboot_init"] \in Env
    BY DEF Env, RebootStatus
  <1>4. \A b \in BOOLEAN : [e EXCEPT !.insufficient_data = b] \in Env
    BY DEF Env
  <1>5. [e EXCEPT !.write_boot = TRUE] \in Env
    BY DEF Env
  <1>6. Boot0Written(e) \in Env
    BY DEF Env, RebootStatus, Boot0Written
  <1>7. ASSUME NEW d \in {0, 1}
        PROVE  [e EXCEPT !.update_env = TRUE, !.reboot_status = "reboot_next",
                         !.expect_index = d] \in Env
    BY DEF Env, RebootStatus
  <1> QED BY <1>1, <1>2, <1>3, <1>4, <1>5, <1>6, <1>7

LEMMA PlanTypes ==
    /\ NoRollback \in Rollbacks
    /\ NoRollback.dst \in {0, 1} /\ NoRollback.kind = "none"
    /\ \A kind \in RollbackKinds, s \in Slots :
         /\ RollbackFrom(kind, s) \in Rollbacks
         /\ RollbackFrom(kind, s).kind = kind
         /\ RollbackFrom(kind, s).dst \in {0, 1}
         /\ RollbackFrom(kind, s).to \in Slots
  BY DEF NoRollback, RollbackFrom, Rollbacks, RollbackKinds, Slots, Other, Copies,
         NoSlot

LEMMA MigratedType == ASSUME NEW info \in BootloaderControl
                      PROVE  Migrated(info) \in BootloaderControl
  BY ResetType, NormalToVirtualType DEF Migrated

-----------------------------------------------------------------------------
(* Writes to flash.                                                        *)

LEMMA BootWriteTypes ==
    ASSUME TypeOK, NEW c \in Copies, NEW img \in Images, NEW next \in PC,
           StartBootWrite(c, img, next)
    PROVE  /\ copies' \in [Copies -> Images] /\ job' \in Jobs
           /\ flash' = flash /\ env' = env
           /\ pc' = "writing" /\ pc' \in PC /\ job'.then = next
  <1>1. copies' \in [Copies -> Images]
    BY ImageTypes DEF StartBootWrite, TypeOK
  <1>2. job' \in Jobs /\ job'.then = next
    BY IdleType DEF StartBootWrite, Jobs
  <1> QED BY <1>1, <1>2 DEF StartBootWrite, PC

LEMMA EnvWriteTypes ==
    ASSUME TypeOK, NEW e \in Env, NEW val \in Env, NEW next \in PC,
           StartEnvWrite(e, val, next)
    PROVE  /\ flash' \in [ok : BOOLEAN, val : Env] /\ job' \in Jobs
           /\ env' = e /\ copies' = copies
           /\ pc' = "writing" /\ pc' \in PC /\ job'.then = next
  <1>1. flash' \in [ok : BOOLEAN, val : Env]
    BY DEF StartEnvWrite, TypeOK
  <1>2. job' \in Jobs /\ job'.then = next
    BY IdleType DEF StartEnvWrite, Jobs
  <1> QED BY <1>1, <1>2 DEF StartEnvWrite, PC

LEMMA UpdateEnvTypes ==
    ASSUME TypeOK, NEW e \in Env, NEW val \in Env, NEW next \in PC,
           update_env_part(e, val, next)
    PROVE  /\ flash' \in [ok : BOOLEAN, val : Env] /\ job' \in Jobs
           /\ env' = e /\ copies' = copies
           /\ pc' = "writing" /\ pc' \in PC /\ job'.then = next
  <1> DEFINE v == IF flash.ok THEN val ELSE e
  <1>1. v \in Env
    OBVIOUS
  <1>2. StartEnvWrite(e, v, next)
    BY DEF update_env_part
  <1> HIDE DEF v
  <1> QED BY <1>1, <1>2, EnvWriteTypes

\* The command after a command of a rollback is one of the same kind.
LEMMA FollowingOK ==
    ASSUME IInv, pc \in {"reason", "check", "cancel", "copy", "flag", "active"}
    PROVE  /\ Following \in PC
           /\ Following \notin {"reason", "kernel", "writing"}
           /\ Following = "check" => rb.kind \in {"valid_slot", "update"}
           /\ Following = "cancel" => rb.kind \in {"rescueparty", "mismatch"}
           /\ Following \in {"copy", "flag", "active"} => rb.kind \in RollbackKinds
           /\ Following = "active" => pc = "flag"
  <1>1. PlanAt(pc)
    BY DEF IInv, PlanOK, Point
  <1>2. CASE rb.kind = "valid_slot"
    BY <1>1, <1>2 DEF Following, PlanAt, PC, RollbackKinds
  <1>3. CASE rb.kind = "update"
    BY <1>1, <1>3 DEF Following, PlanAt, PC, RollbackKinds
  <1>4. CASE rb.kind = "rescueparty"
    BY <1>1, <1>4 DEF Following, PlanAt, PC, RollbackKinds
  <1>5. CASE rb.kind = "mismatch"
    BY <1>1, <1>5 DEF Following, PlanAt, PC, RollbackKinds
  <1> QED BY <1>1, <1>2, <1>3, <1>4, <1>5 DEF PlanAt, RollbackKinds

-----------------------------------------------------------------------------
(* The kinds of step: a write is begun, misc is saved, or U-Boot goes on.   *)

\* A step to a point where nothing is required of the rollback keeps PlanOK.
LEMMA NoPlanHere ==
    ASSUME PlanOK, UNCHANGED rb, job'.then # "writing",
           Point' \notin {"reason", "check", "cancel", "copy", "flag", "active",
                         "kernel"}
    PROVE  PlanOK'
  BY DEF PlanOK, PlanAt

\* A command of a rollback goes on to its next command.
LEMMA NextCommand ==
    ASSUME IInv, pc \in {"reason", "check", "cancel", "copy", "flag", "active"},
           UNCHANGED rb, job'.then # "writing", Point' = Following,
           pc = "flag" => (rb.to \in Slots => misc'.roll_flag)
    PROVE  PlanOK'
  BY FollowingOK DEF IInv, PlanOK, PlanAt

LEMMA BootWriteKeeps ==
    ASSUME IInv, NEW c \in Copies, NEW img \in Images, NEW next \in PC \ {"writing"},
           StartBootWrite(c, img, next),
           UNCHANGED <<misc, part, merge_status, idx, mode, rb, world>>
    PROVE  TypeOK' /\ Point' = next /\ job'.then # "writing" /\ UNCHANGED rb
  <1>1. TypeOK
    BY DEF IInv
  <1>2. /\ copies' \in [Copies -> Images] /\ job' \in Jobs /\ flash' = flash
        /\ env' = env /\ pc' = "writing" /\ pc' \in PC /\ job'.then = next
    BY <1>1, BootWriteTypes
  <1>3. TypeOK'
    BY <1>1, <1>2 DEF TypeOK, world
  <1> QED BY <1>2, <1>3 DEF Point

LEMMA EnvWriteKeeps ==
    ASSUME IInv, NEW e \in Env, NEW val \in Env, NEW next \in PC \ {"writing"},
           StartEnvWrite(e, val, next) \/ update_env_part(e, val, next),
           UNCHANGED <<misc, part, merge_status, idx, mode, rb, world>>
    PROVE  TypeOK' /\ Point' = next /\ job'.then # "writing" /\ UNCHANGED rb
  <1>1. TypeOK
    BY DEF IInv
  <1>2. /\ flash' \in [ok : BOOLEAN, val : Env] /\ job' \in Jobs
        /\ env' = e /\ copies' = copies
        /\ pc' = "writing" /\ pc' \in PC /\ job'.then = next
    BY <1>1, EnvWriteTypes, UpdateEnvTypes
  <1>3. TypeOK'
    BY <1>1, <1>2 DEF TypeOK, world
  <1> QED BY <1>2, <1>3 DEF Point

LEMMA SaveKeeps ==
    ASSUME IInv, NEW info \in BootloaderControl, NEW next \in PC \ {"writing"},
           boot_info_save(info, next),
           UNCHANGED <<flash, copies, part, merge_status, ram, world>>
    PROVE  /\ TypeOK' /\ Point' = next /\ job'.then # "writing" /\ UNCHANGED rb
           /\ misc' = info
  <1>1. TypeOK'
    BY DEF IInv, TypeOK, boot_info_save, ram, world
  <1> QED BY <1>1 DEF IInv, PlanOK, Point, boot_info_save, ram

LEMMA GoesOn ==
    ASSUME IInv, NEW next \in PC \ {"writing"}, pc' = next,
           UNCHANGED <<storage, ram, world>>
    PROVE  TypeOK' /\ Point' = next /\ job'.then # "writing" /\ UNCHANGED rb
  <1>1. TypeOK'
    BY DEF IInv, TypeOK, storage, ram, world
  <1> QED BY <1>1 DEF IInv, PlanOK, Point, ram

-----------------------------------------------------------------------------
(* The invariant holds at first and is kept by every step.                 *)

LEMMA InitIInv == Init => IInv
  <1> SUFFICES ASSUME Init PROVE IInv
    OBVIOUS
  <1>1. NormalAB \subseteq BootloaderControl
    <2> DEFINE old == [priority : {14, 15}, tries_remaining : {0, 1},
                       successful_boot : BOOLEAN, uboot_status : {0}]
    <2>1. old \subseteq SlotMeta
      BY DEF SlotMeta
    <2>2. [Slots -> old] \subseteq [Slots -> SlotMeta]
      BY <2>1
    <2> HIDE DEF old
    <2> DEFINE fs == {f \in [Slots -> old] : /\ f[0].priority # f[1].priority
                                            /\ \E s \in Slots : f[s].successful_boot}
    <2>3. fs \subseteq [Slots -> SlotMeta]
      BY <2>2
    <2>4. NormalAB = [magic : {"ab"}, slot : fs, roll_flag : {FALSE},
                      merge_flag : {FALSE}, firstboot : {FALSE},
                      boot_tries_remaining : {0}]
      BY DEF NormalAB, old
    <2> HIDE DEF fs
    <2>5. ASSUME NEW m \in NormalAB PROVE m \in BootloaderControl
      <3>1. /\ m = [magic |-> m.magic, slot |-> m.slot, roll_flag |-> m.roll_flag,
                    merge_flag |-> m.merge_flag, firstboot |-> m.firstboot,
                    boot_tries_remaining |-> m.boot_tries_remaining]
            /\ m.magic = "ab" /\ m.slot \in fs /\ m.roll_flag = FALSE
            /\ m.merge_flag = FALSE /\ m.firstboot = FALSE
            /\ m.boot_tries_remaining = 0
        BY <2>4
      <3>2. m.slot \in [Slots -> SlotMeta]
        BY <2>3, <3>1
      <3>3. /\ m.roll_flag \in BOOLEAN /\ m.merge_flag \in BOOLEAN
            /\ m.firstboot \in BOOLEAN
        BY <3>1
      <3>4. m.boot_tries_remaining \in 0..255 /\ m.magic \in {"vab", "ab", "none"}
        BY <3>1
      <3>5. m = [magic |-> m.magic, slot |-> m.slot, roll_flag |-> m.roll_flag,
                 merge_flag |-> m.merge_flag, firstboot |-> m.firstboot,
                 boot_tries_remaining |-> m.boot_tries_remaining]
        BY <3>1
      <3> QED BY <3>2, <3>3, <3>4, <3>5 DEF BootloaderControl
    <2> QED BY <2>5
  <1>2. Uninitialised \in BootloaderControl
    BY ResetType DEF Uninitialised, BootloaderControl
  <1>3. misc \in BootloaderControl
    BY <1>1, <1>2, ResetType DEF Init
  <1>4. TypeOK
    BY <1>3, ImageTypes, EnvTypes, IdleType, PlanTypes, AbBootAssumption
       DEF Init, TypeOK, PC, Copies
  <1>5. PlanOK
    <2>1. pc = "rom" /\ job.then = "rom" /\ rb = NoRollback
      BY DEF Init, Idle
    <2> QED BY <2>1, PlanTypes DEF PlanOK, PlanAt, Point
  <1> QED BY <1>4, <1>5 DEF IInv

\* Power-on to the first get_valid_slot, and the end of a write.
LEMMA PowerOnSteps ==
    ASSUME IInv, BootRom \/ BootRomFails \/ aml_update_env \/ FinishWrite
    PROVE  IInv'
  <1> USE DEF IInv
  <1>1. CASE BootRom
    <2>1. LoadedEnv \in Env
      BY EnvTypes DEF LoadedEnv, TypeOK
    <2>2. TypeOK'
      BY <1>1, <2>1 DEF BootRom, TypeOK, PC, storage, world
    <2>3. PlanOK'
      BY <1>1 DEF BootRom, PlanOK, PlanAt, Point
    <2> QED BY <2>2, <2>3
  <1>2. CASE BootRomFails
    <2>1. TypeOK'
      BY <1>2 DEF BootRomFails, TypeOK, PC, storage, ram, world
    <2>2. PlanOK'
      BY <1>2 DEF BootRomFails, PlanOK, PlanAt, Point, ram
    <2> QED BY <2>1, <2>2
  <1>3. CASE aml_update_env
    <2>1. CASE env.update_env /\ ~env.write_boot
      <3>1. defenv_reserv(env) \in Env /\ "get_valid_slot" \in PC \ {"writing"}
        BY ReservedType DEF TypeOK, PC
      <3>2. StartEnvWrite(defenv_reserv(env), defenv_reserv(env), "get_valid_slot")
        BY <1>3, <2>1 DEF aml_update_env, saveenv
      <3>3. UNCHANGED <<misc, part, merge_status, idx, mode, rb, world>>
        BY <1>3 DEF aml_update_env
      <3> QED BY <3>1, <3>2, <3>3, EnvWriteKeeps, NoPlanHere
    <2>2. CASE ~(env.update_env /\ ~env.write_boot)
      <3>1. pc' = "get_valid_slot" /\ UNCHANGED <<storage, ram, world>>
        BY <1>3, <2>2 DEF aml_update_env, storage, ram
      <3> QED BY <3>1, GoesOn, NoPlanHere DEF PC
    <2> QED BY <2>1, <2>2
  <1>4. CASE FinishWrite
    <2>1. job.then \in PC /\ job.img \in Images /\ job.val \in Env
      BY DEF TypeOK, Jobs
    <2>2. TypeOK'
      <3>1. copies' \in [Copies -> Images]
        BY <1>4, <2>1 DEF FinishWrite, TypeOK
      <3>2. flash' \in [ok : BOOLEAN, val : Env]
        <4>1. flash \in [ok : BOOLEAN, val : Env]
          BY DEF TypeOK
        <4>2. flash' = flash \/ flash' = [ok |-> TRUE, val |-> job.val]
          BY <1>4 DEF FinishWrite
        <4>3. [ok |-> TRUE, val |-> job.val] \in [ok : BOOLEAN, val : Env]
          BY <2>1
        <4> QED BY <4>1, <4>2, <4>3
      <3>3. /\ pc' = job.then /\ job' = Idle
            /\ UNCHANGED <<misc, part, merge_status, env, idx, mode, rb, world>>
        BY <1>4 DEF FinishWrite
      <3> QED BY <2>1, <3>1, <3>2, <3>3, IdleType DEF TypeOK, world
    <2>3. job' = Idle /\ pc' = job.then /\ job.then # "writing"
      BY <1>4 DEF FinishWrite, PlanOK
    <2>4. Point' = Point
      BY <1>4, <2>3 DEF FinishWrite, Point
    <2>5. UNCHANGED <<rb, env, misc>>
      BY <1>4 DEF FinishWrite
    <2>6. PlanOK'
      BY <2>3, <2>4, <2>5 DEF PlanOK, PlanAt, Idle
    <2> QED BY <2>2, <2>6
  <1> QED BY <1>1, <1>2, <1>3, <1>4

\* get_valid_slot.
LEMMA GetValidSlotSteps ==
    ASSUME IInv, GetValidSlotBoots \/ GetValidSlotRollsBack \/ GetValidSlotResets
    PROVE  IInv'
  <1> USE DEF IInv
  <1>1. /\ Migrated(misc) \in BootloaderControl
        /\ get_active_slot(Migrated(misc)) \in Slots
    BY MigratedType, ActiveSlotType DEF TypeOK
  <1>2. AfterGetValidSlot \in {"amlsecurecheck", "switch_bootmode"}
    BY DEF AfterGetValidSlot
  <1>3. CASE GetValidSlotBoots
    <2>1. env' \in Env
      BY <1>1, <1>3 DEF GetValidSlotBoots, TypeOK, Env
    <2>2. misc' = Migrated(misc) /\ pc' = AfterGetValidSlot
      BY <1>3 DEF GetValidSlotBoots, boot_info_save
    <2>3. UNCHANGED <<flash, copies, part, merge_status, idx, mode, rb, job, world>>
      BY <1>3 DEF GetValidSlotBoots
    <2>4. TypeOK'
      BY <1>1, <1>2, <2>1, <2>2, <2>3 DEF TypeOK, PC, world
    <2>5. PlanOK'
      BY <1>2, <2>2, <2>3, NoPlanHere DEF PlanOK, Point
    <2> QED BY <2>4, <2>5
  <1>4. CASE GetValidSlotRollsBack
    <2> DEFINE plan == RollbackFrom("valid_slot", get_active_slot(Migrated(misc)))
    <2>1. plan \in Rollbacks /\ plan.kind = "valid_slot" /\ plan.dst \in {0, 1}
          /\ plan.to \in Slots
      BY <1>1, PlanTypes DEF RollbackKinds
    <2>2. /\ rb' = plan /\ misc' = Migrated(misc) /\ pc' = "reason"
          /\ UNCHANGED <<flash, copies, part, merge_status, env, idx, mode, job, world>>
      BY <1>4 DEF GetValidSlotRollsBack, boot_info_save
    <2> HIDE DEF plan
    <2>3. TypeOK'
      BY <1>1, <2>1, <2>2 DEF TypeOK, PC, world
    <2>4. PlanOK'
      BY <2>1, <2>2 DEF PlanOK, PlanAt, Point
    <2> QED BY <2>3, <2>4
  <1>5. CASE GetValidSlotResets
    <2> DEFINE next == IF EnterFastboot THEN "fastboot" ELSE AfterGetValidSlot
    <2>1. next \in {"fastboot", "amlsecurecheck", "switch_bootmode"}
      BY <1>2
    <2>2. boot_info_save(boot_info_reset, next)
          /\ UNCHANGED <<flash, copies, part, merge_status, ram, world>>
      BY <1>5 DEF GetValidSlotResets
    <2>3. next \in PC \ {"writing"}
      BY <2>1 DEF PC
    <2> HIDE DEF next
    <2> QED BY <2>1, <2>2, <2>3, ResetType, SaveKeeps, NoPlanHere
  <1> QED BY <1>3, <1>4, <1>5

\* The commands of a rollback and the reboot that ends it.
LEMMA RollbackSteps ==
    ASSUME IInv, RollbackStep \/ Reboot
    PROVE  IInv'
  <1> USE DEF IInv
  <1>0. /\ pc \in {"reason", "check", "cancel", "copy", "flag", "active"}
             => Following \in PC \ {"writing"}
        /\ flash.val \in Env /\ env \in Env
        /\ rb.dst \in Copies /\ rb.src \in Copies /\ rb.to \in {NoSlot} \cup Slots
    BY FollowingOK DEF TypeOK, Rollbacks, Copies, PlanOK, Point
  <1>1. CASE rollback_reason
    <2>1. pc = "reason" /\ UNCHANGED <<misc, part, merge_status, idx, mode, rb, world>>
      BY <1>1 DEF rollback_reason
    <2>2. CASE update_env_part(env, flash.val, Following)
      <3>1. TypeOK' /\ Point' = Following /\ job'.then # "writing"
        BY <1>0, <2>1, <2>2, EnvWriteKeeps
      <3> QED BY <2>1, <3>1, NextCommand
    <2>3. CASE pc' = Following /\ UNCHANGED <<flash, copies, env, job>>
      <3>1. UNCHANGED <<storage, ram, world>>
        BY <2>1, <2>3 DEF storage, ram
      <3> QED BY <1>0, <2>1, <2>3, <3>1, GoesOn, NextCommand
    <2> QED BY <1>1, <2>2, <2>3 DEF rollback_reason, SaveUnread
  <1>2. CASE check_bootloader
    <2>1. pc = "check" /\ UNCHANGED <<misc, part, merge_status, idx, mode, rb, world>>
      BY <1>2 DEF check_bootloader
    <2>2. rb.to \in Slots
      BY <2>1 DEF PlanOK, PlanAt, Point
    <2>3. CASE StartBootWrite(2, part[rb.to], Following)
      <3>1. part[rb.to] \in Images /\ 2 \in Copies
        BY <2>2 DEF TypeOK, Copies
      <3> QED BY <1>0, <2>1, <2>3, <3>1, BootWriteKeeps, NextCommand
    <2>4. CASE pc' = Following /\ UNCHANGED <<flash, copies, env, job>>
      <3>1. UNCHANGED <<storage, ram, world>>
        BY <2>1, <2>4 DEF storage, ram
      <3> QED BY <1>0, <2>1, <2>4, <3>1, GoesOn, NextCommand
    <2> QED BY <1>2, <2>3, <2>4 DEF check_bootloader
  <1>3. CASE set_mergestatus_cancel
    <2>1. pc = "cancel" /\ pc' = Following /\ UNCHANGED <<storage, ram, world>>
      BY <1>3 DEF set_mergestatus_cancel
    <2> QED BY <1>0, <2>1, GoesOn, NextCommand
  <1>4. CASE write_bootloader_back
    <2>1. /\ pc = "copy" /\ StartBootWrite(rb.dst, copies[rb.src], Following)
          /\ UNCHANGED <<misc, part, merge_status, idx, mode, rb, world>>
      BY <1>4 DEF write_bootloader_back
    <2>2. copies[rb.src] \in Images
      BY <1>0 DEF TypeOK
    <2> QED BY <1>0, <2>1, <2>2, BootWriteKeeps, NextCommand
  <1>5. CASE set_roll_flag
    <2> DEFINE info == IF rb.to \in Slots THEN [misc EXCEPT !.roll_flag = TRUE]
                                          ELSE misc
    <2>1. info \in BootloaderControl /\ (rb.to \in Slots => info.roll_flag)
      BY DEF TypeOK, BootloaderControl
    <2>2. /\ pc = "flag" /\ boot_info_save(info, Following)
          /\ UNCHANGED <<flash, copies, part, merge_status, ram, world>>
      BY <1>5 DEF set_roll_flag
    <2> HIDE DEF info
    <2>3. TypeOK' /\ Point' = Following /\ job'.then # "writing" /\ UNCHANGED rb
          /\ misc' = info
      BY <1>0, <2>1, <2>2, SaveKeeps
    <2> QED BY <2>1, <2>2, <2>3, NextCommand
  <1>6. CASE set_active_slot
    <2>1. pc = "active" /\ pc' = Following
          /\ UNCHANGED <<flash, copies, part, merge_status, idx, mode, rb, job, world>>
      BY <1>6 DEF set_active_slot, boot_info_save
    <2>2. misc' \in BootloaderControl /\ env' \in Env
      <3>1. CASE rb.to \in Slots
        <4>1. Validated(misc) \in BootloaderControl
          BY ValidatedType DEF TypeOK
        <4>2. boot_info_set_active_slot(Validated(misc), rb.to) \in BootloaderControl
          BY <3>1, <4>1, SetActiveType
        <4>3. [env EXCEPT !.slot_suffixes = rb.to] \in Env
          BY <1>0, <3>1, EnvUpdates
        <4> QED BY <1>6, <3>1, <4>2, <4>3 DEF set_active_slot, boot_info_save
      <3>2. CASE rb.to \notin Slots
        BY <1>6, <3>2 DEF set_active_slot, TypeOK
      <3> QED BY <3>1, <3>2
    <2>3. TypeOK'
      BY <1>0, <2>1, <2>2 DEF TypeOK, world
    <2>4. Point' = Following /\ job'.then # "writing"
      BY <1>0, <2>1 DEF Point, PlanOK
    <2> QED BY <2>1, <2>3, <2>4, NextCommand
  <1>7. CASE RollbackEnv
    <2> DEFINE e == [env EXCEPT !.update_env = TRUE, !.reboot_status = "reboot_next",
                                !.expect_index = rb.dst]
    <2>1. e \in Env
      BY <1>0, EnvUpdates DEF PlanOK
    <2>2. /\ StartEnvWrite(e, e, "reboot")
          /\ UNCHANGED <<misc, part, merge_status, idx, mode, rb, world>>
      BY <1>7 DEF RollbackEnv, saveenv
    <2> HIDE DEF e
    <2> QED BY <2>1, <2>2, EnvWriteKeeps, NoPlanHere DEF PC
  <1>8. CASE Reboot
    <2>1. TypeOK'
      BY <1>8, EnvTypes, PlanTypes DEF Reboot, TypeOK, PC, storage, world
    <2>2. PlanOK'
      BY <1>8, PlanTypes DEF Reboot, PlanOK, PlanAt, Point
    <2> QED BY <2>1, <2>2
  <1> QED BY <1>1, <1>2, <1>3, <1>4, <1>5, <1>6, <1>7, <1>8 DEF RollbackStep

\* A step that plans a rollback and goes to its first command.
LEMMA PlansRollback ==
    ASSUME IInv, NEW plan \in Rollbacks, plan.kind \in RollbackKinds,
           plan.dst \in {0, 1},
           plan.kind # "mismatch" => plan.to \in Slots,
           NEW first \in {"reason", "check", "copy"},
           first = "reason" => plan.kind # "mismatch",
           first = "check" => plan.kind \in {"valid_slot", "update"},
           rb' = plan, pc' = first,
           UNCHANGED <<storage, env, idx, mode, job, world>>
    PROVE  IInv'
  <1>1. TypeOK'
    BY DEF IInv, TypeOK, PC, storage, world
  <1>2. PlanOK'
    BY DEF IInv, PlanOK, PlanAt, Point, RollbackKinds
  <1> QED BY <1>1, <1>2 DEF IInv

LEMMA MismatchPlan ==
    ASSUME TypeOK
    PROVE  /\ RollbackOnMismatch \in Rollbacks
           /\ RollbackOnMismatch.kind = "mismatch"
           /\ RollbackOnMismatch.dst \in {0, 1}
  <1>1. CurrentSlot \in Slots
    BY ActiveSlotType DEF CurrentSlot
  <1>2. CASE Gpt
    BY <1>1, <1>2, PlanTypes DEF RollbackOnMismatch, RollbackKinds
  <1>3. CASE ~Gpt
    <2> DEFINE slot == CASE idx = 1 -> 0 [] idx = 2 -> 1 [] OTHER -> NoSlot
    <2>1. slot \in {NoSlot} \cup Slots
      BY DEF Slots
    <2>2. RollbackOnMismatch = [kind |-> "mismatch", from |-> CurrentSlot,
                                to |-> slot, src |-> idx, dst |-> 0]
      BY <1>3 DEF RollbackOnMismatch
    <2> HIDE DEF slot
    <2> QED BY <1>1, <2>1, <2>2 DEF Rollbacks, RollbackKinds, Copies, TypeOK
  <1> QED BY <1>2, <1>3

\* The checks before the slot's tries are counted.
LEMMA CheckSteps ==
    ASSUME IInv, amlsecurecheck \/ ab_update_rollback
    PROVE  IInv'
  <1> USE DEF IInv
  <1>1. CASE amlsecurecheck
    <2> DEFINE e == [env EXCEPT !.bootloaderIndex = idx]
               v == [flash.val EXCEPT !.bootloaderIndex = idx]
    <2>1. e \in Env /\ v \in Env
      BY EnvUpdates DEF TypeOK
    <2>2. UNCHANGED <<misc, part, merge_status, idx, mode, rb, world>>
      BY <1>1 DEF amlsecurecheck
    <2>3. CASE update_env_part(e, v, "ab_update_rollback")
      <3> HIDE DEF e, v
      <3> QED BY <2>1, <2>2, <2>3, EnvWriteKeeps, NoPlanHere DEF PC
    <2>4. CASE /\ env' = e /\ pc' = "ab_update_rollback"
               /\ UNCHANGED <<flash, copies, job>>
      <3> HIDE DEF e, v
      <3>1. TypeOK'
        BY <2>1, <2>2, <2>4 DEF TypeOK, PC, world
      <3>2. PlanOK'
        BY <2>2, <2>4, NoPlanHere DEF PlanOK, Point
      <3> QED BY <3>1, <3>2
    <2>5. \/ update_env_part(e, v, "ab_update_rollback")
          \/ /\ env' = e /\ pc' = "ab_update_rollback"
             /\ UNCHANGED <<flash, copies, job>>
      BY <1>1 DEF amlsecurecheck
    <2> QED BY <2>3, <2>4, <2>5
  <1>2. CASE ab_update_rollback
    <2> DEFINE e == [env EXCEPT !.reboot_status = "reboot_init"]
               v == [flash.val EXCEPT !.reboot_status = "reboot_init"]
    <2>1. UNCHANGED <<misc, part, merge_status, idx, mode, world>>
      BY <1>2 DEF ab_update_rollback
    <2>2. CASE /\ pc' \in {"check_boot1", "update_tries"}
               /\ UNCHANGED <<flash, copies, env, job, rb>>
      <3>1. UNCHANGED <<storage, ram, world>>
        BY <2>1, <2>2 DEF storage, ram
      <3> QED BY <2>2, <3>1, GoesOn, NoPlanHere DEF PC
    <2>3. CASE /\ rb' = RollbackFrom("rescueparty", CurrentSlot) /\ pc' = "reason"
               /\ UNCHANGED <<flash, copies, env, job>>
      <3>1. CurrentSlot \in Slots
        BY ActiveSlotType DEF CurrentSlot
      <3>2. UNCHANGED <<storage, env, idx, mode, job, world>>
        BY <2>1, <2>3 DEF storage
      <3>3. "rescueparty" \in RollbackKinds
        BY DEF RollbackKinds
      <3> QED BY <2>3, <3>1, <3>2, <3>3, PlanTypes, PlansRollback
    <2>4. CASE /\ rb' = RollbackOnMismatch /\ pc' = "copy"
               /\ UNCHANGED <<flash, copies, env, job>>
      <3>1. UNCHANGED <<storage, env, idx, mode, job, world>>
        BY <2>1, <2>4 DEF storage
      <3>2. "mismatch" \in RollbackKinds
        BY DEF RollbackKinds
      <3> QED BY <2>4, <3>1, <3>2, MismatchPlan, PlansRollback
    <2>5. CASE (\E next \in AfterExpectedCopy : update_env_part(e, v, next)) /\ UNCHANGED rb
      <3>1. e \in Env /\ v \in Env
        BY EnvUpdates DEF TypeOK
      <3> HIDE DEF e, v
      <3>2. PICK next \in AfterExpectedCopy : update_env_part(e, v, next)
        BY <2>5
      <3>3. next \in {"update_tries", "reboot"}
        BY DEF AfterExpectedCopy
      <3> QED BY <2>1, <2>5, <3>1, <3>2, <3>3, EnvWriteKeeps, NoPlanHere DEF PC
    <2> QED BY <1>2, <2>2, <2>3, <2>4, <2>5 DEF ab_update_rollback
  <1> QED BY <1>1, <1>2

\* The update of boot0.
LEMMA UpdateSteps ==
    ASSUME IInv, UpdateStep
    PROVE  IInv'
  <1> USE DEF IInv
  <1>0. /\ \A s \in Slots : part[s] \in Images
        /\ copies[1] \in Images /\ 1 \in Copies /\ 2 \in Copies
        /\ CurrentSlot \in Slots /\ BackupSlot \in Slots
    BY ActiveSlotType, OtherSlot DEF TypeOK, Copies, CurrentSlot, BackupSlot
  <1>1. CASE check_boot1
    <2>1. UNCHANGED <<misc, part, merge_status, idx, mode, rb, world>>
      BY <1>1 DEF check_boot1
    <2>2. CASE StartBootWrite(2, copies[1], "boot1_checked")
      BY <1>0, <2>1, <2>2, BootWriteKeeps, NoPlanHere DEF PC
    <2>3. CASE pc' = "boot1_checked" /\ UNCHANGED <<flash, copies, env, job>>
      <3>1. UNCHANGED <<storage, ram, world>>
        BY <2>1, <2>3 DEF storage, ram
      <3> QED BY <2>3, <3>1, GoesOn, NoPlanHere DEF PC
    <2> QED BY <1>1, <2>2, <2>3 DEF check_boot1
  <1>2. CASE boot1_checked
    <2> DEFINE info == IF MustCheckBoot1
                       THEN [misc EXCEPT !.slot[BackupSlot].uboot_status = 2]
                       ELSE misc
    <2>1. info \in BootloaderControl
      BY <1>0, StatusType DEF TypeOK
    <2>2. /\ boot_info_save(info, "write_boot0")
          /\ UNCHANGED <<flash, copies, part, merge_status, ram, world>>
      BY <1>2 DEF boot1_checked
    <2> HIDE DEF info
    <2> QED BY <2>1, <2>2, SaveKeeps, NoPlanHere DEF PC
  <1>3. CASE write_boot0
    <2>1. /\ env.slot_suffixes \in Slots
          /\ StartBootWrite(1, part[env.slot_suffixes], "update_gpt")
          /\ UNCHANGED <<misc, part, merge_status, idx, mode, rb, world>>
      BY <1>3 DEF write_boot0
    <2> QED BY <1>0, <2>1, BootWriteKeeps, NoPlanHere DEF PC
  <1>4. "update" \in RollbackKinds
    BY DEF RollbackKinds
  <1>5. CASE write_boot0_fails
    <2>1. /\ rb' = RollbackFrom("update", CurrentSlot) /\ pc' = "reason"
          /\ UNCHANGED <<storage, env, idx, mode, job, world>>
      BY <1>5 DEF write_boot0_fails
    <2> QED BY <1>0, <1>4, <2>1, PlanTypes, PlansRollback
  <1>6. CASE update_gpt
    <2>1. UNCHANGED <<storage, env, idx, mode, job, world>>
      BY <1>6 DEF update_gpt
    <2>2. CASE pc' = "boot0_env" /\ UNCHANGED rb
      <3>1. UNCHANGED <<storage, ram, world>>
        BY <2>1, <2>2 DEF ram
      <3> QED BY <2>2, <3>1, GoesOn, NoPlanHere DEF PC
    <2>3. CASE rb' = RollbackFrom("update", CurrentSlot) /\ pc' = "reason"
      BY <1>0, <1>4, <2>1, <2>3, PlanTypes, PlansRollback
    <2> QED BY <1>6, <2>2, <2>3 DEF update_gpt
  <1>7. CASE boot0_env
    <2>1. Boot0Written(env) \in Env
      BY EnvUpdates DEF TypeOK
    <2>2. /\ StartEnvWrite(Boot0Written(env), Boot0Written(env), "reboot")
          /\ UNCHANGED <<misc, part, merge_status, idx, mode, rb, world>>
      BY <1>7 DEF boot0_env, saveenv
    <2> QED BY <2>1, <2>2, EnvWriteKeeps, NoPlanHere DEF PC
  <1> QED BY <1>1, <1>2, <1>3, <1>5, <1>6, <1>7 DEF UpdateStep

\* Counting the tries and backing boot0 up.
LEMMA TriesSteps ==
    ASSUME IInv, TriesStep
    PROVE  IInv'
  <1> USE DEF IInv
  <1>0. misc \in BootloaderControl /\ copies[1] \in Images /\ 2 \in Copies
    BY DEF TypeOK, Copies
  <1>1. CASE update_tries
    <2> DEFINE info == CountFirstBoot(CountTry(misc, mode), mode)
               next == IF NoSpace \/ MergeInterrupted THEN "forfeit_reason"
                                                      ELSE "backup_boot1"
    <2>1. info \in BootloaderControl
      BY <1>0, CountTryType, CountFirstBootType
    <2>2. next \in {"forfeit_reason", "backup_boot1"}
      OBVIOUS
    <2>3. /\ boot_info_save(info, next)
          /\ UNCHANGED <<flash, copies, part, merge_status, ram, world>>
      BY <1>1 DEF update_tries
    <2> HIDE DEF info, next
    <2> QED BY <2>1, <2>2, <2>3, SaveKeeps, NoPlanHere DEF PC
  <1>2. CASE forfeit_reason
    <2> DEFINE e == IF NoSpace THEN [env EXCEPT !.insufficient_data = FALSE] ELSE env
               v == IF NoSpace THEN [flash.val EXCEPT !.insufficient_data = FALSE] ELSE flash.val
    <2>1. e \in Env /\ v \in Env
      BY EnvUpdates DEF TypeOK
    <2>2. /\ \/ update_env_part(e, v, "forfeit")
             \/ pc' = "forfeit" /\ UNCHANGED <<flash, copies, env, job>>
          /\ UNCHANGED <<misc, part, merge_status, idx, mode, rb, world>>
      BY <1>2 DEF forfeit_reason, SaveUnread
    <2> HIDE DEF e, v
    <2>3. CASE update_env_part(e, v, "forfeit")
      BY <2>1, <2>2, <2>3, EnvWriteKeeps, NoPlanHere DEF PC
    <2>4. CASE pc' = "forfeit" /\ UNCHANGED <<flash, copies, env, job>>
      <3>1. UNCHANGED <<storage, ram, world>>
        BY <2>2, <2>4 DEF storage, ram
      <3> QED BY <2>4, <3>1, GoesOn, NoPlanHere DEF PC
    <2> QED BY <2>2, <2>3, <2>4
  <1>3. CASE forfeit
    <2>1. ForfeitTries(misc) \in BootloaderControl
      BY <1>0, ForfeitType
    <2>2. /\ boot_info_save(ForfeitTries(misc), "reboot")
          /\ UNCHANGED <<flash, copies, part, merge_status, ram, world>>
      BY <1>3 DEF forfeit
    <2> QED BY <2>1, <2>2, SaveKeeps, NoPlanHere DEF PC
  <1>4. CASE backup_boot1
    <2>1. UNCHANGED <<misc, part, merge_status, idx, mode, rb, world>>
      BY <1>4 DEF backup_boot1
    <2>2. CASE StartBootWrite(2, copies[1], "boot1_backed_up")
      BY <1>0, <2>1, <2>2, BootWriteKeeps, NoPlanHere DEF PC
    <2>3. CASE pc' = "boot1_backed_up" /\ UNCHANGED <<flash, copies, env, job>>
      <3>1. UNCHANGED <<storage, ram, world>>
        BY <2>1, <2>3 DEF storage, ram
      <3> QED BY <2>3, <3>1, GoesOn, NoPlanHere DEF PC
    <2> QED BY <1>4, <2>2, <2>3 DEF backup_boot1
  <1>5. CASE boot1_backed_up
    <2> DEFINE s == get_active_slot(misc)
               info == IF MustBackup THEN [misc EXCEPT !.slot[s].uboot_status = 2]
                                     ELSE misc
    <2>1. info \in BootloaderControl
      BY <1>0, ActiveSlotType, StatusType
    <2>2. /\ boot_info_save(info, "tries_check")
          /\ UNCHANGED <<flash, copies, part, merge_status, ram, world>>
      BY <1>5 DEF boot1_backed_up
    <2> HIDE DEF info
    <2> QED BY <2>1, <2>2, SaveKeeps, NoPlanHere DEF PC
  <1>6. CASE tries_check
    <2>1. ASSUME NEW info \in BootloaderControl, NEW next \in {"fastboot", "bcb_cmd"},
                 boot_info_save(info, next)
          PROVE  IInv'
      <3>1. UNCHANGED <<flash, copies, part, merge_status, ram, world>>
        BY <1>6 DEF tries_check
      <3> QED BY <2>1, <3>1, SaveKeeps, NoPlanHere DEF PC
    <2> QED BY <1>0, <1>6, <2>1, ResetType DEF tries_check
  <1> QED BY <1>1, <1>2, <1>3, <1>4, <1>5, <1>6 DEF TriesStep

\* The choice of what to boot, and a slot that does not load.
LEMMA BootSteps ==
    ASSUME IInv, switch_bootmode \/ storeboot \/ check_ab
    PROVE  IInv'
  <1> USE DEF IInv
  <1>1. CASE switch_bootmode
    <2>1. pc' \in {"fastboot", "recovery", "storeboot"} /\ UNCHANGED <<storage, ram, world>>
      BY <1>1 DEF switch_bootmode
    <2> QED BY <2>1, GoesOn, NoPlanHere DEF PC
  <1>2. CASE storeboot
    <2>1. UNCHANGED <<storage, ram, world>>
      BY <1>2 DEF storeboot
    <2>2. CASE env.slot_suffixes \in Slots /\ pc' = "kernel"
      <3>1. TypeOK' /\ Point' = "kernel" /\ job'.then # "writing"
        BY <2>1, <2>2, GoesOn DEF PC
      <3>2. PlanOK'
        BY <2>1, <2>2, <3>1 DEF PlanOK, PlanAt, ram
      <3> QED BY <3>1, <3>2
    <2>3. CASE pc' = "check_ab"
      BY <2>1, <2>3, GoesOn, NoPlanHere DEF PC
    <2> QED BY <1>2, <2>2, <2>3 DEF storeboot
  <1>3. CASE check_ab
    <2>1. Validated(misc) \in BootloaderControl
      BY ValidatedType DEF TypeOK
    <2>2. PICK next \in {"recovery", "reboot"} : boot_info_save(Validated(misc), next)
      BY <1>3 DEF check_ab
    <2>3. UNCHANGED <<flash, copies, part, merge_status, ram, world>>
      BY <1>3 DEF check_ab
    <2> QED BY <2>1, <2>2, <2>3, SaveKeeps, NoPlanHere DEF PC
  <1> QED BY <1>1, <1>2, <1>3

LEMMA LoadedEnvType == TypeOK => LoadedEnv \in Env
  BY EnvTypes DEF LoadedEnv, TypeOK

\* The state of a system that has left for the next power-on.
LEMMA LeaveKeepsPlan ==
    ASSUME PlanOK, NEW m, Leave(m), UNCHANGED rb, job'.then # "writing"
    PROVE  PlanOK'
  BY NoPlanHere DEF Leave, Point

\* In Android, pc is "kernel" before and after and the slot is known.
LEMMA KernelKeepsPlan ==
    ASSUME PlanOK, pc = "kernel", UNCHANGED <<pc, ram>>
    PROVE  PlanOK'
  BY DEF PlanOK, PlanAt, Point, ram

LEMMA MarkTypes == ASSUME NEW slot \in SlotMeta
                   PROVE  Proved(slot) \in SlotMeta /\ Unproved(slot) \in SlotMeta
  <1> DEFINE n == IF slot.successful_boot THEN slot.uboot_status ELSE 1
  <1>1. n \in 0..3 /\ 0 \in 0..3
    BY DEF SlotMeta
  <1>2. ASSUME NEW b \in BOOLEAN, NEW k \in 0..3
        PROVE  [slot EXCEPT !.successful_boot = b, !.uboot_status = k] \in SlotMeta
    BY DEF SlotMeta
  <1>3. [slot EXCEPT !.successful_boot = TRUE, !.uboot_status = n] \in SlotMeta
    <2> HIDE DEF n
    <2> QED BY <1>1, <1>2
  <1>4. [slot EXCEPT !.successful_boot = FALSE, !.uboot_status = 0] \in SlotMeta
    BY <1>1, <1>2
  <1> QED BY <1>3, <1>4 DEF Proved, Unproved

LEMMA FinishUpdateTypes ==
    ASSUME IInv, FinishUpdate
    PROVE  TypeOK'
  <1> USE DEF IInv
  <1> DEFINE t == Other(Running)
             info == boot_info_set_active_slot(misc, t)
             pending == IF Gpt THEN [LoadedEnv EXCEPT !.write_boot = TRUE]
                        ELSE [LoadedEnv EXCEPT !.update_env = TRUE,
                                               !.reboot_status = "reboot_next",
                                               !.expect_index = 0]
             new == Unproved(info.slot[t])
             started == [info EXCEPT !.slot[t] = new, !.roll_flag = FALSE,
                                     !.merge_flag = TRUE]
  <1>1. Running \in Slots
    BY DEF FinishUpdate, PlanOK, PlanAt, Point, Running
  <1>2. t \in Slots
    BY <1>1, OtherSlot
  <1>3. info \in BootloaderControl
    BY <1>2, SetActiveType DEF TypeOK
  <1>4. started \in BootloaderControl
    <2> HIDE DEF info, t
    <2>1. info.slot[t] \in SlotMeta
      BY <1>2, <1>3 DEF BootloaderControl
    <2>2. new \in SlotMeta
      BY <2>1, MarkTypes
    <2> HIDE DEF new
    <2> QED BY <1>2, <1>3, <2>2 DEF BootloaderControl
  <1>5. PICK good \in BOOLEAN, works \in BOOLEAN :
            LET img == [gen |-> gen + 1, good |-> good]
            IN  /\ part' = [part EXCEPT ![t] = img]
                /\ osOk' = [osOk EXCEPT ![t] = works]
                /\ copies' = IF Gpt THEN copies
                             ELSE [copies EXCEPT ![0] = img, ![1 + t] = img]
                /\ misc' = started
    BY AbBootAssumption DEF FinishUpdate
  <1> DEFINE img == [gen |-> gen + 1, good |-> good]
  <1>6. gen + 1 \in 1..MaxGen /\ gen + 1 \in 0..MaxGen
    BY AbBootAssumption DEF FinishUpdate, TypeOK
  <1>7. img \in Images
    BY <1>6 DEF Images
  <1>8. part' \in [Slots -> Images] /\ osOk' \in [Slots -> BOOLEAN]
    <2> HIDE DEF img, t
    <2> QED BY <1>2, <1>5, <1>7 DEF TypeOK, img
  <1>9. copies' \in [Copies -> Images]
    <2>1. copies' = copies \/ copies' = [copies EXCEPT ![0] = img, ![1 + t] = img]
      BY <1>5
    <2> HIDE DEF img, t
    <2> QED BY <1>7, <2>1 DEF TypeOK
  <1>10. pending \in Env
    BY LoadedEnvType, EnvUpdates
  <1>11. flash' = [ok |-> TRUE, val |-> pending]
    BY DEF FinishUpdate
  <1>12. flash' \in [ok : BOOLEAN, val : Env]
    <2> HIDE DEF pending
    <2> QED BY <1>10, <1>11
  <1>13. /\ gen' \in 1..MaxGen /\ merge_status' = "SNAPSHOTTED"
         /\ mode' = "normal" /\ env' = DefaultEnv /\ pc' = "rom"
         /\ UNCHANGED <<idx, rb, job, proven, crashes>>
    BY <1>6 DEF FinishUpdate, Leave
  <1>14. misc' \in BootloaderControl
    <2> HIDE DEF started, img, t
    <2> QED BY <1>4, <1>5
  <1> HIDE DEF started, img, t, info, new, pending
  <1> QED BY <1>8, <1>9, <1>12, <1>13, <1>14, EnvTypes DEF TypeOK, PC

\* Android, its boot control HAL and its update engine.
LEMMA AndroidSteps ==
    ASSUME IInv, MarkBootSuccessful \/ BeginUpdate \/ FinishUpdate \/ AndroidFails
    PROVE  IInv'
  <1> USE DEF IInv
  <1>0. pc = "kernel" => Running \in Slots
    BY DEF PlanOK, PlanAt, Point, Running
  <1>1. CASE MarkBootSuccessful
    <2> DEFINE new == Proved(misc.slot[Running])
               marked == [misc EXCEPT !.slot[Running] = new, !.merge_flag = FALSE,
                                      !.firstboot = FALSE]
    <2>1. Running \in Slots
      BY <1>0, <1>1 DEF MarkBootSuccessful
    <2>2. marked \in BootloaderControl
      <3>1. misc \in BootloaderControl /\ misc.slot[Running] \in SlotMeta
        BY <2>1 DEF TypeOK, BootloaderControl
      <3>2. new \in SlotMeta
        BY <3>1, MarkTypes
      <3> HIDE DEF new
      <3> QED BY <2>1, <3>1, <3>2 DEF BootloaderControl
    <2>3. /\ misc' = marked /\ merge_status' = "NONE" /\ pc = "kernel"
          /\ proven' = proven \cup {copies[idx].gen}
          /\ UNCHANGED <<flash, copies, part, pc, ram, osOk, gen, crashes>>
      BY <1>1 DEF MarkBootSuccessful
    <2>4. copies[idx].gen \in 0..MaxGen
      BY DEF TypeOK, Images
    <2> HIDE DEF marked
    <2>5. TypeOK'
      BY <2>2, <2>3, <2>4 DEF TypeOK, ram
    <2> QED BY <2>3, <2>5, KernelKeepsPlan
  <1>2. CASE BeginUpdate
    <2> DEFINE t == Other(Running)
               empty == [priority |-> 0, tries_remaining |-> 0,
                         successful_boot |-> FALSE, uboot_status |-> 0]
    <2>1. t \in Slots
      BY <1>0, <1>2, OtherSlot DEF BeginUpdate
    <2>2. empty \in SlotMeta
      BY DEF SlotMeta
    <2>3. /\ misc' = [misc EXCEPT !.slot[t] = empty] /\ pc = "kernel"
          /\ part' = [part EXCEPT ![t] = Torn] /\ osOk' = [osOk EXCEPT ![t] = FALSE]
          /\ UNCHANGED <<flash, copies, merge_status, pc, ram, gen, proven, crashes>>
      BY <1>2 DEF BeginUpdate
    <2> HIDE DEF t, empty
    <2>4. misc' \in BootloaderControl
      <3>1. misc \in BootloaderControl
        BY DEF TypeOK
      <3> QED BY <2>2, <2>3, <3>1 DEF BootloaderControl
    <2>5. part' \in [Slots -> Images] /\ osOk' \in [Slots -> BOOLEAN]
      BY <2>3, ImageTypes DEF TypeOK
    <2>6. TypeOK'
      BY <2>3, <2>4, <2>5 DEF TypeOK, ram
    <2> QED BY <2>3, <2>6, KernelKeepsPlan
  <1>3. CASE FinishUpdate
    <2>1. Leave("normal") /\ UNCHANGED <<rb, job>>
      BY <1>3 DEF FinishUpdate
    <2>2. job'.then # "writing"
      BY <2>1 DEF PlanOK
    <2> QED BY <1>3, <2>1, <2>2, FinishUpdateTypes, LeaveKeepsPlan
  <1>4. CASE AndroidFails
    <2> DEFINE e == [LoadedEnv EXCEPT !.insufficient_data = TRUE]
    <2>1. e \in Env
      BY LoadedEnvType, EnvUpdates
    <2>2. /\ UNCHANGED flash \/ flash' = [ok |-> TRUE, val |-> e]
          /\ \E m \in {"kernel_panic", "normal"} : Leave(m)
          /\ UNCHANGED <<misc, copies, part, merge_status, idx, rb, job, world>>
      BY <1>4 DEF AndroidFails
    <2> HIDE DEF e
    <2>3. flash' \in [ok : BOOLEAN, val : Env]
      <3>1. [ok |-> TRUE, val |-> e] \in [ok : BOOLEAN, val : Env]
        BY <2>1
      <3> QED BY <2>2, <3>1 DEF TypeOK
    <2>4. TypeOK'
      BY <2>2, <2>3, EnvTypes DEF TypeOK, Leave, PC, world
    <2>5. job'.then # "writing"
      BY <2>2 DEF PlanOK
    <2> QED BY <2>2, <2>4, <2>5, LeaveKeepsPlan
  <1> QED BY <1>1, <1>2, <1>3, <1>4

\* Reboots and power cuts.
LEMMA RebootSteps ==
    ASSUME IInv, UserReboot \/ RescueParty \/ Attended \/ PowerCut
    PROVE  IInv'
  <1> USE DEF IInv
  <1>1. CASE UserReboot \/ RescueParty \/ Attended
    <2>1. /\ \E m \in Modes : Leave(m)
          /\ UNCHANGED <<storage, idx, rb, job, world>>
      BY <1>1, AbBootAssumption DEF UserReboot, RescueParty, Attended
    <2>2. TypeOK'
      BY <2>1, EnvTypes DEF TypeOK, Leave, PC, storage, world
    <2>3. job'.then # "writing"
      BY <2>1 DEF PlanOK
    <2> QED BY <2>1, <2>2, <2>3, LeaveKeepsPlan
  <1>2. CASE PowerCut
    <2>1. crashes' \in 0..MaxCrash
      BY <1>2, AbBootAssumption DEF PowerCut, TypeOK
    <2>2. TypeOK'
      BY <1>2, <2>1, EnvTypes, IdleType, PlanTypes
         DEF PowerCut, TypeOK, Leave, PC, storage
    <2>3. pc' = "rom" /\ rb' = NoRollback /\ job' = Idle
      BY <1>2 DEF PowerCut, Leave
    <2>4. PlanOK'
      BY <2>3, PlanTypes DEF PlanOK, PlanAt, Point, Idle
    <2> QED BY <2>2, <2>4
  <1> QED BY <1>1, <1>2

LEMMA NextIInv == IInv /\ [Next]_vars => IInv'
  <1> SUFFICES ASSUME IInv, [Next]_vars PROVE IInv'
    OBVIOUS
  <1>1. CASE UBoot
    BY <1>1, PowerOnSteps, GetValidSlotSteps, RollbackSteps, CheckSteps,
       UpdateSteps, TriesSteps, BootSteps DEF UBoot
  <1>2. CASE Outside
    BY <1>2, AndroidSteps, RebootSteps DEF Outside
  <1>3. CASE UNCHANGED vars
    BY <1>3 DEF vars, storage, ram, world, IInv, TypeOK, PlanOK, PlanAt, Point
  <1> QED BY <1>1, <1>2, <1>3 DEF Next

LEMMA AlwaysIInv == Spec => []IInv
  BY InitIInv, NextIInv, PTL DEF Spec

\* Whatever the number of tries, images and power cuts, every variable keeps
\* to its range: the 3-bit tries_remaining is never counted down from zero, and
\* every copy U-Boot names exists.  boot_tries_remaining is an unsigned byte, and
\* may wrap after a power cut.
THEOREM AbBootTypeOK == Spec => []TypeOK
  <1>1. IInv => TypeOK
    BY DEF IInv
  <1> QED BY <1>1, AlwaysIInv, PTL

-----------------------------------------------------------------------------
(* No silent rollback.                                                     *)

LEMMA RollFlagKeepsActive ==
    ASSUME NEW info \in BootloaderControl
    PROVE  get_active_slot([info EXCEPT !.roll_flag = TRUE]) = get_active_slot(info)
  <1>1. [info EXCEPT !.roll_flag = TRUE].slot = info.slot
    BY DEF BootloaderControl
  <1> QED BY <1>1, SameActive

\* set_active_slot is reached only after set_roll_flag, and keeps the flag.
LEMMA SwitchIsAnnounced ==
    ASSUME IInv, boot_info_validate(misc), set_active_slot
    PROVE  misc'.roll_flag \/ misc' = misc
  <1>1. CASE rb.to \in Slots
    <2>1. misc.roll_flag
      BY <1>1 DEF IInv, PlanOK, PlanAt, Point, set_active_slot
    <2>2. misc \in BootloaderControl /\ Validated(misc) = misc
      BY DEF IInv, TypeOK, Validated
    <2>3. misc' = boot_info_set_active_slot(misc, rb.to)
      BY <1>1, <2>2 DEF set_active_slot, boot_info_save
    <2>4. boot_info_set_active_slot(misc, rb.to).roll_flag = misc.roll_flag
      BY <1>1, <2>2, SetActiveSlotActivates
    <2> QED BY <2>1, <2>3, <2>4
  <1>2. CASE rb.to \notin Slots
    BY <1>2 DEF set_active_slot
  <1> QED BY <1>1, <1>2

\* Every other step of U-Boot keeps the active slot, or resets the metadata.
LEMMA OthersKeepActive ==
    ASSUME IInv, boot_info_validate(misc), UBoot, ~set_active_slot
    PROVE  get_active_slot(misc') = get_active_slot(misc) \/ misc' = boot_info_reset
  <1>1. misc \in BootloaderControl /\ Migrated(misc) = misc /\ Validated(misc) = misc
    BY DEF IInv, TypeOK, Migrated, Validated, boot_info_validate,
           boot_info_validate_normalAB
  <1>2. CASE UNCHANGED misc
    BY <1>2
  <1>3. CASE GetValidSlotBoots \/ GetValidSlotRollsBack \/ GetValidSlotResets
    BY <1>1, <1>3 DEF GetValidSlotBoots, GetValidSlotRollsBack, GetValidSlotResets,
                      boot_info_save
  <1>4. CASE set_roll_flag
    <2>1. misc' = misc \/ misc' = [misc EXCEPT !.roll_flag = TRUE]
      BY <1>4 DEF set_roll_flag, boot_info_save
    <2> QED BY <1>1, <2>1, RollFlagKeepsActive
  <1>5. CASE boot1_checked
    <2>1. BackupSlot \in Slots
      BY ActiveSlotType, OtherSlot DEF BackupSlot
    <2>2. \/ misc' = misc
          \/ misc' = [misc EXCEPT !.slot[BackupSlot].uboot_status = 2]
      BY <1>5 DEF boot1_checked, boot_info_save
    <2> QED BY <1>1, <2>1, <2>2, StatusKeepsActive
  <1>6. CASE boot1_backed_up
    <2> DEFINE s == get_active_slot(misc)
    <2>1. s \in Slots
      BY ActiveSlotType
    <2>2. misc' = misc \/ misc' = [misc EXCEPT !.slot[s].uboot_status = 2]
      BY <1>6 DEF boot1_backed_up, boot_info_save
    <2>3. get_active_slot([misc EXCEPT !.slot[s].uboot_status = 2]) = s
      BY <1>1, <2>1, StatusKeepsActive
    <2> QED BY <2>2, <2>3
  <1>7. CASE update_tries
    <2>1. CountTry(misc, mode) \in BootloaderControl
      BY <1>1, CountTryType
    <2>2. misc' = CountFirstBoot(CountTry(misc, mode), mode)
      BY <1>7 DEF update_tries, boot_info_save
    <2> QED BY <1>1, <2>1, <2>2, TriesKeepActive
  <1>8. CASE forfeit
    <2>1. misc' = ForfeitTries(misc)
      BY <1>8 DEF forfeit, boot_info_save
    <2> QED BY <1>1, <2>1, TriesKeepActive
  <1>9. CASE tries_check
    BY <1>9 DEF tries_check, boot_info_save
  <1>10. CASE check_ab
    BY <1>1, <1>10 DEF check_ab, boot_info_save
  <1>11. BootRom \/ BootRomFails \/ aml_update_env \/ Reboot \/ amlsecurecheck
           \/ ab_update_rollback \/ switch_bootmode \/ storeboot \/ FinishWrite
         => UNCHANGED misc
    BY DEF BootRom, BootRomFails, aml_update_env, Reboot, amlsecurecheck,
           ab_update_rollback, switch_bootmode, storeboot, FinishWrite, storage
  <1>12. rollback_reason \/ check_bootloader \/ set_mergestatus_cancel
           \/ write_bootloader_back \/ RollbackEnv => UNCHANGED misc
    BY DEF rollback_reason, check_bootloader, set_mergestatus_cancel,
           write_bootloader_back, RollbackEnv, storage
  <1>13. check_boot1 \/ write_boot0 \/ write_boot0_fails \/ update_gpt \/ boot0_env
           \/ forfeit_reason \/ backup_boot1 => UNCHANGED misc
    BY DEF check_boot1, write_boot0, write_boot0_fails, update_gpt, boot0_env,
           forfeit_reason, backup_boot1, storage
  <1> QED BY <1>2, <1>3, <1>4, <1>5, <1>6, <1>7, <1>8, <1>9, <1>10, <1>11, <1>12,
             <1>13 DEF UBoot, RollbackStep, UpdateStep, TriesStep

\* Outside Android the active slot changes only with roll_flag set, so that
\* update_tries can tell Android: whichever handler rolls back, and wherever
\* in it or in an earlier one the power failed.
THEOREM RollbacksAreAnnounced == Spec => RollbackAnnounced
  <1>1. IInv /\ [Next]_vars => [AnnouncedChange]_vars
    <2> SUFFICES ASSUME IInv, Next, boot_info_validate(misc), pc # "kernel",
                        get_active_slot(misc') # get_active_slot(misc),
                        misc' # boot_info_reset
                 PROVE  misc'.roll_flag
      BY DEF AnnouncedChange
    <2>1. CASE UBoot
      BY <2>1, SwitchIsAnnounced, OthersKeepActive
    <2>2. CASE Outside
      BY <2>2 DEF Outside, MarkBootSuccessful, BeginUpdate, FinishUpdate,
                  AndroidFails, UserReboot, RescueParty, Attended, PowerCut, storage
    <2> QED BY <2>1, <2>2 DEF Next
  <1> QED BY <1>1, AlwaysIInv, PTL DEF Spec, RollbackAnnounced
=============================================================================
