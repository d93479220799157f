--------------------------- MODULE AvbBootProofs ----------------------------
(***************************************************************************)
(* Proofs about AvbBoot for every number of tries, images and power cuts   *)
(* and every choice of builds: type correctness, that rollback protection  *)
(* keeps a system to go back to, that a successful bit is only found on a  *)
(* slot that has booted, that the migration keeps the active slot, the     *)
(* refinement of SlotPromise, and that without a power cut the device is   *)
(* never bricked and a system runs on the bootloader and the device tree   *)
(* it came with.                                                           *)
(***************************************************************************)
EXTENDS AvbBootProperties, TLAPS

-----------------------------------------------------------------------------
(* The operators on the metadata.                                          *)

LEMMA OtherSlot == ASSUME NEW s \in Slots
                   PROVE  Other(s) \in Slots /\ Other(s) # s /\ Other(Other(s)) = s
  BY DEF Slots, Other

LEMMA ActiveSlotType == ASSUME NEW info
                        PROVE  get_active_slot(info) \in Slots
  BY DEF get_active_slot, Slots

LEMMA ActiveSlotTypeVAB == ASSUME NEW info
                           PROVE  get_active_slot_VAB(info) \in Slots
  BY DEF get_active_slot_VAB, Slots

LEMMA SlotsReplaced ==
    ASSUME NEW info \in AvbABData, NEW f \in [Slots -> AvbABSlotData]
    PROVE  LET new == [info EXCEPT !.slots = f]
           IN  /\ new \in AvbABData
               /\ new.slots = f
               /\ new.magic = info.magic
               /\ new.roll_flag = info.roll_flag
  BY DEF AvbABData

LEMMA FlagReplaced ==
    ASSUME NEW info \in AvbABData, NEW flag \in BOOLEAN
    PROVE  LET new == [info EXCEPT !.roll_flag = flag]
           IN  new \in AvbABData /\ new.slots = info.slots /\ new.magic = info.magic
  BY DEF AvbABData

\* Slot a comes first, and it alone is marked successful.
LEMMA ResetMeta ==
    /\ boot_info_reset \in AvbABData
    /\ boot_info_reset.magic = "avb"
    /\ \A s \in Slots : /\ boot_info_reset.slots[s].priority = 15 - s
                        /\ boot_info_reset.slots[s].successful_boot <=> s = 0
  <1> DEFINE d(s) == [priority |-> AVB_AB_MAX_PRIORITY - s,
                      tries_remaining |-> AVB_AB_MAX_TRIES_REMAINING,
                      successful_boot |-> s = 0]
  <1>1. ASSUME NEW s \in Slots
        PROVE  /\ d(s) \in AvbABSlotData
               /\ d(s).priority = 15 - s
               /\ d(s).successful_boot <=> s = 0
    <2>1. AVB_AB_MAX_PRIORITY - s = 15 - s
      BY DEF AVB_AB_MAX_PRIORITY
    <2>2. AVB_AB_MAX_PRIORITY - s \in 0..AVB_AB_MAX_PRIORITY
      BY DEF Slots, AVB_AB_MAX_PRIORITY
    <2>3. AVB_AB_MAX_TRIES_REMAINING \in 0..255
      BY AvbBootAssumption
    <2>4. (s = 0) \in BOOLEAN
      OBVIOUS
    <2>5. d(s) \in AvbABSlotData
      BY <2>2, <2>3, <2>4, Zenon DEF AvbABSlotData
    <2>6. d(s).priority = AVB_AB_MAX_PRIORITY - s /\ (d(s).successful_boot <=> s = 0)
      BY Zenon
    <2> QED BY <2>1, <2>5, <2>6
  <1>2. boot_info_reset = [magic |-> "avb", slots |-> [s \in Slots |-> d(s)],
                           roll_flag |-> FALSE]
    BY DEF boot_info_reset
  <1> HIDE DEF d
  <1> QED BY <1>1, <1>2 DEF AvbABData

LEMMA RaisedSlot ==
    ASSUME NEW d \in AvbABSlotData
    PROVE  LET new == [d EXCEPT !.priority = AVB_AB_MAX_PRIORITY,
                                !.tries_remaining = AVB_AB_MAX_TRIES_REMAINING]
           IN  /\ new \in AvbABSlotData
               /\ new.priority = 15
               /\ new.successful_boot = d.successful_boot
  <1>1. AVB_AB_MAX_TRIES_REMAINING \in 0..255
    BY AvbBootAssumption
  <1>2. AVB_AB_MAX_PRIORITY \in 0..AVB_AB_MAX_PRIORITY
    BY DEF AVB_AB_MAX_PRIORITY
  <1> DEFINE new == [d EXCEPT !.priority = AVB_AB_MAX_PRIORITY,
                              !.tries_remaining = AVB_AB_MAX_TRIES_REMAINING]
  <1>3. new \in AvbABSlotData
    BY <1>1, <1>2 DEF AvbABSlotData
  <1>4. new.priority = AVB_AB_MAX_PRIORITY
    BY DEF AvbABSlotData
  <1>5. new.successful_boot = d.successful_boot
    BY DEF AvbABSlotData
  <1> HIDE DEF new
  <1>6. new.priority = 15
    BY <1>4 DEF AVB_AB_MAX_PRIORITY
  <1>7. new \in AvbABSlotData /\ new.priority = 15 /\ new.successful_boot = d.successful_boot
    BY <1>3, <1>5, <1>6
  <1> QED BY <1>7 DEF new

\* The slot becomes the active one, by priority; the successful bits stay.
LEMMA SetActiveMeta ==
    ASSUME NEW info \in AvbABData, NEW s \in Slots
    PROVE  LET new == boot_info_set_active_slot(info, s)
           IN  /\ new \in AvbABData
               /\ new.magic = info.magic
               /\ new.roll_flag = info.roll_flag
               /\ new.slots[0].priority # new.slots[1].priority
               /\ get_active_slot(new) = s
               /\ \A t \in Slots : new.slots[t].successful_boot
                                     = info.slots[t].successful_boot
  <1> DEFINE raised(t) == [info.slots[t] EXCEPT
                             !.priority = AVB_AB_MAX_PRIORITY,
                             !.tries_remaining = AVB_AB_MAX_TRIES_REMAINING]
             lowered(t) == [info.slots[t] EXCEPT
                              !.priority = IF @ = AVB_AB_MAX_PRIORITY THEN @ - 1 ELSE @]
             f == [t \in Slots |-> IF t = s THEN raised(t) ELSE lowered(t)]
  <1>1. \A t \in Slots : info.slots[t] \in AvbABSlotData
    BY DEF AvbABData
  <1>2. ASSUME NEW t \in Slots
        PROVE  /\ raised(t) \in AvbABSlotData
               /\ raised(t).priority = 15
               /\ raised(t).successful_boot = info.slots[t].successful_boot
    BY <1>1, RaisedSlot
  <1>3. ASSUME NEW t \in Slots
        PROVE  /\ lowered(t) \in AvbABSlotData
               /\ lowered(t).priority \in 0..14
               /\ lowered(t).successful_boot = info.slots[t].successful_boot
    BY <1>1 DEF AvbABSlotData, AVB_AB_MAX_PRIORITY
  <1>4. boot_info_set_active_slot(info, s) = [info EXCEPT !.slots = f]
    BY DEF boot_info_set_active_slot
  <1> HIDE DEF raised, lowered
  <1>5. f \in [Slots -> AvbABSlotData]
    BY <1>2, <1>3
  <1>6. \A t \in Slots : /\ t = s => f[t].priority = 15
                         /\ t # s => f[t].priority \in 0..14
                         /\ f[t].successful_boot = info.slots[t].successful_boot
    BY <1>2, <1>3
  <1> HIDE DEF f
  <1>7. f[0].priority # f[1].priority /\ (f[0].priority > f[1].priority <=> s = 0)
    BY <1>6 DEF Slots
  <1> QED BY <1>4, <1>5, <1>6, <1>7, SlotsReplaced DEF get_active_slot, Slots

LEMMA ValidatedMeta ==
    ASSUME NEW info \in AvbABData
    PROVE  /\ Validated(info) \in AvbABData
           /\ Validated(info).magic = "avb"
           /\ boot_info_validate(info) => Validated(info) = info
           /\ ~boot_info_validate(info) => Validated(info) = boot_info_reset
  BY ResetMeta DEF Validated, boot_info_validate

\* Metadata that is not valid is replaced by a reset, but for the active slot
\* of a virtual A/B bootloader.
LEMMA MigratedMeta ==
    ASSUME NEW info \in AvbABData
    PROVE  LET new == Migrated(info)
           IN  /\ new \in AvbABData
               /\ new.magic = "avb"
               /\ boot_info_validate(info) => new = info
               /\ ~boot_info_validate(info) =>
                    /\ new.slots[0].priority # new.slots[1].priority
                    /\ \A t \in Slots : new.slots[t].successful_boot <=> t = 0
               /\ boot_info_validate_VAB(info) =>
                    get_active_slot(new) = get_active_slot_VAB(info)
  <1>1. CASE boot_info_validate_VAB(info)
    <2> DEFINE moved == boot_info_set_active_slot(boot_info_reset, get_active_slot_VAB(info))
    <2>1. /\ moved \in AvbABData
          /\ moved.magic = "avb"
          /\ moved.slots[0].priority # moved.slots[1].priority
          /\ get_active_slot(moved) = get_active_slot_VAB(info)
          /\ \A t \in Slots : moved.slots[t].successful_boot <=> t = 0
      <3>1. get_active_slot_VAB(info) \in Slots
        BY ActiveSlotTypeVAB
      <3> DEFINE a == get_active_slot_VAB(info)
      <3> HIDE DEF a
      <3>2. a \in Slots
        BY <3>1 DEF a
      <3> DEFINE new == boot_info_set_active_slot(boot_info_reset, a)
      <3>3. /\ new \in AvbABData
            /\ new.magic = "avb"
            /\ new.slots[0].priority # new.slots[1].priority
            /\ get_active_slot(new) = a
            /\ \A t \in Slots : new.slots[t].successful_boot
                                  = boot_info_reset.slots[t].successful_boot
        BY <3>2, ResetMeta, SetActiveMeta
      <3>4. \A t \in Slots : boot_info_reset.slots[t].successful_boot <=> t = 0
        BY ResetMeta
      <3> HIDE DEF new
      <3>5. \A t \in Slots : new.slots[t].successful_boot <=> t = 0
        BY <3>3, <3>4, Zenon
      <3> QED BY <3>3, <3>5 DEF a, new
    <2>2. info.roll_flag \in BOOLEAN
      BY DEF AvbABData
    <2>3. Migrated(info) = [moved EXCEPT !.roll_flag = info.roll_flag]
      BY <1>1 DEF Migrated
    <2>4. ~boot_info_validate(info)
      BY <1>1 DEF boot_info_validate, boot_info_validate_VAB
    <2> HIDE DEF moved
    <2>5. /\ Migrated(info) \in AvbABData
          /\ Migrated(info).slots = moved.slots
          /\ Migrated(info).magic = moved.magic
      BY <2>1, <2>2, <2>3, FlagReplaced
    <2> QED BY <2>1, <2>4, <2>5 DEF get_active_slot
  <1>2. CASE ~boot_info_validate_VAB(info)
    <2>1. Migrated(info) = Validated(info)
      BY <1>2 DEF Migrated
    <2> QED BY <1>2, <2>1, ValidatedMeta, ResetMeta DEF Slots
  <1> QED BY <1>1, <1>2

\* The tries of one slot change, and do not wrap.
LEMMA CountTryMeta ==
    ASSUME NEW info \in AvbABData
    PROVE  LET new == CountTry(info)
           IN  /\ new \in AvbABData
               /\ new.magic = info.magic
               /\ \A t \in Slots :
                    /\ new.slots[t].priority = info.slots[t].priority
                    /\ new.slots[t].successful_boot = info.slots[t].successful_boot
  <1> DEFINE s == get_active_slot(info)
             d == info.slots[s]
             less == [d EXCEPT !.tries_remaining = @ - 1]
             f == [info.slots EXCEPT ![s] = less]
  <1>1. s \in Slots
    BY ActiveSlotType
  <1>2. d \in AvbABSlotData /\ info.slots \in [Slots -> AvbABSlotData]
    BY <1>1 DEF AvbABData
  <1>3. CASE slot_is_bootable(info, s) /\ ~d.successful_boot
    <2>1. d.tries_remaining > 0
      BY <1>3 DEF slot_is_bootable
    <2>2. /\ less \in AvbABSlotData
          /\ less.priority = d.priority
          /\ less.successful_boot = d.successful_boot
      BY <1>2, <2>1 DEF AvbABSlotData
    <2>3. CountTry(info) = [info EXCEPT !.slots = f]
      BY <1>3 DEF CountTry
    <2> HIDE DEF less, d, s
    <2>4. f \in [Slots -> AvbABSlotData]
      BY <1>1, <1>2, <2>2
    <2>5. \A t \in Slots : /\ f[t].priority = info.slots[t].priority
                           /\ f[t].successful_boot = info.slots[t].successful_boot
      BY <1>1, <1>2, <2>2 DEF d
    <2> HIDE DEF f
    <2> QED BY <2>3, <2>4, <2>5, SlotsReplaced
  <1>4. CASE ~(slot_is_bootable(info, s) /\ ~d.successful_boot)
    BY <1>4 DEF CountTry
  <1> QED BY <1>3, <1>4

-----------------------------------------------------------------------------
(* Types.                                                                  *)

LEMMA ImageTypes == Torn \in Images /\ FactoryImage \in Images
  BY AvbBootAssumption DEF Torn, FactoryImage, Images

LEMMA EnvTypes ==
    /\ DefaultEnv \in Env
    /\ \A e \in Env : /\ [DefaultEnv EXCEPT !.reboot_next = e.reboot_next] \in Env
                      /\ [e EXCEPT !.update_dt = FALSE] \in Env
                      /\ [e EXCEPT !.reboot_next = FALSE] \in Env
                      /\ [e EXCEPT !.update_env = TRUE, !.reboot_next = TRUE] \in Env
  BY DEF DefaultEnv, Env

LEMMA UnbootableType == Unbootable \in AvbABSlotData
  BY DEF Unbootable, AvbABSlotData, AVB_AB_MAX_PRIORITY

Rollbacks == [to : Slots \cup {NoSlot}, src : Copies]

LEMMA RollbackTypes ==
    /\ NoRollback \in Rollbacks
    /\ \A s \in Slots : RollbackFrom(s) \in Rollbacks /\ RollbackFrom(s).to \in Slots
    /\ idx \in Copies => RollbackOnMismatch \in Rollbacks /\ RollbackOnMismatch.to \in Slots
  BY DEF NoRollback, RollbackFrom, RollbackOnMismatch, Rollbacks, Slots, Other, Copies,
         NoSlot

\* A slot has been chosen before it is loaded, and a rollback names the slot
\* that it goes back to.
Chosen ==
    /\ pc \in {"storeboot", "kernel", "active_dtb"} => slot \in Slots
    /\ pc \in {"copy", "writing", "flag", "active"} => rb.to \in Slots

TypeInv == TypeOK /\ Chosen

LEMMA InitTypes == Init => TypeInv
  <1> SUFFICES ASSUME Init PROVE TypeInv
    OBVIOUS
  <1>1. misc \in AvbABData
    <2>1. Uninitialised \in AvbABData
      BY ResetMeta DEF Uninitialised, AvbABData
    <2>2. VirtualAB \subseteq AvbABData
      <3> DEFINE D == [priority : {7, 14, 15}, tries_remaining : {0, 1},
                       successful_boot : BOOLEAN]
                 F == {f \in [Slots -> D] :
                         /\ {f[0].priority, f[1].priority} \in {{7, 15}, {14, 15}}
                         /\ \E s \in Slots : f[s].tries_remaining # 0 /\ f[s].successful_boot
                         /\ SlotAProven => f[0].tries_remaining # 0 /\ f[0].successful_boot}
      <3>1. D \subseteq AvbABSlotData
        BY DEF AvbABSlotData, AVB_AB_MAX_PRIORITY
      <3> HIDE DEF D
      <3>2. F \subseteq [Slots -> AvbABSlotData]
        BY <3>1
      <3>3. VirtualAB = [magic : {"vab"}, slots : F, roll_flag : {FALSE}]
        BY DEF VirtualAB, D
      <3> HIDE DEF F
      <3> QED BY <3>2, <3>3 DEF AvbABData
    <2> QED BY <2>1, <2>2 DEF Init
  <1>2. booted \subseteq Slots
    BY DEF Init, Slots
  <1>3. /\ copies \in [Copies -> Images]
        /\ shipped \in [Slots -> Images]
    BY ImageTypes DEF Init
  <1>4. /\ flash \in Env
        /\ rb \in Rollbacks
    BY EnvTypes, RollbackTypes DEF Init
  <1>5. /\ dtb \in 0..MaxGen /\ gen \in 1..MaxGen
        /\ otp \in 0..1 /\ index \in [Slots -> 0..1]
        /\ idx \in Copies /\ slot \in Slots \cup {NoSlot}
        /\ pc \in PC /\ mode \in {"normal", "rescueparty"}
        /\ cuts \in 0..MaxCuts
    BY AvbBootAssumption DEF Init, Copies, PC
  <1>6. early \in Builds /\ osOk \in [Slots -> BOOLEAN]
    BY DEF Init
  <1>7. Chosen
    BY DEF Init, Chosen
  <1> QED BY <1>1, <1>2, <1>3, <1>4, <1>5, <1>6, <1>7 DEF TypeInv, TypeOK, Rollbacks

LEMMA GetValidSlotTypes ==
    ASSUME TypeInv, GetValidSlot
    PROVE  TypeInv'
  <1>1. Migrated(misc) \in AvbABData /\ get_active_slot(Migrated(misc)) \in Slots
    BY MigratedMeta, ActiveSlotType DEF TypeInv, TypeOK
  <1>2. CASE GetValidSlotBoots
    BY <1>1, <1>2 DEF TypeInv, TypeOK, Chosen, GetValidSlotBoots, boot_info_save, world,
                      systems, AfterGetValidSlot, PC
  <1>3. CASE GetValidSlotFails
    BY <1>1, <1>3, RollbackTypes
       DEF TypeInv, TypeOK, Chosen, GetValidSlotFails, boot_info_save, world, systems,
           PC, Rollbacks
  <1> QED BY <1>2, <1>3 DEF GetValidSlot

LEMMA RollbackStepTypes ==
    ASSUME TypeInv, Rollback
    PROVE  TypeInv'
  <1>1. CASE StartCopy
    BY <1>1, ImageTypes DEF TypeInv, TypeOK, Chosen, StartCopy, ram, world, systems, PC
  <1>2. CASE FinishCopy
    BY <1>2 DEF TypeInv, TypeOK, Chosen, FinishCopy, ram, world, systems, PC
  <1>3. CASE set_roll_flag
    <2>1. misc \in AvbABData
      BY DEF TypeInv, TypeOK
    <2>2. misc' \in AvbABData
      BY <1>3, <2>1, FlagReplaced DEF set_roll_flag, boot_info_save
    <2> QED BY <1>3, <2>2 DEF TypeInv, TypeOK, Chosen, set_roll_flag, boot_info_save, ram,
                              world, systems, PC
  <1>4. CASE set_active_slot
    <2>1. misc \in AvbABData /\ rb.to \in Slots
      BY <1>4 DEF TypeInv, TypeOK, Chosen, set_active_slot
    <2>2. boot_info_set_active_slot(Validated(misc), rb.to) \in AvbABData
      BY <2>1, ValidatedMeta, SetActiveMeta
    <2> QED BY <1>4, <2>1, <2>2
            DEF TypeInv, TypeOK, Chosen, set_active_slot, boot_info_save, world, systems, PC
  <1>5. CASE RollbackEnv
    <2>1. flash' \in Env
      BY <1>5, EnvTypes DEF TypeInv, TypeOK, RollbackEnv
    <2> QED BY <1>5, <2>1, RollbackTypes
            DEF TypeInv, TypeOK, Chosen, RollbackEnv, world, systems, PC, NoSlot, Rollbacks
  <1>6. CASE restore_dtb
    <2>1. dtb' \in 0..MaxGen
      BY <1>6 DEF TypeInv, TypeOK, Chosen, restore_dtb, DeviceTreeOf, Images
    <2> QED BY <1>6, <2>1 DEF TypeInv, TypeOK, Chosen, restore_dtb, ram, world, systems, PC
  <1> QED BY <1>1, <1>2, <1>3, <1>4, <1>5, <1>6 DEF Rollback

LEMMA BootTypes ==
    ASSUME TypeInv, \/ BootRom \/ BootRomFails \/ aml_update_env \/ update_dt
                    \/ update_dt_done \/ ab_update_rollback \/ RebootAfterErase
                    \/ update_tries
    PROVE  TypeInv'
  <1>1. CASE BootRom
    BY <1>1 DEF TypeInv, TypeOK, Chosen, BootRom, storage, world, systems, PC
  <1>2. CASE BootRomFails
    BY <1>2 DEF TypeInv, TypeOK, Chosen, BootRomFails, storage, ram, world, systems, PC
  <1>3. CASE aml_update_env
    <2>1. flash' \in Env
      BY <1>3, EnvTypes DEF TypeInv, TypeOK, aml_update_env
    <2> QED BY <1>3, <2>1 DEF TypeInv, TypeOK, Chosen, aml_update_env, ram, world, systems, PC
  <1>4. CASE update_dt
    <2>1. dtb' \in 0..MaxGen
      BY <1>4 DEF TypeInv, TypeOK, update_dt, DeviceTreeOf, Images
    <2> QED BY <1>4, <2>1 DEF TypeInv, TypeOK, Chosen, update_dt, ram, world, systems, PC
  <1>5. CASE ab_update_rollback
    <2>1. flash' \in Env
      BY <1>5, EnvTypes DEF TypeInv, TypeOK, ab_update_rollback
    <2>2. /\ rb' \in Rollbacks /\ pc' \in PC
          /\ Chosen'
      BY <1>5, RollbackTypes DEF TypeInv, TypeOK, Chosen, ab_update_rollback, PC, Rollbacks
    <2> QED BY <1>5, <2>1, <2>2
            DEF TypeInv, TypeOK, ab_update_rollback, world, systems, Rollbacks
  <1>6. CASE update_tries
    <2>1. CountTry(Validated(misc)) \in AvbABData
      BY ValidatedMeta, CountTryMeta DEF TypeInv, TypeOK
    <2> QED BY <1>6, <2>1 DEF TypeInv, TypeOK, Chosen, update_tries, boot_info_save, ram,
                              world, systems, PC
  <1>7. CASE update_dt_done
    <2>1. flash' \in Env
      BY <1>7, EnvTypes DEF TypeInv, TypeOK, update_dt_done
    <2> QED BY <1>7, <2>1 DEF TypeInv, TypeOK, Chosen, update_dt_done, ram, world, systems, PC
  <1>8. CASE RebootAfterErase
    BY <1>8 DEF TypeInv, TypeOK, Chosen, RebootAfterErase, storage, world, systems, PC, NoSlot
  <1> QED BY <1>1, <1>2, <1>3, <1>4, <1>5, <1>6, <1>7, <1>8

LEMMA StorebootTypes ==
    ASSUME TypeInv, Storeboot
    PROVE  TypeInv'
  <1>1. CASE BootSlot
    BY <1>1 DEF TypeInv, TypeOK, Chosen, BootSlot, ram, world, systems, PC
  <1>2. CASE RollbackIndexRejected
    BY <1>2, RollbackTypes DEF TypeInv, TypeOK, Chosen, RollbackIndexRejected, storage,
                               world, systems, PC, Rollbacks
  <1>3. CASE BootFails
    BY <1>3 DEF TypeInv, TypeOK, Chosen, BootFails, storage, ram, world, systems, PC
  <1> QED BY <1>1, <1>2, <1>3 DEF Storeboot

\* What the boot control HAL does to the metadata.
Marked(info, s) == [info EXCEPT !.slots[s].successful_boot = TRUE]

LEMMA MarkedMeta ==
    ASSUME NEW info \in AvbABData, NEW s \in Slots, NEW new,
           new = Marked(info, s)
    PROVE  /\ new \in AvbABData
           /\ new.magic = info.magic
           /\ new.slots[s].successful_boot
           /\ \A t \in Slots : /\ new.slots[t].priority = info.slots[t].priority
                               /\ t # s => new.slots[t].successful_boot
                                             = info.slots[t].successful_boot
  <1> DEFINE d == info.slots[s]
             e == [d EXCEPT !.successful_boot = TRUE]
             f == [info.slots EXCEPT ![s] = e]
  <1>1. d \in AvbABSlotData /\ info.slots \in [Slots -> AvbABSlotData]
    BY DEF AvbABData
  <1>2. e \in AvbABSlotData /\ e.priority = d.priority /\ e.successful_boot
    BY <1>1 DEF AvbABSlotData
  <1>3. new = [info EXCEPT !.slots = f]
    BY DEF Marked
  <1> HIDE DEF e
  <1>4. /\ f \in [Slots -> AvbABSlotData]
        /\ f[s] = e
        /\ \A t \in Slots : t # s => f[t] = info.slots[t]
    BY <1>1, <1>2
  <1> HIDE DEF f
  <1>5. new \in AvbABData /\ new.slots = f /\ new.magic = info.magic
    BY ONLY <1>3, <1>4, SlotsReplaced, info \in AvbABData
  <1>6. new.slots[s].successful_boot
    BY ONLY <1>2, <1>4, <1>5
  <1>7. ASSUME NEW t \in Slots
        PROVE  /\ new.slots[t].priority = info.slots[t].priority
               /\ t # s => new.slots[t].successful_boot = info.slots[t].successful_boot
    <2>1. CASE t = s
      BY ONLY <1>2, <1>4, <1>5, <2>1 DEF d
    <2>2. CASE t # s
      BY ONLY <1>4, <1>5, <2>2, t \in Slots
    <2> QED BY ONLY <2>1, <2>2
  <1> QED BY ONLY <1>5, <1>6, <1>7

LEMMA DiscardedMeta ==
    ASSUME NEW info \in AvbABData, NEW s \in Slots
    PROVE  LET new == [info EXCEPT !.slots[s] = Unbootable]
           IN  /\ new \in AvbABData
               /\ new.magic = info.magic
               /\ new.slots[s].priority = 0
               /\ ~new.slots[s].successful_boot
               /\ \A t \in Slots : t # s => new.slots[t] = info.slots[t]
  <1> DEFINE f == [info.slots EXCEPT ![s] = Unbootable]
  <1>1. info.slots \in [Slots -> AvbABSlotData]
    BY DEF AvbABData
  <1>2. [info EXCEPT !.slots[s] = Unbootable] = [info EXCEPT !.slots = f]
    OBVIOUS
  <1> DEFINE g == [info EXCEPT !.slots = f]
  <1>3. /\ f \in [Slots -> AvbABSlotData]
        /\ f[s] = Unbootable
        /\ \A t \in Slots : t # s => f[t] = info.slots[t]
    BY <1>1, UnbootableType
  <1>4. Unbootable.priority = 0 /\ ~Unbootable.successful_boot
    BY DEF Unbootable
  <1> HIDE DEF f
  <1>5. g \in AvbABData /\ g.slots = f /\ g.magic = info.magic
    BY <1>3, SlotsReplaced
  <1> HIDE DEF g
  <1>6. /\ g.slots[s].priority = 0 /\ ~g.slots[s].successful_boot
        /\ \A t \in Slots : t # s => g.slots[t] = info.slots[t]
    BY <1>2, <1>3, <1>4, <1>5
  <1> QED BY <1>2, <1>5, <1>6 DEF g

LEMMA OutsideTypes ==
    ASSUME TypeInv, Outside
    PROVE  TypeInv'
  <1>1. CASE MarkBootSuccessful
    <2>1. slot \in Slots /\ misc \in AvbABData
      BY <1>1 DEF TypeInv, TypeOK, Chosen, MarkBootSuccessful
    <2>2. misc' = Marked(misc, slot)
      BY <1>1 DEF MarkBootSuccessful, Marked
    <2>3. misc' \in AvbABData
      BY <2>1, <2>2, MarkedMeta
    <2> QED BY <1>1, <2>1, <2>3 DEF TypeInv, TypeOK, Chosen, MarkBootSuccessful, ram
  <1>2. CASE BeginUpdate
    <2>1. slot \in Slots /\ Other(slot) \in Slots /\ misc \in AvbABData
      BY <1>2, OtherSlot DEF TypeInv, TypeOK, Chosen, BeginUpdate, CanUpdate
    <2>2. misc' \in AvbABData
      BY <1>2, <2>1, DiscardedMeta DEF BeginUpdate
    <2> QED BY <1>2, <2>1, <2>2 DEF TypeInv, TypeOK, Chosen, BeginUpdate, ram
  <1>3. CASE FinishUpdate
    <2>1. slot \in Slots /\ Other(slot) \in Slots /\ misc \in AvbABData
          /\ gen + 1 \in 1..MaxGen
      BY <1>3, OtherSlot, AvbBootAssumption
         DEF TypeInv, TypeOK, Chosen, FinishUpdate, CanUpdate
    <2> DEFINE t == Other(slot)
    <2>2. PICK good \in BOOLEAN, works \in BOOLEAN, i \in 0..1, dt \in BOOLEAN, all \in BOOLEAN :
             /\ shipped' = [shipped EXCEPT ![t] = [gen |-> gen + 1, good |-> good]]
             /\ copies' = [copies EXCEPT ![0] = [gen |-> gen + 1, good |-> good],
                                         ![1 + t] = [gen |-> gen + 1, good |-> good]]
             /\ index' = [index EXCEPT ![t] = i]
             /\ osOk' = [osOk EXCEPT ![t] = works]
             /\ flash' = [reboot_next |-> TRUE, update_env |-> all, update_dt |-> dt]
             /\ misc' = [boot_info_set_active_slot(misc, t) EXCEPT !.roll_flag = FALSE]
      BY <1>3 DEF FinishUpdate
    <2> DEFINE img == [gen |-> gen + 1, good |-> good]
    <2>3. img \in Images
      BY <2>1 DEF Images
    <2>4. misc' \in AvbABData
      BY <2>1, <2>2, SetActiveMeta, FlagReplaced
    <2>5. flash' \in Env
      BY <2>2 DEF Env
    <2> HIDE DEF img
    <2>6. shipped' \in [Slots -> Images] /\ copies' \in [Copies -> Images]
      BY <2>1, <2>2, <2>3 DEF TypeInv, TypeOK, img
    <2>7. index' \in [Slots -> 0..1] /\ osOk' \in [Slots -> BOOLEAN]
      BY <2>1, <2>2 DEF TypeInv, TypeOK
    <2> QED BY <1>3, <2>1, <2>4, <2>5, <2>6, <2>7
            DEF TypeInv, TypeOK, Chosen, FinishUpdate, Leave, PC, NoSlot
  <1>4. CASE SystemFails \/ RescueParty \/ Reboot
    BY <1>4 DEF TypeInv, TypeOK, Chosen, SystemFails, RescueParty, Reboot, Leave, storage,
                world, systems, PC, NoSlot
  <1>5. CASE PowerCut
    BY <1>5, RollbackTypes, AvbBootAssumption
       DEF TypeInv, TypeOK, Chosen, PowerCut, Leave, storage, systems, PC, NoSlot, Rollbacks
  <1> QED BY <1>1, <1>2, <1>3, <1>4, <1>5 DEF Outside

LEMMA TypesKept == TypeInv /\ [Next]_vars => TypeInv'
  <1> SUFFICES ASSUME TypeInv, [Next]_vars PROVE TypeInv'
    OBVIOUS
  <1>1. CASE UBoot
    BY <1>1, BootTypes, GetValidSlotTypes, RollbackStepTypes, StorebootTypes DEF UBoot
  <1>2. CASE Outside
    BY <1>2, OutsideTypes
  <1>3. CASE UNCHANGED vars
    BY <1>3 DEF vars, storage, ram, world, systems, TypeInv, TypeOK, Chosen
  <1> QED BY <1>1, <1>2, <1>3 DEF Next

\* Every variable keeps to its range: the tries of a slot never wrap in
\* update_tries, whatever the sequence of updates, rollbacks and power cuts.
THEOREM AvbBootTypeOK == Spec => []TypeOK
  <1>1. TypeInv => TypeOK
    BY DEF TypeInv
  <1> QED BY <1>1, InitTypes, TypesKept, PTL DEF Spec

-----------------------------------------------------------------------------
(* Rollback protection and the successful bits.                            *)

Proven(s) == misc.slots[s].successful_boot

\* The slot that is loaded is the active one, and there is only one.
Selected == pc \in {"storeboot", "kernel"} =>
                boot_info_validate(misc) /\ slot = get_active_slot(misc)
Ordered == boot_info_validate(misc) => misc.slots[0].priority # misc.slots[1].priority

\* Nothing is burnt before there is valid metadata; a system that runs was
\* accepted; and a proven system that would be rejected is not the only one.
Unburnt == ~boot_info_validate(misc) => otp = 0
Accepted == pc = "kernel" => index[slot] >= otp
Covered == boot_info_validate(misc) =>
               \A s \in Slots : Proven(s) /\ index[s] < otp => Proven(Other(s))

ProtectInv == Selected /\ Ordered /\ Unburnt /\ Accepted /\ Covered

\* A reset marks slot a as successful, so it must have booted until then.
BootedInv == SuccessfulHasBooted /\ (~boot_info_validate(misc) => 0 \in booted)

\* Metadata of a virtual A/B bootloader is only seen up to the first
\* get_valid_slot, which builds that run it early reach with it.
LegacyInv ==
    boot_info_validate_VAB(misc) =>
        /\ early \in LegacyBuilds
        /\ early => pc \in {"rom", "bricked", "aml_update_env", "bcb_early"}

\* What every step of U-Boot but the burning does to the metadata: the
\* successful bits stay, unless the metadata is replaced.
MetaKept ==
    /\ index' = index /\ booted' = booted /\ early' = early
    /\ misc' = misc \/ boot_info_validate(misc')
    /\ boot_info_validate(misc) =>
         \A t \in Slots : misc'.slots[t].successful_boot = misc.slots[t].successful_boot
    /\ (~boot_info_validate(misc) /\ boot_info_validate(misc')) =>
         \A t \in Slots : misc'.slots[t].successful_boot <=> t = 0
    /\ Ordered => Ordered'

LEMMA SameMeta ==
    ASSUME misc' = misc, index' = index, booted' = booted, early' = early
    PROVE  MetaKept
  BY DEF MetaKept, Ordered, boot_info_validate

LEMMA GetValidSlotMeta == ASSUME TypeInv, GetValidSlot
                          PROVE  MetaKept /\ misc' = Migrated(misc)
  <1>1. misc' = Migrated(misc) /\ index' = index /\ booted' = booted /\ early' = early
    BY DEF GetValidSlot, GetValidSlotBoots, GetValidSlotFails, boot_info_save, world, systems
  <1>2. misc \in AvbABData
    BY DEF TypeInv, TypeOK
  <1> DEFINE new == Migrated(misc)
  <1>3. /\ new.magic = "avb"
        /\ boot_info_validate(misc) => new = misc
        /\ ~boot_info_validate(misc) =>
              /\ new.slots[0].priority # new.slots[1].priority
              /\ \A t \in Slots : new.slots[t].successful_boot <=> t = 0
    BY <1>2, MigratedMeta
  <1> HIDE DEF new
  <1>4. misc' = new
    BY <1>1 DEF new
  <1> QED BY <1>1, <1>3, <1>4 DEF MetaKept, Ordered, boot_info_validate

LEMMA SetActiveSlotMeta == ASSUME TypeInv, set_active_slot
                           PROVE  MetaKept
  <1>1. misc \in AvbABData /\ rb.to \in Slots
    BY DEF TypeInv, TypeOK, Chosen, set_active_slot
  <1> DEFINE old == Validated(misc)
             new == boot_info_set_active_slot(old, rb.to)
  <1>2. /\ old \in AvbABData
        /\ old.magic = "avb"
        /\ boot_info_validate(misc) => old = misc
        /\ ~boot_info_validate(misc) => old = boot_info_reset
    BY <1>1, ValidatedMeta
  <1>3. misc' = new /\ index' = index /\ booted' = booted /\ early' = early
    BY DEF set_active_slot, boot_info_save, world, systems
  <1> HIDE DEF old
  <1>4. /\ new.magic = old.magic
        /\ new.slots[0].priority # new.slots[1].priority
        /\ \A t \in Slots : new.slots[t].successful_boot = old.slots[t].successful_boot
    BY <1>1, <1>2, SetActiveMeta
  <1> HIDE DEF new
  <1>5. \A t \in Slots : boot_info_reset.slots[t].successful_boot <=> t = 0
    BY ResetMeta
  <1> QED BY <1>2, <1>3, <1>4, <1>5 DEF MetaKept, Ordered, boot_info_validate

LEMMA UpdateTriesMeta == ASSUME TypeInv, update_tries
                         PROVE  MetaKept
  <1>1. misc \in AvbABData
    BY DEF TypeInv, TypeOK
  <1> DEFINE old == Validated(misc)
             new == CountTry(old)
  <1>2. /\ old \in AvbABData
        /\ old.magic = "avb"
        /\ boot_info_validate(misc) => old = misc
        /\ ~boot_info_validate(misc) => old = boot_info_reset
    BY <1>1, ValidatedMeta
  <1>3. misc' = new /\ index' = index /\ booted' = booted /\ early' = early
    BY DEF update_tries, boot_info_save, world, systems
  <1> HIDE DEF old
  <1>4. /\ new.magic = old.magic
        /\ \A t \in Slots : /\ new.slots[t].priority = old.slots[t].priority
                            /\ new.slots[t].successful_boot = old.slots[t].successful_boot
    BY <1>2, CountTryMeta
  <1> HIDE DEF new
  <1>5. /\ boot_info_reset.slots[0].priority # boot_info_reset.slots[1].priority
        /\ \A t \in Slots : boot_info_reset.slots[t].successful_boot <=> t = 0
    BY ResetMeta DEF Slots
  <1> QED BY <1>2, <1>3, <1>4, <1>5 DEF MetaKept, Ordered, boot_info_validate, Slots

LEMMA SetRollFlagMeta == ASSUME TypeInv, set_roll_flag
                         PROVE  MetaKept
  <1>1. misc \in AvbABData
    BY DEF TypeInv, TypeOK
  <1>2. misc'.slots = misc.slots /\ misc'.magic = misc.magic
        /\ (misc' = misc \/ boot_info_validate(misc'))
    BY <1>1, FlagReplaced DEF set_roll_flag, boot_info_save, boot_info_validate
  <1>3. index' = index /\ booted' = booted /\ early' = early
    BY DEF set_roll_flag, world, systems
  <1> QED BY <1>2, <1>3 DEF MetaKept, Ordered, boot_info_validate

\* The steps that neither load nor prove nor update a system.
Ordinary == \/ BootRom \/ BootRomFails \/ aml_update_env \/ GetValidSlot \/ Rollback
            \/ update_dt \/ update_dt_done
            \/ ab_update_rollback \/ RebootAfterErase \/ update_tries
            \/ RollbackIndexRejected \/ BootFails
            \/ SystemFails \/ RescueParty \/ Reboot \/ PowerCut

LEMMA OrdinaryMeta == ASSUME TypeInv, Ordinary
                      PROVE  MetaKept /\ otp' = otp
  <1>1. CASE GetValidSlot
    BY <1>1, GetValidSlotMeta DEF GetValidSlot, GetValidSlotBoots, GetValidSlotFails
  <1>2. CASE set_active_slot
    BY <1>2, SetActiveSlotMeta DEF set_active_slot
  <1>3. CASE set_roll_flag
    BY <1>3, SetRollFlagMeta DEF set_roll_flag
  <1>4. CASE update_tries
    BY <1>4, UpdateTriesMeta DEF update_tries
  <1>5. CASE \/ BootRom \/ BootRomFails \/ aml_update_env \/ update_dt
             \/ ab_update_rollback \/ StartCopy \/ FinishCopy \/ RollbackEnv
    BY <1>5, SameMeta
       DEF BootRom, BootRomFails, aml_update_env, update_dt, ab_update_rollback, StartCopy,
           FinishCopy, RollbackEnv, storage, world, systems
  <1>7. CASE restore_dtb \/ update_dt_done \/ RebootAfterErase
    BY <1>7, SameMeta DEF restore_dtb, update_dt_done, RebootAfterErase, storage, world, systems
  <1>6. CASE \/ RollbackIndexRejected \/ BootFails \/ SystemFails \/ RescueParty
             \/ Reboot \/ PowerCut
    BY <1>6, SameMeta
       DEF RollbackIndexRejected, BootFails, SystemFails, RescueParty, Reboot, PowerCut,
           storage, world, systems
  <1> QED BY <1>1, <1>2, <1>3, <1>4, <1>5, <1>6, <1>7 DEF Ordinary, Rollback

LEMMA OrdinaryCovered == ASSUME TypeInv, ProtectInv, Ordinary
                         PROVE  Ordered' /\ Unburnt' /\ Covered'
  <1>1. MetaKept /\ otp' = otp
    BY OrdinaryMeta
  <1>2. /\ index \in [Slots -> 0..1] /\ otp \in 0..1
    BY DEF TypeInv, TypeOK
  <1>3. Ordered'
    BY <1>1 DEF MetaKept, ProtectInv
  <1>4. Unburnt'
    BY <1>1 DEF MetaKept, ProtectInv, Unburnt, boot_info_validate
  <1>5. Covered'
    <2> SUFFICES ASSUME boot_info_validate(misc'), NEW s \in Slots,
                        misc'.slots[s].successful_boot, index[s] < otp
                 PROVE  misc'.slots[Other(s)].successful_boot
      BY <1>1 DEF Covered, Proven, MetaKept
    <2>1. boot_info_validate(misc)
      BY <1>2 DEF ProtectInv, Unburnt
    <2> QED BY <1>1, <2>1, OtherSlot DEF ProtectInv, Covered, Proven, MetaKept
  <1> QED BY <1>3, <1>4, <1>5

\* Only get_valid_slot goes on to load a slot.
LEMMA OrdinarySelected == ASSUME TypeInv, ProtectInv, Ordinary
                          PROVE  Selected' /\ Accepted'
  <1>1. CASE GetValidSlotBoots
    <2>1. misc' = Migrated(misc) /\ slot' = get_active_slot(Migrated(misc))
          /\ Migrated(misc).magic = "avb"
      BY <1>1, MigratedMeta DEF GetValidSlotBoots, boot_info_save, TypeInv, TypeOK
    <2>2. pc' # "kernel"
      BY <1>1 DEF GetValidSlotBoots, boot_info_save, AfterGetValidSlot
    <2> QED BY <2>1, <2>2 DEF Selected, Accepted, boot_info_validate
  <1>2. CASE \/ BootRom \/ BootRomFails \/ aml_update_env \/ GetValidSlotFails \/ Rollback
             \/ update_dt \/ update_dt_done \/ RebootAfterErase
    BY <1>2 DEF BootRom, BootRomFails, aml_update_env, GetValidSlotFails, Rollback,
                StartCopy, FinishCopy, set_roll_flag, set_active_slot, restore_dtb,
                RollbackEnv, boot_info_save, update_dt, update_dt_done, RebootAfterErase,
                Selected, Accepted
  <1>3. CASE \/ ab_update_rollback \/ update_tries \/ RollbackIndexRejected \/ BootFails
             \/ SystemFails \/ RescueParty \/ Reboot \/ PowerCut
    BY <1>3 DEF ab_update_rollback, update_tries, boot_info_save, RollbackIndexRejected,
                BootFails, SystemFails, RescueParty, Reboot, PowerCut, Leave, Selected,
                Accepted
  <1> QED BY <1>1, <1>2, <1>3 DEF Ordinary, GetValidSlot

\* The index that is burnt is the one of a system that has proven itself.
LEMMA BootSlotProtects == ASSUME TypeInv, ProtectInv, BootSlot
                          PROVE  ProtectInv'
  <1>1. /\ pc = "storeboot" /\ pc' = "kernel"
        /\ misc' = misc /\ slot' = slot /\ index' = index
        /\ slot \in Slots /\ index[slot] >= otp
        /\ otp' = IF set_successful_boot(misc) THEN index[slot] ELSE otp
    BY DEF BootSlot, TypeInv, Chosen, ram, world, systems
  <1>2. index \in [Slots -> 0..1] /\ otp \in 0..1 /\ misc \in AvbABData
    BY DEF TypeInv, TypeOK
  <1>3. /\ boot_info_validate(misc) /\ slot = get_active_slot(misc)
        /\ misc.slots[0].priority # misc.slots[1].priority
    BY <1>1 DEF ProtectInv, Selected, Ordered
  <1>4. \A s \in Slots : misc.slots[s].priority \in 0..15
    BY <1>2 DEF AvbABData, AvbABSlotData, AVB_AB_MAX_PRIORITY
  <1>5. set_successful_boot(misc) => Proven(slot)
    BY <1>3, <1>4 DEF set_successful_boot, get_active_slot, Proven, Slots
  <1>6. Covered'
    <2>1. CASE set_successful_boot(misc)
      BY <1>1, <1>2, <1>5, <2>1 DEF Covered, Proven, Slots, Other
    <2>2. CASE ~set_successful_boot(misc)
      BY <1>1, <2>2 DEF Covered, Proven, ProtectInv
    <2> QED BY <2>1, <2>2
  <1>7. Accepted'
    BY <1>1, <1>2 DEF Accepted
  <1> QED BY <1>1, <1>3, <1>6, <1>7
          DEF ProtectInv, Selected, Ordered, Unburnt

LEMMA MarkProtects == ASSUME TypeInv, ProtectInv, MarkBootSuccessful
                      PROVE  ProtectInv'
  <1>1. /\ pc = "kernel" /\ pc' = pc /\ slot' = slot /\ index' = index /\ otp' = otp
        /\ slot \in Slots /\ misc \in AvbABData
        /\ index \in [Slots -> 0..1] /\ otp \in 0..1
    BY DEF MarkBootSuccessful, TypeInv, TypeOK, Chosen, ram
  <1>2. /\ boot_info_validate(misc) /\ slot = get_active_slot(misc) /\ index[slot] >= otp
        /\ misc.slots[0].priority # misc.slots[1].priority
    BY <1>1 DEF ProtectInv, Selected, Ordered, Accepted
  <1>3. /\ misc'.magic = misc.magic
        /\ misc'.slots[slot].successful_boot
        /\ \A t \in Slots : /\ misc'.slots[t].priority = misc.slots[t].priority
                            /\ t # slot => misc'.slots[t].successful_boot
                                             = misc.slots[t].successful_boot
    <2>1. misc' = Marked(misc, slot)
      BY DEF MarkBootSuccessful, Marked
    <2> QED BY <1>1, <2>1, MarkedMeta
  <1>4. get_active_slot(misc') = get_active_slot(misc)
    BY <1>3 DEF get_active_slot, Slots
  <1>5. Covered'
    BY <1>1, <1>2, <1>3 DEF Covered, Proven, Slots, Other
  <1> QED BY <1>1, <1>2, <1>3, <1>4, <1>5
          DEF ProtectInv, Selected, Ordered, Unburnt, Accepted, boot_info_validate, Slots

LEMMA BeginUpdateProtects == ASSUME TypeInv, ProtectInv, BeginUpdate
                             PROVE  ProtectInv'
  <1>1. /\ pc = "kernel" /\ pc' = pc /\ slot' = slot /\ index' = index /\ otp' = otp
        /\ slot \in Slots /\ misc \in AvbABData /\ Other(slot) \in Slots
        /\ index \in [Slots -> 0..1] /\ otp \in 0..1
    BY OtherSlot DEF BeginUpdate, CanUpdate, TypeInv, TypeOK, Chosen, ram
  <1>2. /\ boot_info_validate(misc) /\ slot = get_active_slot(misc) /\ index[slot] >= otp
        /\ misc.slots[0].priority # misc.slots[1].priority
    BY <1>1 DEF ProtectInv, Selected, Ordered, Accepted
  <1>3. /\ misc'.magic = misc.magic
        /\ misc'.slots[Other(slot)].priority = 0
        /\ ~misc'.slots[Other(slot)].successful_boot
        /\ \A t \in Slots : t # Other(slot) => misc'.slots[t] = misc.slots[t]
    BY <1>1, DiscardedMeta DEF BeginUpdate
  <1>4. \A s \in Slots : misc.slots[s].priority \in 0..15
    BY <1>1 DEF AvbABData, AvbABSlotData, AVB_AB_MAX_PRIORITY
  <1>5. /\ misc'.slots[0].priority # misc'.slots[1].priority
        /\ get_active_slot(misc') = slot
    BY <1>1, <1>2, <1>3, <1>4 DEF get_active_slot, Slots, Other
  <1>6. Covered'
    BY <1>1, <1>2, <1>3 DEF Covered, Proven, Slots, Other
  <1> QED BY <1>1, <1>2, <1>3, <1>5, <1>6
          DEF ProtectInv, Selected, Ordered, Unburnt, Accepted, boot_info_validate

LEMMA FinishUpdateProtects == ASSUME TypeInv, ProtectInv, FinishUpdate
                              PROVE  ProtectInv'
  <1> DEFINE t == Other(slot)
  <1>1. /\ pc = "kernel" /\ pc' = "rom" /\ otp' = otp
        /\ slot \in Slots /\ misc \in AvbABData /\ t \in Slots /\ t # slot
        /\ index \in [Slots -> 0..1] /\ otp \in 0..1
        /\ misc.slots[t] = Unbootable
        /\ misc' = [boot_info_set_active_slot(misc, t) EXCEPT !.roll_flag = FALSE]
    BY OtherSlot DEF FinishUpdate, CanUpdate, Leave, TypeInv, TypeOK, Chosen
  <1>2. /\ boot_info_validate(misc) /\ index[slot] >= otp
    BY <1>1 DEF ProtectInv, Selected, Accepted
  <1>3. PICK i \in 0..1 : index' = [index EXCEPT ![t] = i]
    BY DEF FinishUpdate
  <1>4. /\ misc'.magic = misc.magic
        /\ misc'.slots[0].priority # misc'.slots[1].priority
        /\ \A s \in Slots : misc'.slots[s].successful_boot = misc.slots[s].successful_boot
    <2>1. LET new == boot_info_set_active_slot(misc, t)
          IN  /\ new \in AvbABData
              /\ new.magic = misc.magic
              /\ new.slots[0].priority # new.slots[1].priority
              /\ \A s \in Slots : new.slots[s].successful_boot
                                    = misc.slots[s].successful_boot
      BY <1>1, SetActiveMeta
    <2> QED BY <1>1, <2>1, FlagReplaced
  <1>5. ~misc.slots[t].successful_boot
    BY <1>1 DEF Unbootable
  <1>6. Covered'
    BY <1>1, <1>2, <1>3, <1>4, <1>5 DEF Covered, Proven, Slots, Other
  <1> QED BY <1>1, <1>2, <1>4, <1>6
          DEF ProtectInv, Selected, Ordered, Unburnt, Accepted, boot_info_validate

LEMMA ProtectKept == TypeInv /\ ProtectInv /\ [Next]_vars => ProtectInv'
  <1> SUFFICES ASSUME TypeInv, ProtectInv, [Next]_vars PROVE ProtectInv'
    OBVIOUS
  <1>1. CASE Ordinary
    BY <1>1, OrdinaryCovered, OrdinarySelected DEF ProtectInv
  <1>2. CASE BootSlot \/ MarkBootSuccessful \/ BeginUpdate \/ FinishUpdate
    BY <1>2, BootSlotProtects, MarkProtects, BeginUpdateProtects, FinishUpdateProtects
  <1>3. CASE UNCHANGED vars
    BY <1>3 DEF vars, storage, ram, world, systems, ProtectInv, Selected, Ordered, Unburnt,
                Accepted, Covered, Proven, boot_info_validate
  <1> QED BY <1>1, <1>2, <1>3 DEF Next, UBoot, Outside, Storeboot, Ordinary

LEMMA InitProtects == Init => ProtectInv
  <1>1. Init => ~boot_info_validate(misc)
    BY DEF Init, boot_info_validate, Uninitialised, VirtualAB, boot_info_reset
  <1> QED BY <1>1 DEF Init, ProtectInv, Selected, Ordered, Unburnt, Accepted, Covered

\* bootm burns an index only from a slot that has proven itself, so that the
\* chip never rejects the system that a slot on trial would go back to.
THEOREM FallbackStaysAccepted == Spec => []FallbackAccepted
  <1>1. TypeInv /\ ProtectInv => FallbackAccepted
    <2> SUFFICES ASSUME TypeInv, ProtectInv, boot_info_validate(misc),
                        ~Proven(get_active_slot(misc)),
                        Proven(Other(get_active_slot(misc)))
                 PROVE  index[Other(get_active_slot(misc))] >= otp
      BY DEF FallbackAccepted, Proven
    <2>1. get_active_slot(misc) \in Slots
      BY ActiveSlotType
    <2>2. index \in [Slots -> 0..1] /\ otp \in 0..1
      BY DEF TypeInv, TypeOK
    <2> QED BY <2>1, <2>2, OtherSlot DEF ProtectInv, Covered
  <1> QED BY <1>1, InitTypes, TypesKept, InitProtects, ProtectKept, PTL DEF Spec

-----------------------------------------------------------------------------
(* The successful bits and the migration.                                  *)

LEMMA BootedKept == TypeInv /\ ProtectInv /\ BootedInv /\ [Next]_vars => BootedInv'
  <1> SUFFICES ASSUME TypeInv, ProtectInv, BootedInv, [Next]_vars PROVE BootedInv'
    OBVIOUS
  <1> USE DEF BootedInv, SuccessfulHasBooted
  <1>1. CASE Ordinary
    <2>1. MetaKept
      BY <1>1, OrdinaryMeta
    <2>2. CASE boot_info_validate(misc)
      <3>1. boot_info_validate(misc')
        BY <2>1, <2>2 DEF MetaKept
      <3> QED BY <2>1, <2>2, <3>1 DEF MetaKept
    <2>3. CASE ~boot_info_validate(misc)
      BY <2>1, <2>3 DEF MetaKept
    <2> QED BY <2>2, <2>3
  <1>2. CASE MarkBootSuccessful
    <2>1. slot \in Slots /\ misc \in AvbABData /\ boot_info_validate(misc)
      BY <1>2 DEF MarkBootSuccessful, TypeInv, TypeOK, Chosen, ProtectInv, Selected
    <2>2. misc' = Marked(misc, slot) /\ booted' = booted \cup {slot}
      BY <1>2 DEF MarkBootSuccessful, Marked
    <2>3. /\ misc'.magic = misc.magic
          /\ \A t \in Slots : t # slot => misc'.slots[t].successful_boot
                                           = misc.slots[t].successful_boot
      BY <2>1, <2>2, MarkedMeta
    <2> QED BY <2>1, <2>2, <2>3 DEF boot_info_validate
  <1>3. CASE BeginUpdate
    <2>1. slot \in Slots /\ Other(slot) \in Slots /\ misc \in AvbABData
          /\ boot_info_validate(misc)
      BY <1>3, OtherSlot DEF BeginUpdate, CanUpdate, TypeInv, TypeOK, Chosen, ProtectInv,
                             Selected
    <2>2. /\ misc'.magic = misc.magic
          /\ ~misc'.slots[Other(slot)].successful_boot
          /\ \A t \in Slots : t # Other(slot) => misc'.slots[t] = misc.slots[t]
      BY <1>3, <2>1, DiscardedMeta DEF BeginUpdate
    <2>3. booted' = booted \ {Other(slot)}
      BY <1>3 DEF BeginUpdate
    <2> QED BY <2>1, <2>2, <2>3 DEF boot_info_validate
  <1>4. CASE FinishUpdate
    <2>1. Other(slot) \in Slots /\ misc \in AvbABData /\ boot_info_validate(misc)
      BY <1>4, OtherSlot DEF FinishUpdate, CanUpdate, TypeInv, TypeOK, Chosen, ProtectInv,
                             Selected
    <2>2. /\ misc' = [boot_info_set_active_slot(misc, Other(slot)) EXCEPT !.roll_flag = FALSE]
          /\ booted' = booted
      BY <1>4 DEF FinishUpdate
    <2>3. /\ misc'.magic = misc.magic
          /\ \A t \in Slots : misc'.slots[t].successful_boot = misc.slots[t].successful_boot
      BY <2>1, <2>2, SetActiveMeta, FlagReplaced
    <2> QED BY <2>1, <2>2, <2>3 DEF boot_info_validate
  <1>5. CASE BootSlot \/ UNCHANGED vars
    BY <1>5 DEF BootSlot, vars, storage, ram, world, systems, boot_info_validate
  <1> QED BY <1>1, <1>2, <1>3, <1>4, <1>5 DEF Next, UBoot, Outside, Storeboot, Ordinary

LEMMA InitBooted == SlotAProven /\ Init => BootedInv
  <1> SUFFICES ASSUME SlotAProven, Init PROVE BootedInv
    OBVIOUS
  <1>1. ~boot_info_validate(misc)
    BY DEF Init, boot_info_validate, Uninitialised, VirtualAB, boot_info_reset
  <1>2. boot_info_validate_VAB(misc) => misc.slots[0].successful_boot
    BY DEF Init, boot_info_validate_VAB, Uninitialised, VirtualAB, boot_info_reset
  <1> QED BY <1>1, <1>2 DEF Init, BootedInv, SuccessfulHasBooted, Slots

\* A slot is only marked successful after its system has booted, if slot a
\* was proven in any virtual A/B metadata the device had: both the reset and
\* the migration claim it of slot a.
THEOREM ResetsClaimOnlyBooted == SlotAProven => (Spec => []SuccessfulHasBooted)
  <1> SUFFICES ASSUME SlotAProven PROVE Spec => []SuccessfulHasBooted
    OBVIOUS
  <1>1. Init => BootedInv
    BY InitBooted
  <1>2. BootedInv => SuccessfulHasBooted
    BY DEF BootedInv
  <1> QED BY <1>1, <1>2, InitTypes, TypesKept, InitProtects, ProtectKept, BootedKept,
             PTL DEF Spec

LEMMA LegacyStep ==
    ASSUME TypeInv, ProtectInv, LegacyInv, Next, boot_info_validate_VAB(misc)
    PROVE  /\ misc' = misc \/ ~boot_info_validate_VAB(misc')
           /\ early' = early
           /\ early => \/ misc' = Migrated(misc)
                       \/ /\ misc' = misc
                          /\ pc' \in {"rom", "bricked", "aml_update_env", "bcb_early"}
  <1>1. ~boot_info_validate(misc)
    BY DEF boot_info_validate, boot_info_validate_VAB
  <1>2. CASE Ordinary
    <2>1. misc' = misc \/ ~boot_info_validate_VAB(misc')
      BY <1>2, OrdinaryMeta DEF MetaKept, boot_info_validate, boot_info_validate_VAB
    <2>2. early' = early
      BY <1>2, OrdinaryMeta DEF MetaKept
    <2>3. ASSUME early
          PROVE  \/ misc' = Migrated(misc)
                 \/ /\ misc' = misc
                    /\ pc' \in {"rom", "bricked", "aml_update_env", "bcb_early"}
      <3>1. pc \in {"rom", "bricked", "aml_update_env", "bcb_early"}
        BY <2>3 DEF LegacyInv
      <3>2. CASE GetValidSlot
        BY <3>2, GetValidSlotMeta
      <3>3. CASE BootRom \/ BootRomFails \/ aml_update_env \/ PowerCut
        BY <2>3, <3>3 DEF BootRom, BootRomFails, aml_update_env, PowerCut, Leave, storage
      <3>4. /\ ~Rollback /\ ~update_dt /\ ~update_dt_done
            /\ ~ab_update_rollback /\ ~RebootAfterErase /\ ~update_tries
        BY <3>1 DEF Rollback, StartCopy, FinishCopy, set_roll_flag, set_active_slot,
                    restore_dtb, RollbackEnv, update_dt, update_dt_done,
                    ab_update_rollback, RebootAfterErase, update_tries
      <3>5. ~RollbackIndexRejected /\ ~BootFails /\ ~SystemFails /\ ~RescueParty /\ ~Reboot
        BY <3>1 DEF RollbackIndexRejected, BootFails, SystemFails, RescueParty, Reboot
      <3> QED BY <1>2, <3>2, <3>3, <3>4, <3>5 DEF Ordinary
    <2> QED BY <2>1, <2>2, <2>3
  <1>3. CASE BootSlot \/ MarkBootSuccessful \/ BeginUpdate \/ FinishUpdate
    <2>1. pc \in {"storeboot", "kernel"}
      BY <1>3 DEF BootSlot, MarkBootSuccessful, BeginUpdate, FinishUpdate, CanUpdate
    <2> QED BY <1>1, <2>1 DEF ProtectInv, Selected
  <1> QED BY <1>2, <1>3 DEF Next, UBoot, Outside, Storeboot, Ordinary

\* Nothing writes metadata of the virtual A/B kind.
LEMMA NotLegacyAgain ==
    ASSUME TypeInv, ProtectInv, Next, ~boot_info_validate_VAB(misc)
    PROVE  ~boot_info_validate_VAB(misc')
  <1>1. CASE Ordinary
    BY <1>1, OrdinaryMeta DEF MetaKept, boot_info_validate, boot_info_validate_VAB
  <1>2. CASE BootSlot
    BY <1>2 DEF BootSlot
  <1>3. CASE MarkBootSuccessful
    <2>1. misc'.magic = misc.magic
      BY <1>3, MarkedMeta DEF MarkBootSuccessful, Marked, TypeInv, TypeOK, Chosen
    <2> QED BY <2>1 DEF boot_info_validate_VAB
  <1>4. CASE BeginUpdate
    <2>1. misc'.magic = misc.magic
      BY <1>4, DiscardedMeta, OtherSlot
         DEF BeginUpdate, CanUpdate, TypeInv, TypeOK, Chosen
    <2> QED BY <2>1 DEF boot_info_validate_VAB
  <1>5. CASE FinishUpdate
    <2>1. misc'.magic = misc.magic
      BY <1>5, SetActiveMeta, FlagReplaced, OtherSlot
         DEF FinishUpdate, CanUpdate, TypeInv, TypeOK, Chosen
    <2> QED BY <2>1 DEF boot_info_validate_VAB
  <1> QED BY <1>1, <1>2, <1>3, <1>4, <1>5 DEF Next, UBoot, Outside, Storeboot, Ordinary

LEMMA LegacyKept == TypeInv /\ ProtectInv /\ LegacyInv /\ [Next]_vars => LegacyInv'
  <1> SUFFICES ASSUME TypeInv, ProtectInv, LegacyInv, [Next]_vars,
                      boot_info_validate_VAB(misc')
               PROVE  /\ early' \in LegacyBuilds
                      /\ early' => pc' \in {"rom", "bricked", "aml_update_env", "bcb_early"}
    BY DEF LegacyInv
  <1>1. CASE Next /\ boot_info_validate_VAB(misc)
    <2>1. Migrated(misc).magic = "avb"
      BY MigratedMeta DEF TypeInv, TypeOK
    <2> QED BY <1>1, <2>1, LegacyStep DEF LegacyInv, boot_info_validate_VAB
  <1>2. CASE Next /\ ~boot_info_validate_VAB(misc)
    BY <1>2, NotLegacyAgain
  <1>3. CASE UNCHANGED vars
    BY <1>3 DEF vars, storage, ram, world, systems, LegacyInv, boot_info_validate_VAB
  <1> QED BY <1>1, <1>2, <1>3

\* The migration of virtual A/B metadata keeps the active slot, in builds
\* that run get_valid_slot before anything else reads the metadata.
THEOREM MigrationKeepsTheSlot == LegacyBuilds \subseteq {TRUE} => (Spec => MigrationKeepsActive)
  <1> SUFFICES ASSUME LegacyBuilds \subseteq {TRUE} PROVE Spec => MigrationKeepsActive
    OBVIOUS
  <1>1. Init => LegacyInv
    BY DEF Init, LegacyInv, boot_info_validate_VAB, Uninitialised, boot_info_reset
  <1>2. TypeInv /\ ProtectInv /\ LegacyInv /\ [Next]_vars
        => [(boot_info_validate_VAB(misc) /\ boot_info_validate(misc'))
            => get_active_slot(misc') = get_active_slot_VAB(misc)]_vars
    <2> SUFFICES ASSUME TypeInv, ProtectInv, LegacyInv, Next,
                        boot_info_validate_VAB(misc), boot_info_validate(misc')
                 PROVE  get_active_slot(misc') = get_active_slot_VAB(misc)
      BY DEF vars, storage
    <2>1. early /\ misc \in AvbABData
      BY DEF LegacyInv, TypeInv, TypeOK
    <2>2. misc' # misc
      BY DEF boot_info_validate, boot_info_validate_VAB
    <2>3. misc' = Migrated(misc)
      BY <2>1, <2>2, LegacyStep
    <2> QED BY <2>1, <2>3, MigratedMeta
  <1> QED BY <1>1, <1>2, InitTypes, TypesKept, InitProtects, ProtectKept, LegacyKept,
             PTL DEF Spec, MigrationKeepsActive
-----------------------------------------------------------------------------
(* AvbBoot keeps the promise of SlotPromise: the step simulation behind    *)
(* the refinement KeepsPromise, for every number of tries, images and      *)
(* power cuts.                                                             *)
(*                                                                         *)
(* The refinement mapping: what SlotPromise sees of the metadata.          *)

ActiveIn(info) == get_active_slot(Migrated(info))
StatusIn(info) == [s \in Slots |-> SlotStatus(Migrated(info).slots[s])]

active == ActiveIn(misc)
status == StatusIn(misc)

Legacy == boot_info_validate_VAB(misc)
Statuses == {"proven", "trial", "empty"}

LEMMA StatusOf ==
    ASSUME NEW d \in AvbABSlotData
    PROVE  /\ SlotStatus(d) \in Statuses
           /\ SlotStatus(d) = "proven" <=> d.successful_boot
           /\ SlotStatus(d) = "trial" <=> ~d.successful_boot /\ d.tries_remaining > 0
  <1>1. d.tries_remaining \in Nat /\ d.successful_boot \in BOOLEAN
    BY DEF AvbABSlotData
  <1>2. CASE d.successful_boot
    BY <1>2 DEF SlotStatus, Statuses
  <1>3. CASE ~d.successful_boot /\ d.tries_remaining > 0
    BY <1>3 DEF SlotStatus, Statuses
  <1>4. CASE ~d.successful_boot /\ ~(d.tries_remaining > 0)
    BY <1>4 DEF SlotStatus, Statuses
  <1> QED BY <1>1, <1>2, <1>3, <1>4

LEMMA Mapped ==
    ASSUME NEW info \in AvbABData
    PROVE  /\ ActiveIn(info) \in Slots
           /\ StatusIn(info) \in [Slots -> Statuses]
           /\ \A s \in Slots :
                /\ StatusIn(info)[s] = SlotStatus(Migrated(info).slots[s])
                /\ Migrated(info).slots[s] \in AvbABSlotData
                /\ StatusIn(info)[s] = "proven" <=> Migrated(info).slots[s].successful_boot
                /\ StatusIn(info)[s] = "trial"
                     <=> /\ ~Migrated(info).slots[s].successful_boot
                         /\ Migrated(info).slots[s].tries_remaining > 0
  <1> DEFINE new == Migrated(info)
  <1>1. new \in AvbABData /\ get_active_slot(new) \in Slots
    BY MigratedMeta, ActiveSlotType
  <1> HIDE DEF new
  <1>2. \A s \in Slots : new.slots[s] \in AvbABSlotData
    BY <1>1 DEF AvbABData
  <1>3. StatusIn(info) = [s \in Slots |-> SlotStatus(new.slots[s])]
        /\ ActiveIn(info) = get_active_slot(new)
    BY DEF StatusIn, ActiveIn, new
  <1>4. /\ StatusIn(info) \in [Slots -> Statuses]
        /\ \A s \in Slots :
             /\ StatusIn(info)[s] = SlotStatus(new.slots[s])
             /\ StatusIn(info)[s] = "proven" <=> new.slots[s].successful_boot
             /\ StatusIn(info)[s] = "trial" <=> /\ ~new.slots[s].successful_boot
                                                /\ new.slots[s].tries_remaining > 0
    BY <1>2, <1>3, StatusOf
  <1> QED BY <1>1, <1>2, <1>3, <1>4 DEF new

\* Valid metadata is seen as it is, and is all that the migration leaves.
LEMMA MappedValid ==
    ASSUME NEW info \in AvbABData, info.magic = "avb"
    PROVE  Migrated(info) = info /\ ActiveIn(info) = get_active_slot(info)
  BY MigratedMeta DEF ActiveIn, boot_info_validate

LEMMA MappedMigrated ==
    ASSUME NEW info \in AvbABData
    PROVE  ActiveIn(Migrated(info)) = ActiveIn(info) /\ StatusIn(Migrated(info)) = StatusIn(info)
  <1>1. Migrated(Migrated(info)) = Migrated(info)
    BY MigratedMeta, MappedValid
  <1> QED BY <1>1 DEF ActiveIn, StatusIn

LEMMA MigratedValidated ==
    ASSUME NEW info \in AvbABData, ~boot_info_validate_VAB(info)
    PROVE  Migrated(info) = Validated(info)
  BY DEF Migrated

\* A slot made active may be tried, unless it has booted before.
LEMMA MappedSetActive ==
    ASSUME NEW info \in AvbABData, NEW s \in Slots, info.magic = "avb"
    PROVE  LET new == boot_info_set_active_slot(info, s)
           IN  /\ new \in AvbABData /\ new.magic = "avb"
               /\ ActiveIn(new) = s
               /\ StatusIn(new)[s] = IF StatusIn(info)[s] = "proven" THEN "proven" ELSE "trial"
               /\ \A t \in Slots : t # s => StatusIn(new)[t] = StatusIn(info)[t]
  <1> DEFINE raised(t) == [info.slots[t] EXCEPT
                             !.priority = AVB_AB_MAX_PRIORITY,
                             !.tries_remaining = AVB_AB_MAX_TRIES_REMAINING]
             lowered(t) == [info.slots[t] EXCEPT
                              !.priority = IF @ = AVB_AB_MAX_PRIORITY THEN @ - 1 ELSE @]
             f == [t \in Slots |-> IF t = s THEN raised(t) ELSE lowered(t)]
             new == boot_info_set_active_slot(info, s)
  <1>1. new \in AvbABData /\ new.magic = "avb" /\ get_active_slot(new) = s
    BY SetActiveMeta
  <1>2. new.slots = f
    BY DEF boot_info_set_active_slot, AvbABData
  <1> HIDE DEF new
  <1>3. Migrated(info) = info /\ Migrated(new) = new /\ ActiveIn(new) = s
    BY <1>1, MappedValid
  <1>4. \A t \in Slots : info.slots[t] \in AvbABSlotData
    BY DEF AvbABData
  <1>5. f[s] = raised(s)
    OBVIOUS
  <1>6. raised(s).tries_remaining = AVB_AB_MAX_TRIES_REMAINING
        /\ raised(s).successful_boot = info.slots[s].successful_boot
    BY <1>4 DEF AvbABSlotData
  <1>7. ASSUME NEW t \in Slots, t # s
        PROVE  SlotStatus(f[t]) = SlotStatus(info.slots[t])
    <2>1. f[t] = lowered(t)
      BY <1>7
    <2>2. lowered(t).tries_remaining = info.slots[t].tries_remaining
          /\ lowered(t).successful_boot = info.slots[t].successful_boot
      BY <1>4 DEF AvbABSlotData
    <2> HIDE DEF lowered, f
    <2> QED BY <2>1, <2>2 DEF SlotStatus
  <1> HIDE DEF raised, lowered, f
  <1>8. AVB_AB_MAX_TRIES_REMAINING > 0
    BY AvbBootAssumption
  <1>9. StatusIn(new)[s] = IF StatusIn(info)[s] = "proven" THEN "proven" ELSE "trial"
    BY <1>1, <1>2, <1>3, <1>5, <1>6, <1>8, Mapped
  <1>10. ASSUME NEW t \in Slots, t # s PROVE StatusIn(new)[t] = StatusIn(info)[t]
    BY <1>1, <1>2, <1>3, <1>7, <1>10, Mapped
  <1>11. /\ new \in AvbABData /\ new.magic = "avb" /\ ActiveIn(new) = s
         /\ StatusIn(new)[s] = IF StatusIn(info)[s] = "proven" THEN "proven" ELSE "trial"
         /\ \A t \in Slots : t # s => StatusIn(new)[t] = StatusIn(info)[t]
    BY <1>1, <1>3, <1>9, <1>10
  <1> QED BY <1>11 DEF new

\* A try costs the active slot at most its place among the slots on trial.
LEMMA MappedCountTry ==
    ASSUME NEW info \in AvbABData, info.magic = "avb"
    PROVE  LET new == CountTry(info)
               a == ActiveIn(info)
           IN  /\ new \in AvbABData /\ new.magic = "avb"
               /\ ActiveIn(new) = a
               /\ \A t \in Slots : t # a => StatusIn(new)[t] = StatusIn(info)[t]
               /\ \/ StatusIn(new)[a] = StatusIn(info)[a]
                  \/ StatusIn(info)[a] = "trial" /\ StatusIn(new)[a] = "empty"
  <1> DEFINE new == CountTry(info)
             a == get_active_slot(info)
             d == info.slots[a]
             less == [d EXCEPT !.tries_remaining = @ - 1]
  <1>1. /\ new \in AvbABData /\ new.magic = "avb"
        /\ \A t \in Slots :
             /\ new.slots[t].priority = info.slots[t].priority
             /\ new.slots[t].successful_boot = info.slots[t].successful_boot
    BY CountTryMeta
  <1>2. a \in Slots
    BY ActiveSlotType
  <1>3. get_active_slot(new) = a
    BY <1>1 DEF get_active_slot, Slots
  <1>4. CASE slot_is_bootable(info, a) /\ ~d.successful_boot
    <2>1. new.slots = [info.slots EXCEPT ![a] = less]
      BY <1>4 DEF CountTry, AvbABData
    <2>2. info.slots \in [Slots -> AvbABSlotData] /\ d \in AvbABSlotData
      BY <1>2 DEF AvbABData
    <2> HIDE DEF new, a, d
    <2>3. new.slots[a] = less /\ \A t \in Slots : t # a => new.slots[t] = info.slots[t]
      BY <1>2, <2>1, <2>2
    <2>4. less.successful_boot = d.successful_boot
      BY <2>2 DEF AvbABSlotData
    <2> HIDE DEF less
    <2>5. ~d.successful_boot /\ d.tries_remaining > 0
      BY <1>4 DEF slot_is_bootable, d
    <2>6. Migrated(info) = info /\ Migrated(new) = new
          /\ ActiveIn(info) = a /\ ActiveIn(new) = a
      BY <1>1, <1>3, MappedValid DEF a
    <2>7. StatusIn(info)[a] = "trial"
      BY <1>2, <2>5, <2>6, Mapped DEF d
    <2>8. StatusIn(new)[a] = "trial" \/ StatusIn(new)[a] = "empty"
      <3>1. StatusIn(new)[a] \in Statuses /\ StatusIn(new)[a] # "proven"
        BY <1>1, <1>2, <2>3, <2>4, <2>5, <2>6, Mapped
      <3> QED BY <3>1 DEF Statuses
    <2>9. \A t \in Slots : t # a => StatusIn(new)[t] = StatusIn(info)[t]
      BY <1>1, <2>3, <2>6, Mapped
    <2> QED BY <1>1, <2>6, <2>7, <2>8, <2>9 DEF new
  <1>5. CASE ~(slot_is_bootable(info, a) /\ ~d.successful_boot)
    <2>1. new = info
      BY <1>5 DEF CountTry
    <2> QED BY <2>1
  <1> QED BY <1>4, <1>5

LEMMA MappedMarked ==
    ASSUME NEW info \in AvbABData, info.magic = "avb", NEW new,
           new = Marked(info, ActiveIn(info))
    PROVE  /\ new \in AvbABData /\ new.magic = "avb"
           /\ ActiveIn(new) = ActiveIn(info)
           /\ StatusIn(new) = [StatusIn(info) EXCEPT ![ActiveIn(info)] = "proven"]
  <1> DEFINE a == ActiveIn(info)
  <1>1. a \in Slots
    BY Mapped
  <1>2. /\ new \in AvbABData /\ new.magic = "avb"
        /\ new.slots[a].successful_boot
        /\ \A t \in Slots : new.slots[t].priority = info.slots[t].priority
    BY <1>1, MarkedMeta
  <1>3. get_active_slot(new) = get_active_slot(info)
    BY <1>2 DEF get_active_slot, Slots
  <1>4. \A t \in Slots : t # a => new.slots[t] = info.slots[t]
    BY <1>1 DEF Marked, AvbABData
  <1>5. Migrated(info) = info /\ Migrated(new) = new /\ ActiveIn(new) = a
    BY <1>2, <1>3, MappedValid
  <1> HIDE DEF a
  <1>6. /\ StatusIn(new)[a] = "proven"
        /\ \A t \in Slots : t # a => StatusIn(new)[t] = StatusIn(info)[t]
    BY <1>1, <1>2, <1>4, <1>5, Mapped
  <1>7. StatusIn(new) \in [Slots -> Statuses] /\ StatusIn(info) \in [Slots -> Statuses]
    BY <1>2, Mapped
  <1>8. StatusIn(new) = [StatusIn(info) EXCEPT ![a] = "proven"]
    BY <1>1, <1>6, <1>7
  <1> QED BY <1>2, <1>5, <1>8 DEF a

LEMMA MappedDiscarded ==
    ASSUME NEW info \in AvbABData, info.magic = "avb",
           info.slots[0].priority # info.slots[1].priority
    PROVE  LET o == Other(ActiveIn(info))
               new == [info EXCEPT !.slots[o] = Unbootable]
           IN  /\ new \in AvbABData /\ new.magic = "avb"
               /\ ActiveIn(new) = ActiveIn(info)
               /\ StatusIn(new) = [StatusIn(info) EXCEPT ![o] = "empty"]
  <1> DEFINE a == ActiveIn(info)
             o == Other(a)
             new == [info EXCEPT !.slots[o] = Unbootable]
  <1>1. a \in Slots /\ o \in Slots /\ o # a
    BY Mapped, OtherSlot
  <1>2. /\ new \in AvbABData /\ new.magic = "avb"
        /\ new.slots[o].priority = 0
        /\ \A t \in Slots : t # o => new.slots[t] = info.slots[t]
    BY <1>1, DiscardedMeta
  <1>3. new.slots[o] = Unbootable
    BY <1>1 DEF AvbABData
  <1> HIDE DEF new
  <1>4. a = get_active_slot(info) /\ Migrated(info) = info /\ Migrated(new) = new
        /\ ActiveIn(new) = get_active_slot(new)
    BY <1>2, MappedValid
  <1>5. \A s \in Slots : info.slots[s].priority \in 0..15
    BY DEF AvbABData, AvbABSlotData, AVB_AB_MAX_PRIORITY
  <1>6. ActiveIn(new) = a
    <2>1. CASE a = 0
      <3>1. o = 1 /\ 0 \in Slots /\ 1 \in Slots
        BY <1>1, <2>1 DEF Slots
      <3>2. info.slots[0].priority > info.slots[1].priority
        BY <1>4, <2>1 DEF get_active_slot
      <3>3. new.slots[0].priority > new.slots[1].priority
        BY <1>2, <1>5, <3>1, <3>2
      <3> QED BY <1>4, <2>1, <3>3 DEF get_active_slot
    <2>2. CASE a = 1
      <3>1. o = 0 /\ 0 \in Slots /\ 1 \in Slots
        BY <1>1, <2>2 DEF Slots
      <3>2. ~(new.slots[0].priority > new.slots[1].priority)
        BY <1>2, <1>5, <3>1
      <3> QED BY <1>4, <2>2, <3>2 DEF get_active_slot
    <2> QED BY <1>1, <2>1, <2>2 DEF Slots
  <1> HIDE DEF a, o
  <1>7. Unbootable \in AvbABSlotData /\ SlotStatus(Unbootable) = "empty"
    BY UnbootableType DEF SlotStatus, Unbootable
  <1>8. StatusIn(new)[o] = "empty" /\ \A t \in Slots : t # o => StatusIn(new)[t] = StatusIn(info)[t]
    BY <1>1, <1>2, <1>3, <1>4, <1>7, Mapped
  <1>9. StatusIn(new) \in [Slots -> Statuses] /\ StatusIn(info) \in [Slots -> Statuses]
    BY <1>2, Mapped
  <1>10. StatusIn(new) = [StatusIn(info) EXCEPT ![o] = "empty"]
    BY <1>1, <1>8, <1>9
  <1> QED BY <1>2, <1>6, <1>10 DEF new, a, o

\* Clearing or setting roll_flag in valid metadata is not seen.
LEMMA MappedFlag ==
    ASSUME NEW info \in AvbABData, info.magic = "avb", NEW flag \in BOOLEAN
    PROVE  LET new == [info EXCEPT !.roll_flag = flag]
           IN  /\ new \in AvbABData /\ new.magic = "avb"
               /\ ActiveIn(new) = ActiveIn(info) /\ StatusIn(new) = StatusIn(info)
  <1> DEFINE new == [info EXCEPT !.roll_flag = flag]
  <1>1. new \in AvbABData /\ new.magic = "avb" /\ new.slots = info.slots
    BY FlagReplaced
  <1> HIDE DEF new
  <1>2. Migrated(info) = info /\ Migrated(new) = new
    BY <1>1, MappedValid
  <1>3. ActiveIn(new) = ActiveIn(info) /\ StatusIn(new) = StatusIn(info)
    BY <1>1, <1>2 DEF ActiveIn, StatusIn, get_active_slot
  <1> QED BY <1>1, <1>3 DEF new

-----------------------------------------------------------------------------
(* The steps of SlotPromise in terms of the mapping.                       *)

LEMMA PromiseInit ==
    ASSUME active \in Slots, status \in [Slots -> Statuses],
           \E s \in Slots : status[s] = "proven"
    PROVE  Promise!Init
  BY DEF Promise!Init, Promise!Slots, Promise!Statuses, Slots, Statuses, active, status,
         ActiveIn, StatusIn

Proves == /\ status[active] # "proven"
          /\ status' = [status EXCEPT ![active] = "proven"]
          /\ active' = active
Discards == /\ status[active] = "proven"
            /\ status' = [status EXCEPT ![Other(active)] = "empty"]
            /\ active' = active
Activates == /\ status[active] = "proven"
             /\ active' = Other(active)
             /\ status' = [status EXCEPT ![Other(active)] = "trial"]
Exhausts == /\ status[active] = "trial"
            /\ status' = [status EXCEPT ![active] = "empty"]
            /\ active' = active
GoesBack == /\ status[active] # "proven"
            /\ status[Other(active)] = "proven"
            /\ active' = Other(active)
            /\ status' = status
Stutters == active' = active /\ status' = status

PromiseStep == Proves \/ Discards \/ Activates \/ Exhausts \/ GoesBack \/ Stutters

LEMMA PromiseNext == PromiseStep => [Promise!Next]_(Promise!slots)
  <1> USE DEF active, status, ActiveIn, StatusIn, Other, Promise!Other
  <1>1. Proves => Promise!Prove
    BY DEF Proves, Promise!Prove
  <1>2. Discards => Promise!Discard
    BY DEF Discards, Promise!Discard
  <1>3. Activates => Promise!Activate
    BY DEF Activates, Promise!Activate
  <1>4. Exhausts => Promise!Exhaust
    BY DEF Exhausts, Promise!Exhaust
  <1>5. GoesBack => Promise!GoBack
    BY DEF GoesBack, Promise!GoBack
  <1>6. Stutters => UNCHANGED Promise!slots
    BY DEF Stutters, Promise!slots
  <1> QED BY <1>1, <1>2, <1>3, <1>4, <1>5, <1>6, Zenon DEF PromiseStep, Promise!Next

-----------------------------------------------------------------------------
(* The invariant of the simulation.                                        *)

\* One slot has booted, and what has booted works.
SomeProven == \E s \in Slots : status[s] = "proven"
ProvenWorks == \A s \in Slots : status[s] = "proven" => osOk[s]
OneOnTrial == \E s \in Slots : status[s] # "proven"

\* U-Boot runs from the active slot.
SlotIsActive == slot \in Slots => slot = active

\* A reboot into another slot has been dealt with before the tries are charged.
Settled == pc \in {"update_tries", "bcb_cmd", "storeboot", "kernel"} =>
               ~flash.reboot_next /\ mode # "rescueparty"

\* A rollback that has made its slot active is about to start over.
Leaving == {"active_dtb", "env"}

\* reboot_status announces a slot that may be booted, and the other one is proven
\* or was left; the same slots are there when a rollback has begun.
Expecting == flash.reboot_next \/ pc \in Leaving =>
                 ~Legacy /\ status[active] # "empty" /\ OneOnTrial
Returning == pc \in {"copy", "writing", "flag", "active"} =>
                 /\ ~Legacy /\ OneOnTrial
                 /\ rb.to = active => status[active] # "empty"

\* A system asks to be rescued only when it does not work, and no proven active
\* slot is rejected by rollback protection.
Rescued == mode = "rescueparty" => ~Legacy /\ (osOk[active] => pc \in Leaving)
Burnable == status[active] = "proven" => index[active] >= otp

PromiseInv == /\ SomeProven /\ ProvenWorks /\ SlotIsActive /\ Settled
              /\ Expecting /\ Returning /\ Rescued /\ Burnable

\* LegacyInv for builds that run get_valid_slot first.
Early == Legacy => pc \in {"rom", "bricked", "aml_update_env", "bcb_early"}

AllInv == TypeInv /\ ProtectInv /\ Early /\ PromiseInv

LEMMA TypeFacts ==
    ASSUME TypeInv
    PROVE  /\ misc \in AvbABData
           /\ active \in Slots /\ Other(active) \in Slots /\ Other(active) # active
           /\ Other(Other(active)) = active
           /\ status \in [Slots -> Statuses]
           /\ osOk \in [Slots -> BOOLEAN]
           /\ index \in [Slots -> 0..1] /\ otp \in 0..1
           /\ slot \in Slots \cup {NoSlot} /\ NoSlot \notin Slots
           /\ rb.to \in Slots \cup {NoSlot}
  BY Mapped, OtherSlot DEF TypeInv, TypeOK, active, status, Slots, NoSlot

\* Whoever needs valid metadata finds it.
LEMMA ValidMeta ==
    ASSUME TypeInv, boot_info_validate(misc)
    PROVE  /\ misc.magic = "avb" /\ ~Legacy /\ active = get_active_slot(misc)
           /\ \A s \in Slots : status[s] = "proven" <=> misc.slots[s].successful_boot
  BY TypeFacts, Mapped, MappedValid DEF boot_info_validate, Legacy, boot_info_validate_VAB,
     active, status

\* The steps that SlotPromise does not see: the metadata is not written, or replaced by
\* what it is read as.
Unseen == \/ BootRom \/ BootRomFails \/ aml_update_env \/ GetValidSlot
          \/ StartCopy \/ FinishCopy \/ set_roll_flag \/ restore_dtb \/ RollbackEnv
          \/ update_dt \/ update_dt_done
          \/ ab_update_rollback \/ RebootAfterErase \/ Storeboot
          \/ SystemFails \/ RescueParty \/ Reboot \/ PowerCut

LEMMA UnseenStutters ==
    ASSUME TypeInv, PromiseInv, Unseen
    PROVE  /\ Stutters /\ osOk' = osOk /\ index' = index
           /\ Legacy' => Legacy
  <1>1. misc \in AvbABData
    BY TypeFacts
  <1>2. ASSUME misc' = misc
        PROVE  Stutters /\ (Legacy' => Legacy)
    BY <1>2 DEF Stutters, active, status, ActiveIn, StatusIn, Legacy, Migrated,
                boot_info_validate_VAB
  <1>3. CASE GetValidSlot
    <2>1. misc' = Migrated(misc) /\ misc'.magic = "avb"
      BY <1>1, <1>3, GetValidSlotMeta, MigratedMeta
    <2>2. active' = ActiveIn(misc') /\ status' = StatusIn(misc')
      BY DEF active, status, ActiveIn, StatusIn, Migrated, SlotStatus
    <2>3. Stutters
      BY <1>1, <2>1, <2>2, MappedMigrated DEF Stutters, active, status
    <2>4. ~Legacy'
      BY <2>1 DEF Legacy, boot_info_validate_VAB
    <2> QED BY <1>3, <2>3, <2>4 DEF GetValidSlot, GetValidSlotBoots, GetValidSlotFails,
                                    world, systems
  <1>4. CASE set_roll_flag
    <2>1. CASE boot_info_validate(misc)
      <3>1. misc' = [misc EXCEPT !.roll_flag = TRUE] /\ misc.magic = "avb"
        BY <1>4, <2>1 DEF set_roll_flag, boot_info_save, boot_info_validate
      <3>2. misc'.magic = "avb" /\ ActiveIn(misc') = ActiveIn(misc)
            /\ StatusIn(misc') = StatusIn(misc)
        BY <1>1, <3>1, MappedFlag
      <3> QED BY <1>4, <3>2 DEF set_roll_flag, world, systems, Stutters, active, status, Legacy,
                                boot_info_validate_VAB
    <2>2. CASE ~boot_info_validate(misc)
      BY <1>2, <1>4, <2>2 DEF set_roll_flag, boot_info_save, world, systems
    <2> QED BY <2>1, <2>2
  <1>5. CASE \/ BootRom \/ BootRomFails \/ aml_update_env \/ StartCopy \/ FinishCopy
             \/ RollbackEnv \/ update_dt \/ ab_update_rollback
    BY <1>2, <1>5 DEF BootRom, BootRomFails, aml_update_env, StartCopy, FinishCopy, RollbackEnv,
                      update_dt, ab_update_rollback, storage, world, systems
  <1>6. CASE \/ Storeboot \/ SystemFails \/ RescueParty \/ Reboot \/ PowerCut
    BY <1>2, <1>6 DEF Storeboot, BootSlot, RollbackIndexRejected, BootFails, SystemFails,
                      RescueParty, Reboot, PowerCut, storage, world, systems
  <1>7. CASE restore_dtb \/ update_dt_done \/ RebootAfterErase
    BY <1>2, <1>7 DEF restore_dtb, update_dt_done, RebootAfterErase, storage, world, systems
  <1> QED BY <1>3, <1>4, <1>5, <1>6, <1>7 DEF Unseen

\* What carries over a step that leaves the mapping as it is.
LEMMA StutterKept ==
    ASSUME Stutters, osOk' = osOk, index' = index, Legacy' => Legacy, PromiseInv
    PROVE  /\ SomeProven' /\ ProvenWorks'
           /\ otp' = otp => Burnable'
           /\ OneOnTrial => OneOnTrial'
           /\ slot' = slot \/ slot' \notin Slots => SlotIsActive'
           /\ flash'.reboot_next = flash.reboot_next
                /\ (pc' \in Leaving => pc \in Leaving) => Expecting'
           /\ mode' = mode /\ (pc \in Leaving => pc' \in Leaving) => Rescued'
           /\ mode' # "rescueparty" => Rescued'
  BY DEF Stutters, PromiseInv, SomeProven, ProvenWorks, Burnable, OneOnTrial, SlotIsActive,
         Expecting, Rescued

LEMMA BootKept ==
    ASSUME AllInv, \/ BootRom \/ BootRomFails \/ aml_update_env
                   \/ update_dt \/ update_dt_done \/ ab_update_rollback
    PROVE  PromiseInv'
  <1>1. /\ Stutters /\ osOk' = osOk /\ index' = index /\ (Legacy' => Legacy)
        /\ PromiseInv /\ TypeInv
    BY UnseenStutters DEF Unseen, AllInv
  <1>2. /\ otp' = otp /\ slot' = slot /\ mode' = mode /\ pc \notin Leaving /\ pc' \notin Leaving
    BY DEF BootRom, BootRomFails, aml_update_env, update_dt, update_dt_done, ab_update_rollback,
           storage, ram, Leaving
  <1>3. SomeProven' /\ ProvenWorks' /\ Burnable' /\ SlotIsActive' /\ Rescued'
        /\ (OneOnTrial => OneOnTrial')
        /\ (flash'.reboot_next = flash.reboot_next => Expecting')
    BY <1>1, <1>2, StutterKept
  <1>4. flash \in Env
    BY <1>1 DEF TypeInv, TypeOK
  <1>5. CASE \/ BootRom \/ BootRomFails \/ aml_update_env \/ update_dt \/ update_dt_done
    <2>1. flash'.reboot_next = flash.reboot_next
      BY <1>4, <1>5 DEF BootRom, BootRomFails, aml_update_env, update_dt, update_dt_done,
                        storage, Env, DefaultEnv
    <2>2. pc' \in {"aml_update_env", "bricked", "bcb_early", "update_dt", "update_dt_env",
                   "securecheck"}
      BY <1>5 DEF BootRom, BootRomFails, aml_update_env, update_dt, update_dt_done
    <2> QED BY <1>3, <2>1, <2>2 DEF PromiseInv, Settled, Returning
  <1>6. CASE ab_update_rollback
    <2>1. ~Legacy
      BY <1>6 DEF AllInv, Early, ab_update_rollback
    <2>2. /\ active \in Slots /\ Other(active) \in Slots /\ Other(active) # active
          /\ slot \in Slots => slot = active
      BY <1>1, TypeFacts DEF PromiseInv, SlotIsActive
    <2>3. CASE mode = "rescueparty" /\ slot \in Slots
      <3>1. rb'.to = Other(active) /\ pc' = "copy" /\ flash' = flash
        BY <1>6, <2>2, <2>3 DEF ab_update_rollback, RollbackFrom
      <3>2. ~osOk[active]
        BY <1>1, <1>2, <2>3 DEF PromiseInv, Rescued
      <3>3. OneOnTrial
        BY <1>1, <2>2, <3>2 DEF PromiseInv, ProvenWorks, OneOnTrial
      <3> QED BY <1>1, <1>3, <2>1, <2>2, <3>1, <3>3 DEF PromiseInv, Settled, Returning, Stutters
    <2>4. CASE mode = "rescueparty" /\ slot \notin Slots
      <3>1. pc' = "rescue_slot" /\ flash' = flash
        BY <1>6, <2>4 DEF ab_update_rollback
      <3> QED BY <1>3, <3>1 DEF PromiseInv, Settled, Returning
    <2>5. CASE mode # "rescueparty" /\ flash.reboot_next /\ idx # 0
      <3>1. pc' = "copy" /\ flash' = flash
        BY <1>6, <2>5 DEF ab_update_rollback
      <3>2. status[active] # "empty" /\ OneOnTrial
        BY <1>1, <2>5 DEF PromiseInv, Expecting
      <3> QED BY <1>1, <1>3, <2>1, <3>1, <3>2
              DEF PromiseInv, Settled, Returning, Stutters
    <2>6. CASE mode # "rescueparty" /\ (flash.reboot_next => idx = 0)
      <3>1. pc' \in {"update_tries", "reboot"} /\ flash' = [flash EXCEPT !.reboot_next = FALSE]
        BY <1>6, <2>6 DEF ab_update_rollback
      <3>2. ~flash'.reboot_next
        BY <1>4, <3>1 DEF Env
      <3> QED BY <1>2, <1>3, <2>6, <3>1, <3>2 DEF PromiseInv, Settled, Expecting, Returning
    <2> QED BY <2>3, <2>4, <2>5, <2>6
  <1> QED BY <1>5, <1>6

\* get_valid_slot gives up a slot only for the other one, and never with both proven.
LEMMA GetValidSlotKept ==
    ASSUME AllInv, GetValidSlot
    PROVE  PromiseInv'
  <1>1. /\ Stutters /\ osOk' = osOk /\ index' = index /\ (Legacy' => Legacy)
        /\ PromiseInv /\ TypeInv /\ misc \in AvbABData
        /\ active \in Slots /\ Other(active) \in Slots /\ Other(active) # active
    BY UnseenStutters, TypeFacts DEF Unseen, AllInv
  <1>2. /\ otp' = otp /\ mode' = mode /\ flash' = flash
        /\ pc \in {"bcb_early", "rescue_slot", "bcb_cmd"}
        /\ misc' = Migrated(misc)
    BY DEF GetValidSlot, GetValidSlotBoots, GetValidSlotFails, boot_info_save, AfterGetValidSlot
  <1> USE DEF Leaving
  <1>3. ~Legacy'
    BY <1>1, <1>2, MigratedMeta DEF Legacy, boot_info_validate_VAB
  <1>4. CASE GetValidSlotBoots
    <2>1. slot' = active /\ pc' = AfterGetValidSlot[pc]
      BY <1>4 DEF GetValidSlotBoots, active, ActiveIn, boot_info_save
    <2>2. pc' \in {"update_dt", "rescue", "storeboot"} /\ (pc' = "storeboot" => pc = "bcb_cmd")
      BY <1>2, <2>1 DEF AfterGetValidSlot
    <2>3. SlotIsActive'
      BY <1>1, <2>1 DEF SlotIsActive, Stutters
    <2> QED BY <1>1, <1>2, <2>2, <2>3, StutterKept DEF PromiseInv, Settled, Returning
  <1>5. CASE GetValidSlotFails
    <2>1. /\ slot' = slot /\ pc' \in {"copy", "recovery"} /\ rb'.to = Other(active)
          /\ ~Bootable(active)
      BY <1>5 DEF GetValidSlotFails, active, ActiveIn, boot_info_save, RollbackFrom
    <2>2. OneOnTrial
      <3>1. CASE boot_info_validate(misc)
        <4>1. /\ misc.magic = "avb" /\ ~boot_info_validate_VAB(misc)
              /\ active = get_active_slot(misc) /\ Validated(misc) = misc
              /\ (status[active] = "proven" <=> misc.slots[active].successful_boot)
          BY <1>1, <3>1, ValidMeta, ValidatedMeta DEF Legacy
        <4>2. ~slot_is_bootable(misc, active)
          BY <2>1, <4>1 DEF Bootable
        <4>3. misc.slots[0].priority # misc.slots[1].priority
          BY <3>1 DEF AllInv, ProtectInv, Ordered
        <4>4. \A s \in Slots : misc.slots[s].priority \in 0..15
          BY <1>1 DEF AvbABData, AvbABSlotData, AVB_AB_MAX_PRIORITY
        <4>5. misc.slots[active].priority > 0
          BY <1>1, <4>1, <4>3, <4>4 DEF get_active_slot, Slots
        <4> QED BY <1>1, <4>1, <4>2, <4>5 DEF slot_is_bootable, OneOnTrial
      <3>2. CASE ~boot_info_validate(misc)
        <4>1. \A t \in Slots : status[t] = "proven" <=> t = 0
          BY <1>1, <3>2, MigratedMeta, Mapped DEF status
        <4> QED BY <4>1 DEF OneOnTrial, Slots
      <3> QED BY <3>1, <3>2
    <2>3. Returning'
      BY <1>1, <1>3, <2>1, <2>2, StutterKept DEF Returning, Stutters
    <2> QED BY <1>1, <1>2, <2>1, <2>3, StutterKept DEF PromiseInv, Settled
  <1> QED BY <1>4, <1>5 DEF GetValidSlot

LEMMA CopyKept ==
    ASSUME AllInv, \/ StartCopy \/ FinishCopy \/ set_roll_flag
                   \/ restore_dtb \/ RollbackEnv
    PROVE  PromiseInv'
  <1>1. /\ Stutters /\ osOk' = osOk /\ index' = index /\ (Legacy' => Legacy)
        /\ PromiseInv /\ TypeInv
    BY UnseenStutters DEF Unseen, AllInv
  <1> USE DEF Leaving
  <1>2. CASE StartCopy \/ FinishCopy \/ set_roll_flag
    <2>1. /\ otp' = otp /\ slot' = slot /\ mode' = mode /\ rb' = rb /\ flash' = flash
          /\ pc \in {"copy", "writing", "flag"} /\ pc' \in {"writing", "flag", "active"}
      BY <1>2 DEF StartCopy, FinishCopy, set_roll_flag, boot_info_save, ram
    <2> QED BY <1>1, <2>1, StutterKept DEF PromiseInv, Settled, Returning, Stutters
  <1>3. CASE RollbackEnv
    <2>1. /\ otp' = otp /\ slot' = NoSlot /\ mode' = "normal"
          /\ pc = "env" /\ pc' = "rom"
      BY <1>3 DEF RollbackEnv
    <2>2. ~Legacy /\ status[active] # "empty" /\ OneOnTrial
      BY <1>1, <2>1 DEF PromiseInv, Expecting
    <2>3. Expecting'
      BY <1>1, <2>2, StutterKept DEF Expecting, Stutters
    <2> QED BY <1>1, <2>1, <2>3, StutterKept, TypeFacts DEF PromiseInv, Settled, Returning
  <1>4. CASE restore_dtb
    <2>1. /\ otp' = otp /\ slot' = slot /\ mode' = mode /\ flash' = flash
          /\ pc = "active_dtb" /\ pc' = "env"
      BY <1>4 DEF restore_dtb, ram
    <2> QED BY <1>1, <2>1, StutterKept DEF PromiseInv, Settled, Returning
  <1> QED BY <1>2, <1>3, <1>4

LEMMA LoadKept ==
    ASSUME AllInv, Storeboot
    PROVE  PromiseInv'
  <1>1. /\ Stutters /\ osOk' = osOk /\ index' = index /\ (Legacy' => Legacy)
        /\ PromiseInv /\ TypeInv /\ ProtectInv
        /\ active \in Slots /\ Other(active) \in Slots /\ Other(active) # active
    BY UnseenStutters, TypeFacts DEF Unseen, AllInv
  <1> USE DEF Leaving
  <1>2. /\ slot' = slot /\ mode' = mode /\ flash' = flash /\ pc = "storeboot"
        /\ slot \in Slots
    BY <1>1 DEF Storeboot, BootSlot, RollbackIndexRejected, BootFails, storage, ram, TypeInv,
                Chosen
  <1>3. boot_info_validate(misc) /\ slot = active
    BY <1>1, <1>2 DEF ProtectInv, Selected, PromiseInv, SlotIsActive
  <1>4. ~flash.reboot_next /\ mode # "rescueparty"
    BY <1>1, <1>2 DEF PromiseInv, Settled
  <1>5. CASE BootSlot
    <2>1. pc' = "kernel" /\ otp' \in {index[slot], otp} /\ index[slot] >= otp
      BY <1>5 DEF BootSlot
    <2>2. index \in [Slots -> 0..1]
      BY <1>1, TypeFacts
    <2>3. Burnable'
      BY <1>1, <1>2, <1>3, <2>1, <2>2 DEF Burnable, Stutters
    <2> QED BY <1>1, <1>2, <1>4, <2>1, <2>3, StutterKept DEF PromiseInv, Settled, Returning
  <1>6. CASE RollbackIndexRejected
    <2>1. otp' = otp /\ pc' = "copy" /\ index[slot] < otp /\ rb'.to = Other(slot)
      BY <1>6 DEF RollbackIndexRejected, storage, RollbackFrom
    <2>2. index \in [Slots -> 0..1] /\ otp \in 0..1
      BY <1>1, TypeFacts
    <2>3. OneOnTrial
      BY <1>1, <1>3, <2>1, <2>2 DEF PromiseInv, Burnable, OneOnTrial
    <2>4. ~Legacy
      BY <1>1, <1>3, ValidMeta
    <2>5. Returning'
      BY <1>1, <1>3, <2>1, <2>3, <2>4, StutterKept DEF Returning, Stutters
    <2> QED BY <1>1, <1>2, <1>4, <2>1, <2>5, StutterKept DEF PromiseInv, Settled
  <1>7. CASE BootFails
    <2>1. otp' = otp /\ pc' = "recovery"
      BY <1>7 DEF BootFails, storage
    <2> QED BY <1>1, <1>2, <1>4, <2>1, StutterKept DEF PromiseInv, Settled, Returning
  <1> QED BY <1>5, <1>6, <1>7 DEF Storeboot

LEMMA LeaveKept ==
    ASSUME AllInv, \/ RebootAfterErase \/ SystemFails \/ RescueParty \/ Reboot
                   \/ PowerCut
    PROVE  PromiseInv'
  <1>1. /\ Stutters /\ osOk' = osOk /\ index' = index /\ (Legacy' => Legacy)
        /\ PromiseInv /\ TypeInv /\ ProtectInv
    BY UnseenStutters DEF Unseen, AllInv
  <1>2. /\ otp' = otp /\ flash' = flash /\ slot' = NoSlot /\ pc' = "rom"
    BY DEF RebootAfterErase, SystemFails, RescueParty, Reboot, PowerCut, storage, Leave
  <1> USE DEF Leaving
  <1>3. /\ SomeProven' /\ ProvenWorks' /\ Burnable' /\ SlotIsActive' /\ Expecting'
        /\ Settled' /\ Returning'
    BY <1>1, <1>2, StutterKept, TypeFacts DEF Settled, Returning
  <1>4. CASE RebootAfterErase \/ SystemFails \/ Reboot \/ PowerCut
    <2>1. mode' = "normal"
      BY <1>4 DEF RebootAfterErase, SystemFails, Reboot, PowerCut, Leave
    <2> QED BY <1>1, <1>3, <2>1, StutterKept DEF PromiseInv
  <1>5. CASE RescueParty
    <2>1. pc = "kernel" /\ ~osOk[slot]
      BY <1>5 DEF RescueParty
    <2>2. slot = active /\ boot_info_validate(misc)
      BY <1>1, <2>1 DEF TypeInv, Chosen, ProtectInv, Selected, PromiseInv, SlotIsActive
    <2>3. ~Legacy
      BY <1>1, <2>2, ValidMeta
    <2>4. Rescued'
      BY <1>1, <2>1, <2>2, <2>3 DEF Rescued, Stutters
    <2> QED BY <1>3, <2>4 DEF PromiseInv
  <1> QED BY <1>4, <1>5

-----------------------------------------------------------------------------
(* The steps that SlotPromise sees.                                        *)

\* The slot that is made active may be tried, unless it is proven.
LEMMA SetActiveSlotSeen ==
    ASSUME AllInv, set_active_slot
    PROVE  /\ misc' \in AvbABData /\ misc'.magic = "avb" /\ active' = rb.to /\ rb.to \in Slots
           /\ status'[rb.to] = IF status[rb.to] = "proven" THEN "proven" ELSE "trial"
           /\ \A t \in Slots : t # rb.to => status'[t] = status[t]
           /\ status' \in [Slots -> Statuses]
  <1>1. PromiseInv /\ TypeInv /\ misc \in AvbABData
    BY TypeFacts DEF AllInv
  <1>2. pc = "active" /\ misc' = boot_info_set_active_slot(Validated(misc), rb.to)
    BY DEF set_active_slot, boot_info_save
  <1>3. rb.to \in Slots /\ ~Legacy
    BY <1>1, <1>2 DEF TypeInv, Chosen, PromiseInv, Returning
  <1> DEFINE old == Migrated(misc)
             s == rb.to
  <1>4. old \in AvbABData /\ old.magic = "avb" /\ misc' = boot_info_set_active_slot(old, s)
    BY <1>1, <1>2, <1>3, MigratedMeta, MigratedValidated DEF Legacy
  <1>5. ActiveIn(old) = active /\ StatusIn(old) = status
    BY <1>1, MappedMigrated DEF active, status
  <1>6. active' = ActiveIn(misc') /\ status' = StatusIn(misc')
    BY DEF active, status, ActiveIn, StatusIn, Migrated, SlotStatus
  <1>7. s \in Slots
    BY <1>3
  <1> HIDE DEF old, s
  <1>8. /\ misc' \in AvbABData /\ misc'.magic = "avb" /\ active' = s
        /\ status'[s] = IF status[s] = "proven" THEN "proven" ELSE "trial"
        /\ \A t \in Slots : t # s => status'[t] = status[t]
        /\ status' \in [Slots -> Statuses]
    BY <1>4, <1>5, <1>6, <1>7, MappedSetActive, Mapped
  <1> QED BY <1>3, <1>8 DEF s

\* set_active_slot goes back to a proven slot, or goes on to one on trial.
LEMMA SetActiveSlotPromise ==
    ASSUME AllInv, set_active_slot
    PROVE  PromiseStep /\ PromiseInv' /\ (Legacy' => Legacy)
  <1>1. /\ PromiseInv /\ TypeInv /\ ProtectInv /\ misc \in AvbABData
        /\ active \in Slots /\ Other(active) \in Slots /\ Other(active) # active
        /\ Other(Other(active)) = active
        /\ status \in [Slots -> Statuses]
        /\ index \in [Slots -> 0..1] /\ otp \in 0..1
    BY TypeFacts DEF AllInv
  <1>2. /\ osOk' = osOk /\ index' = index /\ otp' = otp /\ flash' = flash /\ mode' = mode
        /\ rb' = rb /\ slot' = rb.to /\ pc = "active" /\ pc' \in Leaving
        /\ misc' = boot_info_set_active_slot(Validated(misc), rb.to)
    BY DEF set_active_slot, boot_info_save, world, systems, Leaving
  <1>3. rb.to \in Slots /\ ~Legacy /\ OneOnTrial
        /\ (rb.to = active => status[active] # "empty")
    BY <1>1, <1>2 DEF TypeInv, Chosen, PromiseInv, Returning
  <1> DEFINE s == rb.to
  <1> HIDE DEF s
  <1>7. /\ misc' \in AvbABData /\ misc'.magic = "avb" /\ active' = s
        /\ status'[s] = IF status[s] = "proven" THEN "proven" ELSE "trial"
        /\ \A t \in Slots : t # s => status'[t] = status[t]
        /\ status' \in [Slots -> Statuses]
    BY SetActiveSlotSeen DEF s
  <1>8. s \in Slots /\ s = rb.to
    BY <1>3 DEF s
  <1>9. ~Legacy'
    BY <1>7 DEF Legacy, boot_info_validate_VAB
  <1>10. PromiseStep
    <2>1. CASE s = active
      <3>1. status'[s] = status[s]
        BY <1>1, <1>3, <1>7, <1>8, <2>1 DEF Statuses
      <3>2. status' = status
        BY <1>1, <1>7, <1>8, <3>1
      <3> QED BY <1>7, <2>1, <3>2 DEF PromiseStep, Stutters
    <2>2. CASE s # active /\ status[active] # "proven"
      <3>1. s = Other(active)
        BY <1>1, <1>8, <2>2 DEF Slots, Other
      <3>2. status[s] = "proven"
        BY <1>1, <1>8, <2>2 DEF PromiseInv, SomeProven, Slots
      <3>3. status' = status
        BY <1>1, <1>7, <1>8, <3>2
      <3> QED BY <1>7, <2>2, <3>1, <3>2, <3>3 DEF PromiseStep, GoesBack
    <2>3. CASE s # active /\ status[active] = "proven"
      <3>1. s = Other(active)
        BY <1>1, <1>8, <2>3 DEF Slots, Other
      <3>2. status[s] # "proven"
        BY <1>1, <1>3, <1>8, <2>3 DEF OneOnTrial, Slots
      <3>3. status' = [status EXCEPT ![s] = "trial"]
        BY <1>1, <1>7, <1>8, <3>2
      <3> QED BY <1>7, <2>3, <3>1, <3>3 DEF PromiseStep, Activates
    <2> QED BY <2>1, <2>2, <2>3
  <1>11. \A t \in Slots : status'[t] = "proven" <=> status[t] = "proven"
    BY <1>7, <1>8
  <1>12. SomeProven' /\ ProvenWorks' /\ OneOnTrial'
    BY <1>1, <1>2, <1>3, <1>11 DEF PromiseInv, SomeProven, ProvenWorks, OneOnTrial
  <1>13. Burnable'
    <2> SUFFICES ASSUME status[s] = "proven" PROVE index[s] >= otp
      BY <1>2, <1>7, <1>8, <1>11 DEF Burnable
    <2>1. CASE s = active
      BY <1>1, <2>1 DEF PromiseInv, Burnable
    <2>2. CASE s # active /\ ~boot_info_validate(misc)
      BY <1>1, <1>8, <2>2 DEF ProtectInv, Unburnt
    <2>3. CASE s # active /\ boot_info_validate(misc)
      <3>1. Other(s) = active /\ ~(index[s] < otp /\ status[active] # "proven")
        BY <1>1, <1>8, <2>3, ValidMeta DEF ProtectInv, Covered, Proven, Slots, Other
      <3>2. status[active] # "proven"
        BY <1>1, <1>3, <1>8, <2>3 DEF OneOnTrial, Slots
      <3> QED BY <1>1, <1>8, <3>1, <3>2
    <2> QED BY <2>1, <2>2, <2>3
  <1>14. SlotIsActive' /\ Settled' /\ Expecting' /\ Returning' /\ Rescued'
    <2>1. status'[active'] # "empty"
      BY <1>7
    <2>2. mode = "rescueparty" => pc' \in Leaving
      BY <1>2
    <2> QED BY <1>2, <1>7, <1>8, <1>9, <1>12, <2>1
            DEF SlotIsActive, Settled, Expecting, Returning, Rescued, Leaving
  <1> QED BY <1>9, <1>10, <1>12, <1>13, <1>14 DEF PromiseInv

LEMMA UpdateTriesSeen ==
    ASSUME AllInv, update_tries
    PROVE  /\ misc' \in AvbABData /\ misc'.magic = "avb" /\ active' = active
           /\ \A t \in Slots : t # active => status'[t] = status[t]
           /\ \/ status'[active] = status[active]
              \/ status[active] = "trial" /\ status'[active] = "empty"
           /\ status' \in [Slots -> Statuses]
  <1>1. PromiseInv /\ TypeInv /\ misc \in AvbABData
    BY TypeFacts DEF AllInv
  <1>2. pc = "update_tries" /\ misc' = CountTry(Validated(misc))
    BY DEF update_tries, boot_info_save
  <1>3. ~Legacy
    BY <1>2 DEF AllInv, Early
  <1> DEFINE old == Migrated(misc)
  <1>4. old \in AvbABData /\ old.magic = "avb" /\ misc' = CountTry(old)
    BY <1>1, <1>2, <1>3, MigratedMeta, MigratedValidated DEF Legacy
  <1>5. ActiveIn(old) = active /\ StatusIn(old) = status
    BY <1>1, MappedMigrated DEF active, status
  <1>6. active' = ActiveIn(misc') /\ status' = StatusIn(misc')
    BY DEF active, status, ActiveIn, StatusIn, Migrated, SlotStatus
  <1> HIDE DEF old
  <1> QED BY <1>4, <1>5, <1>6, MappedCountTry, Mapped

\* update_tries uses up the last try of a slot, or is not seen.
LEMMA UpdateTriesPromise ==
    ASSUME AllInv, update_tries
    PROVE  PromiseStep /\ PromiseInv' /\ (Legacy' => Legacy)
  <1>1. /\ PromiseInv /\ TypeInv /\ misc \in AvbABData
        /\ active \in Slots
        /\ status \in [Slots -> Statuses]
    BY TypeFacts DEF AllInv
  <1>2. /\ osOk' = osOk /\ index' = index /\ otp' = otp /\ flash' = flash /\ mode' = mode
        /\ slot' = slot /\ pc = "update_tries" /\ pc' = "bcb_cmd"
        /\ misc' = CountTry(Validated(misc))
    BY DEF update_tries, boot_info_save, world, systems, ram
  <1>3. ~Legacy /\ ~flash.reboot_next /\ mode # "rescueparty"
    BY <1>1, <1>2 DEF AllInv, Early, PromiseInv, Settled
  <1>7. /\ misc' \in AvbABData /\ misc'.magic = "avb" /\ active' = active
        /\ \A t \in Slots : t # active => status'[t] = status[t]
        /\ \/ status'[active] = status[active]
           \/ status[active] = "trial" /\ status'[active] = "empty"
        /\ status' \in [Slots -> Statuses]
    BY UpdateTriesSeen
  <1>8. ~Legacy'
    BY <1>7 DEF Legacy, boot_info_validate_VAB
  <1>9. PromiseStep
    <2>1. CASE status'[active] = status[active]
      <3>1. status' = status
        BY <1>1, <1>7, <2>1
      <3> QED BY <1>7, <3>1 DEF PromiseStep, Stutters
    <2>2. CASE status[active] = "trial" /\ status'[active] = "empty"
      <3>1. status' = [status EXCEPT ![active] = "empty"]
        BY <1>1, <1>7, <2>2
      <3> QED BY <1>7, <2>2, <3>1 DEF PromiseStep, Exhausts
    <2> QED BY <1>7, <2>1, <2>2
  <1>10. \A t \in Slots : status'[t] = "proven" <=> status[t] = "proven"
    BY <1>1, <1>7
  <1>11. SomeProven' /\ ProvenWorks' /\ Burnable'
    BY <1>1, <1>2, <1>7, <1>10 DEF PromiseInv, SomeProven, ProvenWorks, Burnable
  <1>12. SlotIsActive' /\ Settled' /\ Expecting' /\ Returning' /\ Rescued'
    BY <1>1, <1>2, <1>3, <1>7
       DEF PromiseInv, SlotIsActive, Settled, Expecting, Returning, Rescued, Leaving
  <1> QED BY <1>8, <1>9, <1>11, <1>12 DEF PromiseInv

\* A system that runs from the active slot and is known to have booted: what the three
\* steps of the boot control HAL have in common.
LEMMA KernelFacts ==
    ASSUME AllInv, pc = "kernel"
    PROVE  /\ slot = active /\ slot \in Slots
           /\ boot_info_validate(misc) /\ misc.magic = "avb" /\ ~Legacy
           /\ misc.slots[0].priority # misc.slots[1].priority
           /\ index[slot] >= otp
           /\ ~flash.reboot_next /\ mode # "rescueparty"
           /\ status[slot] = "proven" <=> misc.slots[slot].successful_boot
  <1>1. PromiseInv /\ TypeInv /\ ProtectInv
    BY DEF AllInv
  <1>2. slot \in Slots /\ slot = active /\ boot_info_validate(misc)
    BY <1>1 DEF TypeInv, Chosen, ProtectInv, Selected, PromiseInv, SlotIsActive
  <1> QED BY <1>1, <1>2, ValidMeta
          DEF ProtectInv, Ordered, Accepted, PromiseInv, Settled

LEMMA MarkSeen ==
    ASSUME AllInv, MarkBootSuccessful
    PROVE  /\ misc'.magic = "avb" /\ active' = active
           /\ status' = [status EXCEPT ![active] = "proven"]
  <1>1. misc \in AvbABData
    BY TypeFacts DEF AllInv
  <1>2. slot = active /\ misc.magic = "avb" /\ misc' = Marked(misc, slot)
    BY KernelFacts DEF MarkBootSuccessful, Marked
  <1>3. active' = ActiveIn(misc') /\ status' = StatusIn(misc')
    BY DEF active, status, ActiveIn, StatusIn, Migrated, SlotStatus
  <1> QED BY <1>1, <1>2, <1>3, MappedMarked DEF active, status

LEMMA MarkPromise ==
    ASSUME AllInv, MarkBootSuccessful
    PROVE  PromiseStep /\ PromiseInv' /\ (Legacy' => Legacy)
  <1>1. /\ PromiseInv /\ TypeInv /\ misc \in AvbABData
        /\ status \in [Slots -> Statuses]
    BY TypeFacts DEF AllInv
  <1>2. /\ osOk' = osOk /\ index' = index /\ otp' = otp /\ flash' = flash /\ mode' = mode
        /\ slot' = slot /\ pc = "kernel" /\ pc' = pc /\ osOk[slot]
        /\ ~misc.slots[slot].successful_boot
        /\ misc' = Marked(misc, slot)
    BY DEF MarkBootSuccessful, ram, Marked
  <1>3. /\ slot = active /\ slot \in Slots /\ misc.magic = "avb" /\ index[slot] >= otp
        /\ ~flash.reboot_next /\ mode # "rescueparty" /\ status[slot] # "proven"
    BY <1>2, KernelFacts
  <1>5. /\ misc'.magic = "avb" /\ active' = active
        /\ status' = [status EXCEPT ![active] = "proven"]
    BY MarkSeen
  <1>6. PromiseStep
    BY <1>3, <1>5 DEF PromiseStep, Proves
  <1>7. ~Legacy'
    BY <1>5 DEF Legacy, boot_info_validate_VAB
  <1>8. SomeProven' /\ ProvenWorks' /\ Burnable'
    BY <1>1, <1>2, <1>3, <1>5 DEF PromiseInv, SomeProven, ProvenWorks, Burnable
  <1>9. SlotIsActive' /\ Settled' /\ Expecting' /\ Returning' /\ Rescued'
    BY <1>2, <1>3, <1>5 DEF SlotIsActive, Settled, Expecting, Returning, Rescued, Leaving
  <1> QED BY <1>6, <1>7, <1>8, <1>9 DEF PromiseInv

LEMMA BeginUpdateSeen ==
    ASSUME AllInv, BeginUpdate
    PROVE  /\ misc'.magic = "avb" /\ active' = active
           /\ status' = [status EXCEPT ![Other(active)] = "empty"]
  <1>1. misc \in AvbABData
    BY TypeFacts DEF AllInv
  <1>2. /\ slot = active /\ misc.magic = "avb"
        /\ misc.slots[0].priority # misc.slots[1].priority
        /\ misc' = [misc EXCEPT !.slots[Other(slot)] = Unbootable]
    BY KernelFacts DEF BeginUpdate, CanUpdate
  <1>3. active' = ActiveIn(misc') /\ status' = StatusIn(misc')
    BY DEF active, status, ActiveIn, StatusIn, Migrated, SlotStatus
  <1> QED BY <1>1, <1>2, <1>3, MappedDiscarded DEF active, status

LEMMA BeginUpdatePromise ==
    ASSUME AllInv, BeginUpdate
    PROVE  PromiseStep /\ PromiseInv' /\ (Legacy' => Legacy)
  <1> DEFINE o == Other(active)
  <1>1. /\ PromiseInv /\ TypeInv /\ misc \in AvbABData
        /\ status \in [Slots -> Statuses] /\ osOk \in [Slots -> BOOLEAN]
        /\ active \in Slots /\ o \in Slots /\ o # active
    BY TypeFacts DEF AllInv
  <1>2. /\ index' = index /\ otp' = otp /\ flash' = flash /\ mode' = mode
        /\ slot' = slot /\ pc = "kernel" /\ pc' = pc
        /\ misc.slots[slot].successful_boot
        /\ osOk' = [osOk EXCEPT ![Other(slot)] = FALSE]
        /\ misc' = [misc EXCEPT !.slots[Other(slot)] = Unbootable]
    BY DEF BeginUpdate, CanUpdate, ram
  <1>3. /\ slot = active /\ misc.magic = "avb" /\ index[slot] >= otp
        /\ misc.slots[0].priority # misc.slots[1].priority
        /\ ~flash.reboot_next /\ mode # "rescueparty" /\ status[slot] = "proven"
    BY <1>2, KernelFacts
  <1>5. /\ misc'.magic = "avb" /\ active' = active
        /\ status' = [status EXCEPT ![o] = "empty"]
    BY BeginUpdateSeen
  <1>6. PromiseStep
    BY <1>3, <1>5 DEF PromiseStep, Discards
  <1>7. ~Legacy'
    BY <1>5 DEF Legacy, boot_info_validate_VAB
  <1>8. SomeProven' /\ ProvenWorks' /\ Burnable'
    BY <1>1, <1>2, <1>3, <1>5 DEF PromiseInv, SomeProven, ProvenWorks, Burnable
  <1>9. SlotIsActive' /\ Settled' /\ Expecting' /\ Returning' /\ Rescued'
    BY <1>2, <1>3, <1>5 DEF SlotIsActive, Settled, Expecting, Returning, Rescued, Leaving
  <1> QED BY <1>6, <1>7, <1>8, <1>9 DEF PromiseInv

LEMMA FinishUpdateSeen ==
    ASSUME AllInv, FinishUpdate
    PROVE  /\ misc'.magic = "avb" /\ active' = Other(active) /\ status[Other(active)] = "empty"
           /\ status' = [status EXCEPT ![Other(active)] = "trial"]
  <1> DEFINE o == Other(active)
  <1>1. /\ misc \in AvbABData /\ status \in [Slots -> Statuses]
        /\ active \in Slots /\ o \in Slots /\ o # active
    BY TypeFacts DEF AllInv
  <1>2. /\ misc.slots[Other(slot)] = Unbootable
        /\ misc' = [boot_info_set_active_slot(misc, Other(slot)) EXCEPT !.roll_flag = FALSE]
    BY DEF FinishUpdate, CanUpdate
  <1>3. slot = active /\ misc.magic = "avb"
    BY KernelFacts DEF FinishUpdate, CanUpdate
  <1>5. active' = ActiveIn(misc') /\ status' = StatusIn(misc')
    BY DEF active, status, ActiveIn, StatusIn, Migrated, SlotStatus
  <1>6. status[o] = "empty"
    <2>1. SlotStatus(Unbootable) = "empty" /\ Migrated(misc) = misc
      BY <1>1, <1>3, MappedValid DEF SlotStatus, Unbootable
    <2> QED BY <1>1, <1>2, <1>3, <2>1, Mapped DEF status
  <1>7. /\ misc'.magic = "avb" /\ active' = o
        /\ status' = [status EXCEPT ![o] = "trial"]
    <2> DEFINE new == boot_info_set_active_slot(misc, o)
    <2>1. /\ new \in AvbABData /\ new.magic = "avb" /\ ActiveIn(new) = o
          /\ StatusIn(new)[o] = "trial"
          /\ \A t \in Slots : t # o => StatusIn(new)[t] = status[t]
      BY <1>1, <1>3, <1>6, MappedSetActive DEF status
    <2>2. StatusIn(new) \in [Slots -> Statuses]
      BY <2>1, Mapped
    <2>3. misc' = [new EXCEPT !.roll_flag = FALSE]
      BY <1>2, <1>3
    <2> HIDE DEF new
    <2>4. misc'.magic = "avb" /\ active' = o /\ status' = StatusIn(new)
      BY <1>5, <2>1, <2>3, MappedFlag
    <2> QED BY <1>1, <2>1, <2>2, <2>4
  <1> QED BY <1>6, <1>7

LEMMA FinishUpdatePromise ==
    ASSUME AllInv, FinishUpdate
    PROVE  PromiseStep /\ PromiseInv' /\ (Legacy' => Legacy)
  <1> DEFINE o == Other(active)
  <1>1. /\ PromiseInv /\ TypeInv /\ misc \in AvbABData
        /\ status \in [Slots -> Statuses] /\ osOk \in [Slots -> BOOLEAN]
        /\ index \in [Slots -> 0..1] /\ otp \in 0..1
        /\ active \in Slots /\ o \in Slots /\ o # active
    BY TypeFacts DEF AllInv
  <1>2. /\ otp' = otp /\ mode' = "normal" /\ slot' = NoSlot /\ pc = "kernel" /\ pc' = "rom"
        /\ misc.slots[slot].successful_boot /\ misc.slots[Other(slot)] = Unbootable
        /\ misc' = [boot_info_set_active_slot(misc, Other(slot)) EXCEPT !.roll_flag = FALSE]
    BY DEF FinishUpdate, CanUpdate, Leave
  <1>3. slot = active /\ misc.magic = "avb" /\ status[slot] = "proven"
    BY <1>2, KernelFacts
  <1>4. PICK works \in BOOLEAN : osOk' = [osOk EXCEPT ![o] = works]
    BY <1>3 DEF FinishUpdate
  <1>6. status[o] = "empty"
    BY FinishUpdateSeen
  <1>7. /\ misc'.magic = "avb" /\ active' = o
        /\ status' = [status EXCEPT ![o] = "trial"]
    BY FinishUpdateSeen
  <1>8. PromiseStep
    BY <1>3, <1>7 DEF PromiseStep, Activates
  <1>9. ~Legacy'
    BY <1>7 DEF Legacy, boot_info_validate_VAB
  <1>10. SomeProven' /\ ProvenWorks' /\ Burnable' /\ OneOnTrial'
    BY <1>1, <1>3, <1>4, <1>6, <1>7
       DEF PromiseInv, SomeProven, ProvenWorks, Burnable, OneOnTrial
  <1>11. SlotIsActive' /\ Settled' /\ Expecting' /\ Returning' /\ Rescued'
    <2>1. status'[active'] # "empty" /\ NoSlot \notin Slots
      BY <1>1, <1>7, TypeFacts
    <2> QED BY <1>2, <1>9, <1>10, <2>1
            DEF SlotIsActive, Settled, Expecting, Returning, Rescued, Leaving
  <1> QED BY <1>8, <1>9, <1>10, <1>11 DEF PromiseInv

-----------------------------------------------------------------------------
(* The refinement.                                                         *)

LEMMA InitPromise ==
    ASSUME SlotAProven, Init, TypeInv
    PROVE  PromiseInv /\ Promise!Init
  <1>1. ~boot_info_validate(misc)
    BY DEF Init, boot_info_validate, Uninitialised, VirtualAB, boot_info_reset
  <1>2. \A t \in Slots : status[t] = "proven" <=> t = 0
    BY <1>1, TypeFacts, MigratedMeta, Mapped DEF status
  <1>3. 0 \in booted
    <2>1. boot_info_validate_VAB(misc) => misc.slots[0].successful_boot
      BY DEF Init, boot_info_validate_VAB, Uninitialised, VirtualAB, boot_info_reset
    <2> QED BY <2>1 DEF Init, Slots
  <1>4. osOk[0]
    BY <1>3 DEF Init
  <1>5. SomeProven /\ ProvenWorks
    BY <1>2, <1>4 DEF SomeProven, ProvenWorks, Slots
  <1>6. SlotIsActive /\ Settled /\ Expecting /\ Returning /\ Rescued /\ Burnable
    BY TypeFacts DEF Init, DefaultEnv, SlotIsActive, Settled, Expecting, Returning, Rescued,
                     Burnable, Leaving
  <1> QED BY <1>5, <1>6, TypeFacts, PromiseInit DEF PromiseInv, SomeProven

LEMMA StepPromise == AllInv /\ [Next]_vars => PromiseStep /\ PromiseInv'
  <1> SUFFICES ASSUME AllInv, [Next]_vars PROVE PromiseStep /\ PromiseInv'
    OBVIOUS
  <1>1. CASE Unseen
    <2>1. Stutters
      BY <1>1, UnseenStutters DEF AllInv
    <2> QED BY <1>1, <2>1, BootKept, GetValidSlotKept, CopyKept, LoadKept, LeaveKept
            DEF Unseen, PromiseStep
  <1>2. CASE \/ set_active_slot \/ update_tries \/ MarkBootSuccessful \/ BeginUpdate
             \/ FinishUpdate
    BY <1>2, SetActiveSlotPromise, UpdateTriesPromise, MarkPromise, BeginUpdatePromise,
       FinishUpdatePromise
  <1>3. CASE UNCHANGED vars
    <2>1. Stutters /\ PromiseInv'
      BY <1>3 DEF vars, storage, ram, world, systems, AllInv, PromiseInv, Stutters, active,
         status, ActiveIn, StatusIn, Migrated, SomeProven, ProvenWorks, OneOnTrial,
         SlotIsActive, Settled, Expecting, Returning, Rescued, Burnable, Legacy,
         boot_info_validate_VAB
    <2> QED BY <2>1 DEF PromiseStep
  <1> QED BY <1>1, <1>2, <1>3 DEF Next, UBoot, Outside, Rollback, Unseen

\* The AVB metadata keeps the promise of A/B: in every behaviour of AvbBoot, for every
\* number of tries, images and power cuts, what is read from misc changes only as
\* SlotPromise allows.  The builds run get_valid_slot first if they can find metadata of
\* virtual A/B, and slot a has booted in such metadata.
THEOREM AvbBootKeepsPromise ==
    SlotAProven /\ LegacyBuilds \subseteq {TRUE} => (Spec => KeepsPromise)
  <1> SUFFICES ASSUME SlotAProven, LegacyBuilds \subseteq {TRUE}
               PROVE  Spec => KeepsPromise
    OBVIOUS
  <1>1. Init => LegacyInv
    BY DEF Init, LegacyInv, boot_info_validate_VAB, Uninitialised, boot_info_reset
  <1>2. LegacyInv => Early
    BY DEF LegacyInv, Early, Legacy
  <1>3. Init => PromiseInv /\ Promise!Init
    BY InitTypes, InitPromise
  <1>4. AllInv /\ [Next]_vars => PromiseInv' /\ [Promise!Next]_(Promise!slots)
    BY StepPromise, PromiseNext
  <1>5. TypeInv /\ ProtectInv /\ LegacyInv /\ PromiseInv /\ [Next]_vars
        => /\ (TypeInv /\ ProtectInv /\ LegacyInv /\ PromiseInv)'
           /\ [Promise!Next]_(Promise!slots)
    BY <1>2, <1>4, TypesKept, ProtectKept, LegacyKept DEF AllInv
  <1>6. Init => TypeInv /\ ProtectInv /\ LegacyInv /\ PromiseInv
    BY <1>1, <1>3, InitTypes, InitProtects
  <1> QED BY <1>3, <1>5, <1>6, PTL DEF Spec, KeepsPromise, Promise!Spec
-----------------------------------------------------------------------------
(* The bootloader copies and the device tree until the power fails.        *)

\* The copy kept for a slot is the bootloader that came with its system.
ShippedKept == \A s \in Slots : copies[1 + s] = shipped[s]

\* A bootloader that the ROM rejects never lets its slot prove itself.
ProvenGood == \A s \in Slots : status[s] = "proven" => shipped[s].good

\* A rollback copies the bootloader of the proven slot, the one that is not active.
Rolling == {"copy", "writing", "flag", "active"}
Backing == pc \in Rolling => /\ rb.to = Other(active) /\ status[rb.to] = "proven"
                             /\ rb.src = 1 + rb.to

\* The user area has the bootloader of the active slot, or of the slot to go back to.
UserArea == /\ pc \notin {"writing", "flag", "active"} => copies[0] = shipped[active]
            /\ pc \in {"flag", "active"} => copies[0] = shipped[rb.to]

\* A bad bootloader is found out by the check of the copy that was started.
Opening == {"rom", "aml_update_env", "bcb_early", "update_dt", "update_dt_env",
            "securecheck"}
Answered == ~shipped[active].good /\ pc \notin Rolling
               => pc \in Opening /\ flash.reboot_next /\ mode # "rescueparty"
Started == pc \notin {"rom", "active_dtb", "env"} \cup Rolling
               => idx = IF copies[0].good THEN 0 ELSE 1 + Other(active)

\* After a rollback the device tree is the one of the slot that was gone back to.
TreeKept == misc.roll_flag /\ pc \notin {"active", "active_dtb"} => dtb = shipped[active].gen

Unhurt == /\ ProvenGood /\ Backing /\ UserArea /\ Answered /\ Started /\ TreeKept
          /\ pc # "bricked"
CopiesInv == ShippedKept /\ (cuts = 0 => Unhurt)

LEMMA CopiesFacts ==
    ASSUME AllInv, ShippedKept
    PROVE  /\ active \in Slots /\ Other(active) \in Slots /\ Other(active) # active
           /\ \A s \in Slots : s = active \/ s = Other(active)
           /\ status[active] # "proven" => status[Other(active)] = "proven"
           /\ slot \in Slots => slot = active
           /\ slot \in Slots \cup {NoSlot} /\ idx \in Copies
           /\ copies \in [Copies -> Images] /\ shipped \in [Slots -> Images]
           /\ copies[1 + active] = shipped[active]
           /\ copies[1 + Other(active)] = shipped[Other(active)]
           /\ cuts \in Nat /\ flash \in Env /\ rb.src \in Copies
  <1>1. /\ active \in Slots /\ Other(active) \in Slots /\ Other(active) # active
        /\ slot \in Slots \cup {NoSlot} /\ NoSlot \notin Slots
    BY TypeFacts DEF AllInv
  <1>2. \A s \in Slots : s = active \/ s = Other(active)
    BY <1>1 DEF Slots, Other
  <1>3. status[active] # "proven" => status[Other(active)] = "proven"
    BY <1>2 DEF AllInv, PromiseInv, SomeProven
  <1>4. /\ copies \in [Copies -> Images] /\ shipped \in [Slots -> Images]
        /\ cuts \in Nat /\ flash \in Env /\ idx \in Copies /\ rb.src \in Copies
    BY DEF AllInv, TypeInv, TypeOK
  <1> QED BY <1>1, <1>2, <1>3, <1>4 DEF ShippedKept, AllInv, PromiseInv, SlotIsActive

\* Where the slots, the bootloaders and the copies stay as they are, it is enough to
\* look at the point that is reached.
LEMMA CopiesSame ==
    ASSUME AllInv, CopiesInv, active' = active, status' = status, shipped' = shipped,
           copies' = copies, cuts' = cuts
    PROVE  /\ ShippedKept'
           /\ cuts = 0 /\ pc \notin Rolling /\ pc' \notin Rolling
                => ProvenGood' /\ Backing' /\ UserArea'
           /\ cuts = 0 /\ pc \notin {"rom", "active_dtb", "env"} \cup Rolling /\ idx' = idx
                => Started'
           /\ misc'.roll_flag = misc.roll_flag /\ dtb' = dtb
                /\ pc \notin {"active", "active_dtb"} /\ cuts = 0 => TreeKept'
  BY DEF CopiesInv, ShippedKept, Unhurt, ProvenGood, Backing, UserArea, Started, TreeKept, Rolling

\* The migration does not set roll_flag.
LEMMA MigratedFlag ==
    ASSUME NEW info \in AvbABData
    PROVE  Migrated(info).roll_flag => info.roll_flag
  <1>1. ~boot_info_reset.roll_flag
    BY DEF boot_info_reset
  <1>2. CASE boot_info_validate_VAB(info)
    <2> DEFINE moved == boot_info_set_active_slot(boot_info_reset, get_active_slot_VAB(info))
    <2>1. moved \in AvbABData
      BY ActiveSlotTypeVAB, ResetMeta, SetActiveMeta
    <2>2. Migrated(info) = [moved EXCEPT !.roll_flag = info.roll_flag]
      BY <1>2 DEF Migrated
    <2> HIDE DEF moved
    <2> QED BY <2>1, <2>2 DEF AvbABData
  <1>3. CASE ~boot_info_validate_VAB(info)
    BY <1>1, <1>3 DEF Migrated, Validated
  <1> QED BY <1>2, <1>3

\* A rollback starts from a slot that has not booted.
LEMMA RollbackStarts ==
    ASSUME AllInv, CopiesInv, active' = active, status' = status, shipped' = shipped,
           copies' = copies, cuts' = cuts, pc \notin Rolling, pc # "active_dtb", pc' = "copy",
           status[active] # "proven", rb'.to = Other(active), rb'.src = 1 + Other(active),
           misc'.roll_flag => misc.roll_flag, dtb' = dtb
    PROVE  CopiesInv'
  <1>1. ShippedKept
    BY DEF CopiesInv
  <1>2. status[Other(active)] = "proven"
    BY <1>1, CopiesFacts
  <1>3. ShippedKept'
    BY CopiesSame
  <1> SUFFICES ASSUME cuts = 0 PROVE Unhurt'
    BY <1>3 DEF CopiesInv
  <1>4. ProvenGood' /\ UserArea' /\ TreeKept'
    BY DEF CopiesInv, Unhurt, ProvenGood, UserArea, TreeKept, Rolling
  <1> QED BY <1>2, <1>4 DEF Unhurt, Backing, Answered, Started, Rolling

\* What RollbackFrom names.
LEMMA FromActive ==
    ASSUME NEW s \in Slots
    PROVE  RollbackFrom(s).to = Other(s) /\ RollbackFrom(s).src = 1 + Other(s)
  BY DEF RollbackFrom, Slots, Other

LEMMA CopiesRom ==
    ASSUME AllInv, CopiesInv, BootRom \/ BootRomFails
    PROVE  CopiesInv'
  <1>1. /\ active' = active /\ status' = status
        /\ UNCHANGED <<misc, flash, copies, dtb, shipped, cuts, mode, rb>> /\ pc = "rom"
    BY UnseenStutters DEF AllInv, Unseen, Stutters, BootRom, BootRomFails, storage, ram, world,
                          systems
  <1>2. ShippedKept
    BY DEF CopiesInv
  <1>3. pc' \notin Rolling
    BY DEF BootRom, BootRomFails, Rolling
  <1> SUFFICES ASSUME cuts = 0 PROVE Unhurt'
    BY <1>1, CopiesSame DEF CopiesInv
  <1>4. ProvenGood' /\ Backing' /\ UserArea' /\ TreeKept'
    BY <1>1, <1>3, CopiesSame DEF Rolling
  <1>5. ~copies[0].good => copies[1 + Other(active)].good /\ ~copies[1 + active].good
    BY <1>1, <1>2, CopiesFacts DEF CopiesInv, Unhurt, ProvenGood, UserArea
  <1>6. 0 \in Copies /\ 1 + active \in Copies /\ 1 + Other(active) \in Copies
        /\ \A c \in Copies : c \in {0, 1 + active, 1 + Other(active)}
    BY <1>2, CopiesFacts DEF Slots, Other, Copies
  <1>7. ~BootRomFails
    BY <1>5, <1>6 DEF BootRomFails
  <1>8. PICK c \in Copies : /\ copies[c].good /\ idx' = c
                            /\ \A d \in Copies : d < c => ~copies[d].good
    BY <1>7 DEF BootRom
  <1>9. idx' = IF copies[0].good THEN 0 ELSE 1 + Other(active)
    BY <1>5, <1>6, <1>8 DEF Copies
  <1> QED BY <1>1, <1>4, <1>7, <1>9
          DEF BootRom, Unhurt, Answered, Started, Opening, Rolling, CopiesInv

LEMMA CopiesOpening ==
    ASSUME AllInv, CopiesInv, aml_update_env \/ update_dt \/ update_dt_done
    PROVE  CopiesInv'
  <1>1. /\ active' = active /\ status' = status
        /\ UNCHANGED <<misc, copies, shipped, cuts, mode, rb, idx>>
        /\ pc \in {"aml_update_env", "update_dt", "update_dt_env"}
        /\ pc' \in {"bcb_early", "update_dt", "update_dt_env", "securecheck"}
    BY UnseenStutters DEF AllInv, Unseen, Stutters, aml_update_env, update_dt, update_dt_done,
                          ram, world, systems
  <1>2. ShippedKept
    BY DEF CopiesInv
  <1>3. flash'.reboot_next = flash.reboot_next
    BY <1>2, CopiesFacts DEF aml_update_env, update_dt, update_dt_done, Env, DefaultEnv
  <1> SUFFICES ASSUME cuts = 0 PROVE Unhurt'
    BY <1>1, CopiesSame DEF CopiesInv
  <1>4. ProvenGood' /\ Backing' /\ UserArea' /\ Started'
    BY <1>1, CopiesSame DEF Rolling
  <1>5. dtb' \in {dtb, shipped[active].gen}
    BY <1>2, CopiesFacts DEF aml_update_env, update_dt, update_dt_done, DeviceTreeOf
  <1>6. TreeKept'
    BY <1>1, <1>5 DEF TreeKept, CopiesInv, Unhurt
  <1> QED BY <1>1, <1>3, <1>4, <1>6 DEF Unhurt, Answered, Opening, Rolling, CopiesInv

\* A virtual A/B bootloader leaves slot a tries: it has booted.
LegacyTries == Legacy => misc.slots[0].tries_remaining # 0

\* get_valid_slot gives up a slot that has not booted and, in valid metadata, has no tries.
LEMMA NotBootable ==
    ASSUME AllInv, LegacyTries, ~Bootable(active)
    PROVE  status[active] # "proven" /\ (Legacy \/ status[active] = "empty")
  <1>1. /\ TypeInv /\ misc \in AvbABData /\ active \in Slots
        /\ status \in [Slots -> Statuses]
    BY TypeFacts DEF AllInv
  <1>2. CASE boot_info_validate(misc)
    <2>1. /\ misc.magic = "avb" /\ ~boot_info_validate_VAB(misc)
          /\ active = get_active_slot(misc) /\ Validated(misc) = misc /\ Migrated(misc) = misc
      BY <1>1, <1>2, ValidMeta, ValidatedMeta, MappedValid DEF Legacy
    <2>2. ~slot_is_bootable(misc, active)
      BY <2>1 DEF Bootable
    <2>3. misc.slots[0].priority # misc.slots[1].priority
      BY <1>2 DEF AllInv, ProtectInv, Ordered
    <2>4. \A s \in Slots : misc.slots[s].priority \in 0..15
      BY <1>1 DEF AvbABData, AvbABSlotData, AVB_AB_MAX_PRIORITY
    <2>5. misc.slots[active].priority > 0
      BY <1>1, <2>1, <2>3, <2>4 DEF get_active_slot, Slots
    <2>6. ~misc.slots[active].successful_boot /\ ~(misc.slots[active].tries_remaining > 0)
      BY <2>2, <2>5 DEF slot_is_bootable
    <2>7. status[active] # "proven" /\ status[active] # "trial"
      BY <1>1, <2>1, <2>6, Mapped DEF status
    <2> QED BY <1>1, <2>7 DEF Statuses
  <1>3. CASE ~boot_info_validate(misc)
    <2>1. \A t \in Slots : status[t] = "proven" <=> t = 0
      BY <1>1, <1>3, MigratedMeta, Mapped DEF status
    <2>2. CASE Legacy
      <3>1. misc.slots[active].tries_remaining = 0
        BY <2>2 DEF Legacy, Bootable, slot_is_bootable_VAB
      <3>2. active # 0
        BY <2>2, <3>1 DEF LegacyTries
      <3> QED BY <1>1, <2>1, <2>2, <3>2
    <2>3. CASE ~Legacy
      <3>1. Migrated(misc) = boot_info_reset /\ Validated(misc) = boot_info_reset
        BY <1>1, <1>3, <2>3, MigratedValidated, ValidatedMeta DEF Legacy
      <3>2. /\ boot_info_reset.slots[0].priority = 15 /\ boot_info_reset.slots[1].priority = 14
            /\ boot_info_reset.slots[0].successful_boot
        BY ResetMeta DEF Slots
      <3>3. active = 0
        BY <3>1, <3>2 DEF active, ActiveIn, get_active_slot
      <3>4. Bootable(active)
        BY <2>3, <3>1, <3>2, <3>3 DEF Legacy, Bootable, slot_is_bootable
      <3> QED BY <3>4
    <2> QED BY <2>2, <2>3
  <1> QED BY <1>2, <1>3

LEMMA CopiesGetValidSlot ==
    ASSUME AllInv, LegacyTries, CopiesInv, GetValidSlot
    PROVE  CopiesInv'
  <1>1. /\ active' = active /\ status' = status
        /\ UNCHANGED <<flash, copies, dtb, shipped, cuts, mode, idx>>
        /\ pc \in {"bcb_early", "rescue_slot", "bcb_cmd"}
        /\ misc' = Migrated(misc) /\ misc \in AvbABData
    <2>1. Stutters /\ misc \in AvbABData
      BY UnseenStutters, TypeFacts DEF AllInv, Unseen
    <2> QED BY <2>1 DEF Stutters, GetValidSlot, GetValidSlotBoots, GetValidSlotFails,
                        boot_info_save, AfterGetValidSlot, world, systems
  <1>2. ShippedKept
    BY DEF CopiesInv
  <1>3. misc'.roll_flag => misc.roll_flag
    BY <1>1, MigratedFlag
  <1>4. pc \notin Rolling /\ pc \notin {"rom", "active_dtb", "env"}
    BY <1>1 DEF Rolling
  <1>5. ASSUME pc' \in {"update_dt", "rescue", "storeboot", "recovery"},
               pc' = "update_dt" => pc = "bcb_early",
               pc' # "update_dt" /\ cuts = 0 => shipped[active].good
        PROVE  CopiesInv'
    <2> SUFFICES ASSUME cuts = 0 PROVE Unhurt'
      BY <1>1, CopiesSame DEF CopiesInv
    <2>1. pc' \notin Rolling
      BY <1>5 DEF Rolling
    <2>2. ProvenGood' /\ Backing' /\ UserArea' /\ Started'
      BY <1>1, <1>4, <2>1, CopiesSame
    <2>3. TreeKept'
      BY <1>1, <1>3, <1>4 DEF CopiesInv, Unhurt, TreeKept, Rolling
    <2>4. Answered'
      BY <1>1, <1>4, <1>5 DEF CopiesInv, Unhurt, Answered, Opening
    <2> QED BY <1>5, <2>2, <2>3, <2>4 DEF Unhurt
  <1>6. pc # "bcb_early" /\ cuts = 0 => shipped[active].good
    BY <1>1, <1>4 DEF CopiesInv, Unhurt, Answered, Opening
  <1>7. CASE GetValidSlotBoots
    <2>1. pc' = AfterGetValidSlot[pc]
      BY <1>7 DEF GetValidSlotBoots, boot_info_save
    <2>2. /\ pc' \in {"update_dt", "rescue", "storeboot"}
          /\ pc' = "update_dt" <=> pc = "bcb_early"
      BY <1>1, <2>1 DEF AfterGetValidSlot
    <2> QED BY <1>5, <1>6, <2>2
  <1>8. CASE GetValidSlotFails
    <2>1. /\ rb' = RollbackFrom(active) /\ ~Bootable(active) /\ pc' \in {"copy", "recovery"}
      BY <1>8 DEF GetValidSlotFails, active, ActiveIn, boot_info_save
    <2>2. status[active] # "proven" /\ (Legacy \/ status[active] = "empty")
      BY <2>1, NotBootable
    <2>3. CASE pc' = "copy"
      <3>1. rb'.to = Other(active) /\ rb'.src = 1 + Other(active)
        BY <1>2, <2>1, CopiesFacts, FromActive
      <3> QED BY <1>1, <1>3, <1>4, <2>2, <2>3, <3>1, RollbackStarts
    <2>4. CASE pc' = "recovery"
      <3>1. ~flash.reboot_next
        BY <2>2 DEF AllInv, PromiseInv, Expecting
      <3>2. cuts = 0 => shipped[active].good
        BY <1>4, <3>1 DEF CopiesInv, Unhurt, Answered
      <3> QED BY <1>5, <2>4, <3>2
    <2> QED BY <2>1, <2>3, <2>4
  <1> QED BY <1>7, <1>8 DEF GetValidSlot

LEMMA CopiesRollback ==
    ASSUME AllInv, CopiesInv, StartCopy \/ FinishCopy \/ set_roll_flag
    PROVE  CopiesInv'
  <1>1. /\ active' = active /\ status' = status
        /\ UNCHANGED <<flash, dtb, shipped, cuts, mode, idx, rb>>
    <2>1. Stutters
      BY UnseenStutters DEF AllInv, Unseen
    <2> QED BY <2>1 DEF Stutters, StartCopy, FinishCopy, set_roll_flag, ram, world, systems
  <1>2. ShippedKept
    BY DEF CopiesInv
  <1>3. /\ copies \in [Copies -> Images] /\ shipped \in [Slots -> Images] /\ active \in Slots
        /\ Other(active) \in Slots /\ \A s \in Slots : s = active \/ s = Other(active)
    BY <1>2, CopiesFacts
  <1>4. /\ pc \in Rolling /\ pc' \in Rolling
        /\ pc' # "writing" => pc # "copy"
    BY DEF StartCopy, FinishCopy, set_roll_flag, boot_info_save, Rolling
  <1>5. \A s \in Slots : copies'[1 + s] = copies[1 + s]
    <2>1. \A s \in Slots : 1 + s \in Copies /\ 1 + s # 0
      BY DEF Slots, Copies
    <2> QED BY <1>3, <2>1 DEF StartCopy, FinishCopy, set_roll_flag
  <1>6. ShippedKept'
    BY <1>1, <1>2, <1>5 DEF ShippedKept
  <1> SUFFICES ASSUME cuts = 0 PROVE Unhurt'
    BY <1>1, <1>6 DEF CopiesInv
  <1>7. ProvenGood' /\ Backing'
    BY <1>1, <1>4 DEF CopiesInv, Unhurt, ProvenGood, Backing
  <1>8. UserArea'
    <2>1. CASE StartCopy
      BY <2>1 DEF StartCopy, UserArea
    <2>2. CASE FinishCopy
      <3>1. copies'[0] = copies[rb.src] /\ pc' = "flag"
        BY <1>3, <2>2 DEF FinishCopy, Copies
      <3>2. rb.to = Other(active) /\ rb.src = 1 + rb.to
        BY <1>4 DEF CopiesInv, Unhurt, Backing
      <3>3. copies'[0] = shipped[rb.to]
        BY <1>2, <1>3, <3>1, <3>2 DEF ShippedKept
      <3> QED BY <1>1, <3>1, <3>3 DEF UserArea
    <2>3. CASE set_roll_flag
      <3>1. copies' = copies /\ pc = "flag" /\ pc' = "active"
        BY <2>3 DEF set_roll_flag, boot_info_save
      <3> QED BY <1>1, <3>1 DEF CopiesInv, Unhurt, UserArea
    <2> QED BY <2>1, <2>2, <2>3
  <1>9. TreeKept'
    <2>1. CASE StartCopy \/ FinishCopy
      <3>1. misc' = misc /\ pc \notin {"active", "active_dtb"}
        BY <2>1 DEF StartCopy, FinishCopy
      <3> QED BY <1>1, <3>1 DEF CopiesInv, Unhurt, TreeKept
    <2>2. CASE set_roll_flag
      BY <2>2 DEF set_roll_flag, boot_info_save, TreeKept
    <2> QED BY <2>1, <2>2
  <1>10. pc' # "bricked" /\ pc' \notin {"rom", "active_dtb", "env"}
    BY <1>4 DEF Rolling
  <1> QED BY <1>4, <1>7, <1>8, <1>9, <1>10 DEF Unhurt, Answered, Started

\* The user area has the bootloader of the slot that becomes active.
LEMMA CopiesSetActive ==
    ASSUME AllInv, CopiesInv, set_active_slot
    PROVE  CopiesInv'
  <1> DEFINE old == Validated(misc)
             s == rb.to
  <1>1. /\ UNCHANGED <<flash, copies, shipped, cuts, mode, idx, rb>>
        /\ pc = "active" /\ pc' \in {"active_dtb", "env"}
        /\ misc' = boot_info_set_active_slot(old, s)
        /\ misc'.roll_flag => pc' = "active_dtb"
    BY DEF set_active_slot, boot_info_save, world, systems
  <1>2. ShippedKept
    BY DEF CopiesInv
  <1>3. ShippedKept'
    BY <1>1, <1>2 DEF ShippedKept
  <1> HIDE DEF old
  <1> SUFFICES ASSUME cuts = 0 PROVE Unhurt'
    BY <1>1, <1>3 DEF CopiesInv
  <1>4. s = Other(active) /\ status[s] = "proven"
    BY <1>1 DEF CopiesInv, Unhurt, Backing, Rolling
  <1>5. s \in Slots /\ \A t \in Slots : status'[t] = "proven" => status[t] = "proven"
    BY <1>2, <1>4, SetActiveSlotSeen, CopiesFacts
  <1>6. active' = s
    BY SetActiveSlotSeen
  <1>7. ProvenGood' /\ shipped[s].good
    BY <1>1, <1>4, <1>5 DEF CopiesInv, Unhurt, ProvenGood
  <1>8. Backing' /\ Started'
    BY <1>1 DEF Backing, Started, Rolling
  <1>9. UserArea' /\ TreeKept' /\ Answered'
    BY <1>1, <1>6, <1>7 DEF CopiesInv, Unhurt, UserArea, TreeKept, Answered
  <1> QED BY <1>1, <1>7, <1>8, <1>9 DEF Unhurt

\* The device tree follows the slot.
LEMMA CopiesRestoreDtb ==
    ASSUME AllInv, CopiesInv, restore_dtb
    PROVE  CopiesInv'
  <1>1. /\ active' = active /\ status' = status
        /\ UNCHANGED <<misc, flash, shipped, copies, cuts, slot, mode>>
        /\ pc = "active_dtb" /\ pc' = "env" /\ dtb' = shipped[slot].gen
    <2>1. Stutters
      BY UnseenStutters DEF AllInv, Unseen
    <2> QED BY <2>1 DEF Stutters, restore_dtb, DeviceTreeOf, ram, world, systems
  <1>2. slot = active
    BY <1>1 DEF AllInv, TypeInv, Chosen, PromiseInv, SlotIsActive
  <1> SUFFICES ASSUME cuts = 0 PROVE Unhurt'
    BY <1>1, CopiesSame DEF CopiesInv
  <1>3. ProvenGood' /\ Backing' /\ UserArea'
    BY <1>1, CopiesSame DEF Rolling
  <1>4. shipped[active].good
    BY <1>1 DEF CopiesInv, Unhurt, Answered, Opening, Rolling
  <1>5. Started' /\ TreeKept' /\ Answered'
    BY <1>1, <1>2, <1>4 DEF Started, TreeKept, Answered
  <1> QED BY <1>1, <1>3, <1>5 DEF Unhurt

LEMMA CopiesRollbackEnv ==
    ASSUME AllInv, CopiesInv, RollbackEnv
    PROVE  CopiesInv'
  <1>1. /\ active' = active /\ status' = status
        /\ UNCHANGED <<misc, dtb, shipped, copies, cuts>> /\ pc = "env" /\ pc' = "rom"
    <2>1. Stutters
      BY UnseenStutters DEF AllInv, Unseen
    <2> QED BY <2>1 DEF Stutters, RollbackEnv, world, systems
  <1> SUFFICES ASSUME cuts = 0 PROVE Unhurt'
    BY <1>1, CopiesSame DEF CopiesInv
  <1>2. ProvenGood' /\ Backing' /\ UserArea' /\ TreeKept'
    BY <1>1, CopiesSame DEF Rolling
  <1>3. shipped[active].good
    BY <1>1 DEF CopiesInv, Unhurt, Answered, Opening, Rolling
  <1> QED BY <1>1, <1>2, <1>3 DEF Unhurt, Answered, Started

\* A copy that was started in place of the user area is that of the proven slot, and a
\* bad bootloader is announced: the check finds it out.
LEMMA CopiesCheck ==
    ASSUME AllInv, CopiesInv, ab_update_rollback
    PROVE  CopiesInv'
  <1>1. /\ active' = active /\ status' = status
        /\ UNCHANGED <<misc, dtb, shipped, copies, cuts, slot, idx, mode>>
        /\ pc \in {"securecheck", "rescue"}
        /\ pc \notin Rolling
        /\ pc \notin {"rom", "env", "active", "active_dtb"} \cup Rolling
    <2>1. Stutters
      BY UnseenStutters DEF AllInv, Unseen
    <2> QED BY <2>1 DEF Stutters, ab_update_rollback, world, systems, Rolling
  <1>2. ShippedKept
    BY DEF CopiesInv
  <1> SUFFICES ASSUME cuts = 0 PROVE CopiesInv'
    BY <1>1, CopiesSame DEF CopiesInv
  <1>3. ProvenGood /\ UserArea /\ Answered /\ Started /\ TreeKept
    BY DEF CopiesInv, Unhurt
  <1>4. idx = (IF copies[0].good THEN 0 ELSE 1 + Other(active)) /\ copies[0] = shipped[active]
    BY <1>1, <1>3 DEF Started, UserArea, Rolling
  <1>5. CASE pc' = "copy"
    <2>1. CASE mode = "rescueparty"
      <3>1. slot \in Slots /\ rb' = RollbackFrom(slot)
        BY <1>5, <2>1 DEF ab_update_rollback
      <3>2. slot = active /\ ~osOk[active]
        BY <1>1, <2>1, <3>1 DEF AllInv, PromiseInv, SlotIsActive, Rescued, Leaving
      <3>3. status[active] # "proven"
        BY <3>1, <3>2 DEF AllInv, PromiseInv, ProvenWorks
      <3>4. rb'.to = Other(active) /\ rb'.src = 1 + Other(active)
        BY <3>1, <3>2, FromActive
      <3> QED BY <1>1, <1>5, <3>3, <3>4, RollbackStarts
    <2>2. CASE mode # "rescueparty"
      <3>1. idx # 0 /\ rb' = RollbackOnMismatch
        BY <1>5, <2>2 DEF ab_update_rollback
      <3>2. idx = 1 + Other(active) /\ ~shipped[active].good
        BY <1>4, <3>1
      <3>3. status[active] # "proven"
        BY <1>2, <1>3, <3>2, CopiesFacts DEF ProvenGood
      <3>4. rb'.to = Other(active) /\ rb'.src = 1 + Other(active)
        BY <1>2, <3>1, <3>2, CopiesFacts DEF RollbackOnMismatch, Slots
      <3> QED BY <1>1, <1>5, <3>3, <3>4, RollbackStarts
    <2> QED BY <2>1, <2>2
  <1>6. CASE pc' \in {"rescue_slot", "update_tries", "reboot"}
    <2>1. shipped[active].good
      <3>1. SUFFICES ASSUME ~shipped[active].good PROVE FALSE
        OBVIOUS
      <3>2. flash.reboot_next /\ mode # "rescueparty"
        BY <1>1, <1>3, <3>1 DEF Answered
      <3>3. idx = 0
        BY <1>6, <3>2 DEF ab_update_rollback
      <3>4. Other(active) \in Slots /\ ~copies[0].good
        BY <1>2, <1>4, <3>1, CopiesFacts
      <3> QED BY <1>4, <3>3, <3>4 DEF Slots
    <2>2. pc' \notin Rolling
      BY <1>6 DEF Rolling
    <2>3. ShippedKept' /\ ProvenGood' /\ Backing' /\ UserArea' /\ Started' /\ TreeKept'
      BY <1>1, <2>2, CopiesSame
    <2> QED BY <1>1, <1>6, <2>1, <2>3 DEF CopiesInv, Unhurt, Answered
  <1> QED BY <1>5, <1>6 DEF ab_update_rollback

\* Counting a try does not set roll_flag.
LEMMA CountTryFlag ==
    ASSUME NEW info \in AvbABData
    PROVE  CountTry(info).roll_flag = info.roll_flag
  <1> DEFINE less == [info.slots[get_active_slot(info)] EXCEPT !.tries_remaining = @ - 1]
             f == [info.slots EXCEPT ![get_active_slot(info)] = less]
  <1>1. CountTry(info) = info \/ CountTry(info) = [info EXCEPT !.slots = f]
    BY DEF CountTry
  <1> HIDE DEF f
  <1> QED BY <1>1 DEF AvbABData

\* A try is charged when the bootloader has been found good.
LEMMA CopiesUpdateTries ==
    ASSUME AllInv, CopiesInv, update_tries
    PROVE  CopiesInv'
  <1>1. /\ UNCHANGED <<flash, copies, dtb, shipped, cuts, mode, idx, rb>>
        /\ pc = "update_tries" /\ pc' = "bcb_cmd" /\ misc' = CountTry(Validated(misc))
    BY DEF update_tries, boot_info_save, ram, world, systems
  <1>2. active' = active /\ \A t \in Slots : status'[t] = "proven" => status[t] = "proven"
    <2>1. /\ active' = active
          /\ \A t \in Slots : t # active => status'[t] = status[t]
          /\ status'[active] = status[active] \/ status'[active] = "empty"
      BY UpdateTriesSeen
    <2> QED BY <2>1
  <1>3. misc'.roll_flag => misc.roll_flag
    <2>1. misc \in AvbABData
      BY TypeFacts DEF AllInv
    <2>2. Validated(misc) \in AvbABData /\ (Validated(misc).roll_flag => misc.roll_flag)
      BY <2>1, ValidatedMeta DEF Validated, boot_info_reset
    <2> QED BY <1>1, <2>2, CountTryFlag
  <1>4. ShippedKept'
    BY <1>1 DEF CopiesInv, ShippedKept
  <1> SUFFICES ASSUME cuts = 0 PROVE Unhurt'
    BY <1>1, <1>4 DEF CopiesInv
  <1>5. ProvenGood' /\ UserArea' /\ TreeKept' /\ Started' /\ Backing'
    BY <1>1, <1>2, <1>3
       DEF CopiesInv, Unhurt, ProvenGood, UserArea, TreeKept, Started, Backing, Rolling
  <1>6. Answered'
    BY <1>1, <1>2 DEF CopiesInv, Unhurt, Answered, Opening, Rolling
  <1> QED BY <1>1, <1>5, <1>6 DEF Unhurt

LEMMA CopiesStoreboot ==
    ASSUME AllInv, CopiesInv, Storeboot
    PROVE  CopiesInv'
  <1>1. /\ active' = active /\ status' = status
        /\ UNCHANGED <<misc, flash, copies, dtb, shipped, cuts, mode, idx>>
        /\ pc = "storeboot"
    <2>1. Stutters
      BY UnseenStutters DEF AllInv, Unseen
    <2> QED BY <2>1 DEF Stutters, Storeboot, BootSlot, RollbackIndexRejected, BootFails, storage,
                        ram, world, systems
  <1>2. ShippedKept
    BY DEF CopiesInv
  <1>3. CASE BootSlot \/ BootFails
    <2>1. pc' \in {"kernel", "recovery"}
      BY <1>3 DEF BootSlot, BootFails
    <2> SUFFICES ASSUME cuts = 0 PROVE Unhurt'
      BY <1>1, CopiesSame DEF CopiesInv
    <2>2. ProvenGood' /\ Backing' /\ UserArea' /\ Started' /\ TreeKept'
      BY <1>1, <2>1, CopiesSame DEF Rolling
    <2>3. Answered'
      BY <1>1, <2>1 DEF CopiesInv, Unhurt, Answered, Opening, Rolling
    <2> QED BY <2>1, <2>2, <2>3 DEF Unhurt
  <1>4. CASE RollbackIndexRejected
    <2>1. /\ pc' = "copy" /\ index[slot] < otp /\ rb' = RollbackFrom(slot)
      BY <1>4 DEF RollbackIndexRejected
    <2>2. slot = active /\ slot \in Slots
      BY <1>1 DEF AllInv, TypeInv, Chosen, PromiseInv, SlotIsActive
    <2>3. index \in [Slots -> 0..1] /\ otp \in 0..1
      BY TypeFacts DEF AllInv
    <2>4. status[active] # "proven"
      BY <2>1, <2>2, <2>3 DEF AllInv, PromiseInv, Burnable
    <2>5. rb'.to = Other(active) /\ rb'.src = 1 + Other(active)
      BY <2>1, <2>2, FromActive
    <2>6. pc \notin Rolling
      BY <1>1 DEF Rolling
    <2> QED BY <1>1, <2>1, <2>4, <2>5, <2>6, RollbackStarts
  <1> QED BY <1>3, <1>4 DEF Storeboot

\* A reboot after the check, out of the system or out of recovery: the bootloader is good.
LEMMA CopiesLeave ==
    ASSUME AllInv, CopiesInv, RebootAfterErase \/ SystemFails \/ RescueParty \/ Reboot
    PROVE  CopiesInv'
  <1>1. /\ active' = active /\ status' = status
        /\ UNCHANGED <<misc, flash, copies, dtb, shipped, cuts, idx>>
        /\ pc \in {"reboot", "kernel", "recovery"} /\ pc' = "rom"
    <2>1. Stutters
      BY UnseenStutters DEF AllInv, Unseen
    <2> QED BY <2>1 DEF Stutters, RebootAfterErase, SystemFails, RescueParty, Reboot, Leave, storage, world,
                        systems
  <1> SUFFICES ASSUME cuts = 0 PROVE Unhurt'
    BY <1>1, CopiesSame DEF CopiesInv
  <1>2. ProvenGood' /\ Backing' /\ UserArea' /\ TreeKept'
    BY <1>1, CopiesSame DEF Rolling
  <1>3. shipped[active].good
    BY <1>1 DEF CopiesInv, Unhurt, Answered, Opening, Rolling
  <1> QED BY <1>1, <1>2, <1>3 DEF Unhurt, Answered, Started

\* A system runs on a good bootloader, so its slot may prove itself.
LEMMA CopiesMark ==
    ASSUME AllInv, CopiesInv, MarkBootSuccessful \/ BeginUpdate
    PROVE  CopiesInv'
  <1>1. /\ UNCHANGED <<flash, copies, dtb, shipped, cuts, mode, idx, rb>>
        /\ pc = "kernel" /\ pc' = "kernel" /\ slot = active /\ slot \in Slots
        /\ misc \in AvbABData /\ active \in Slots /\ Other(active) \in Slots
        /\ status \in [Slots -> Statuses]
    BY KernelFacts, TypeFacts DEF AllInv, MarkBootSuccessful, BeginUpdate, CanUpdate, ram
  <1>2. /\ active' = active
        /\ \A t \in Slots : status'[t] = "proven" => status[t] = "proven" \/ t = active
    <2>1. CASE MarkBootSuccessful
      <3>1. active' = active /\ status' = [status EXCEPT ![active] = "proven"]
        BY <2>1, MarkSeen
      <3> QED BY <1>1, <3>1
    <2>2. CASE BeginUpdate
      <3>1. active' = active /\ status' = [status EXCEPT ![Other(active)] = "empty"]
        BY <2>2, BeginUpdateSeen
      <3> QED BY <1>1, <3>1
    <2> QED BY <2>1, <2>2
  <1>3. misc'.roll_flag = misc.roll_flag
    BY <1>1 DEF MarkBootSuccessful, BeginUpdate, AvbABData
  <1>4. ShippedKept'
    BY <1>1 DEF CopiesInv, ShippedKept
  <1> SUFFICES ASSUME cuts = 0 PROVE Unhurt'
    BY <1>1, <1>4 DEF CopiesInv
  <1>5. shipped[active].good
    BY <1>1 DEF CopiesInv, Unhurt, Answered, Opening, Rolling
  <1>6. ProvenGood'
    BY <1>1, <1>2, <1>5 DEF CopiesInv, Unhurt, ProvenGood
  <1>7. UserArea' /\ TreeKept' /\ Started' /\ Backing' /\ Answered'
    BY <1>1, <1>2, <1>3, <1>5
       DEF CopiesInv, Unhurt, UserArea, TreeKept, Started, Backing, Answered, Rolling
  <1> QED BY <1>1, <1>6, <1>7 DEF Unhurt

\* An update puts its bootloader where its slot keeps it and where the ROM starts it, and
\* announces it.
LEMMA CopiesFinishUpdate ==
    ASSUME AllInv, CopiesInv, FinishUpdate
    PROVE  CopiesInv'
  <1> DEFINE o == Other(active)
  <1>1. /\ TypeInv /\ active \in Slots /\ o \in Slots /\ o # active
        /\ misc \in AvbABData /\ status \in [Slots -> Statuses]
    BY TypeFacts DEF AllInv
  <1>2. /\ slot = active /\ pc = "kernel" /\ pc' = "rom" /\ mode' = "normal" /\ cuts' = cuts
        /\ misc' = [boot_info_set_active_slot(misc, o) EXCEPT !.roll_flag = FALSE]
    BY KernelFacts DEF FinishUpdate, CanUpdate, Leave
  <1>3. PICK img \in Images :
          /\ shipped' = [shipped EXCEPT ![o] = img]
          /\ copies' = [copies EXCEPT ![0] = img, ![1 + o] = img]
          /\ flash'.reboot_next
    <2>1. \A good \in BOOLEAN : [gen |-> gen + 1, good |-> good] \in Images
      <3>1. gen \in 1..MaxGen /\ gen < MaxGen /\ MaxGen \in Nat
        BY <1>1, AvbBootAssumption DEF FinishUpdate, CanUpdate, TypeInv, TypeOK
      <3> QED BY <3>1 DEF Images
    <2>2. PICK good \in BOOLEAN, all \in BOOLEAN, dt \in BOOLEAN :
            LET img == [gen |-> gen + 1, good |-> good]
            IN  /\ shipped' = [shipped EXCEPT ![Other(slot)] = img]
                /\ copies' = [copies EXCEPT ![0] = img, ![1 + Other(slot)] = img]
                /\ flash' = [reboot_next |-> TRUE, update_env |-> all, update_dt |-> dt]
      BY DEF FinishUpdate
    <2> DEFINE new == [gen |-> gen + 1, good |-> good]
    <2>3. /\ shipped' = [shipped EXCEPT ![o] = new]
          /\ copies' = [copies EXCEPT ![0] = new, ![1 + o] = new]
          /\ flash'.reboot_next
      BY <1>2, <2>2
    <2> QED BY <2>1, <2>3
  <1>4. copies \in [Copies -> Images] /\ shipped \in [Slots -> Images]
    BY <1>1 DEF TypeInv, TypeOK
  <1>5. /\ copies'[0] = img /\ copies'[1 + o] = img /\ copies'[1 + active] = copies[1 + active]
        /\ shipped'[o] = img /\ shipped'[active] = shipped[active]
    <2>1. /\ 0 \in Copies /\ 1 + o \in Copies /\ 1 + active \in Copies
          /\ 1 + o # 0 /\ 1 + active # 0 /\ 1 + active # 1 + o
      BY <1>1 DEF Slots, Copies
    <2> QED BY <1>1, <1>3, <1>4, <2>1
  <1>6. active' = o /\ status' = [status EXCEPT ![o] = "trial"]
    BY FinishUpdateSeen
  <1>7. \A s \in Slots : s = active \/ s = o
    BY <1>1 DEF Slots
  <1>8. ShippedKept'
    BY <1>1, <1>5, <1>7 DEF CopiesInv, ShippedKept
  <1> SUFFICES ASSUME cuts = 0 PROVE Unhurt'
    BY <1>2, <1>8 DEF CopiesInv
  <1>9. shipped[active].good
    BY <1>2 DEF CopiesInv, Unhurt, Answered, Opening, Rolling
  <1>10. ProvenGood'
    BY <1>1, <1>5, <1>6, <1>7, <1>9 DEF ProvenGood
  <1>11. ~misc'.roll_flag
    <2>1. boot_info_set_active_slot(misc, o) \in AvbABData
      BY <1>1, SetActiveMeta
    <2> QED BY <1>2, <2>1 DEF AvbABData
  <1>12. UserArea' /\ TreeKept' /\ Started' /\ Backing' /\ Answered'
    BY <1>2, <1>3, <1>5, <1>6, <1>11
       DEF UserArea, TreeKept, Started, Backing, Answered, Opening, Rolling
  <1> QED BY <1>2, <1>10, <1>12 DEF Unhurt

LEMMA CopiesStep ==
    AllInv /\ LegacyTries /\ CopiesInv /\ [Next]_vars => CopiesInv'
  <1> SUFFICES ASSUME AllInv, LegacyTries, CopiesInv, [Next]_vars PROVE CopiesInv'
    OBVIOUS
  <1>1. CASE UBoot
    BY <1>1, CopiesRom, CopiesOpening, CopiesGetValidSlot, CopiesRollback, CopiesSetActive,
       CopiesRestoreDtb, CopiesRollbackEnv, CopiesCheck, CopiesLeave, CopiesUpdateTries,
       CopiesStoreboot
       DEF UBoot, Rollback
  <1>2. CASE SystemFails \/ RescueParty \/ Reboot \/ MarkBootSuccessful \/ BeginUpdate
             \/ FinishUpdate
    BY <1>2, CopiesLeave, CopiesMark, CopiesFinishUpdate
  <1>3. CASE PowerCut
    <2>1. cuts' = cuts + 1 /\ copies' = copies /\ shipped' = shipped
      BY <1>3 DEF PowerCut, storage, systems
    <2>2. cuts \in Nat
      BY DEF AllInv, TypeInv, TypeOK
    <2>3. cuts' # 0
      BY <2>1, <2>2
    <2> QED BY <2>1, <2>3 DEF CopiesInv, ShippedKept
  <1>4. CASE UNCHANGED vars
    <2>1. UNCHANGED <<misc, flash, copies, dtb, pc, slot, idx, mode, rb, shipped, cuts>>
      BY <1>4 DEF vars, storage, ram, world, systems
    <2>2. active' = active /\ status' = status
      BY <2>1 DEF active, status, ActiveIn, StatusIn, Migrated, SlotStatus
    <2> QED BY <2>1, <2>2 DEF CopiesInv, ShippedKept, Unhurt, ProvenGood, Backing, UserArea,
                              Answered, Started, TreeKept
  <1> QED BY <1>1, <1>2, <1>3, <1>4 DEF Next, Outside

LEMMA LegacyTriesKept ==
    TypeInv /\ ProtectInv /\ LegacyInv /\ LegacyTries /\ [Next]_vars => LegacyTries'
  <1> SUFFICES ASSUME TypeInv, ProtectInv, LegacyInv, LegacyTries, [Next]_vars
               PROVE  LegacyTries'
    OBVIOUS
  <1>1. CASE Next
    BY <1>1, LegacyStep, NotLegacyAgain DEF LegacyTries, Legacy
  <1>2. CASE UNCHANGED vars
    BY <1>2 DEF vars, storage, LegacyTries, Legacy, boot_info_validate_VAB
  <1> QED BY <1>1, <1>2

LEMMA InitCopies ==
    ASSUME SlotAProven, Init
    PROVE  LegacyTries /\ CopiesInv
  <1>1. LegacyTries
    BY DEF Init, LegacyTries, Legacy, boot_info_validate_VAB, Uninitialised, VirtualAB,
           boot_info_reset
  <1>2. /\ copies = [c \in Copies |-> FactoryImage] /\ shipped = [s \in Slots |-> FactoryImage]
        /\ pc = "rom"
    BY DEF Init
  <1>3. active \in Slots
    BY InitTypes, TypeFacts
  <1>4. FactoryImage.good /\ 0 \in Copies /\ \A s \in Slots : 1 + s \in Copies
    BY DEF FactoryImage, Copies, Slots
  <1>5. ShippedKept /\ ProvenGood
    BY <1>2, <1>4 DEF ShippedKept, ProvenGood
  <1>6. ~misc.roll_flag
    BY DEF Init, Uninitialised, VirtualAB, boot_info_reset
  <1>7. Backing /\ UserArea /\ Answered /\ Started /\ TreeKept
    BY <1>2, <1>3, <1>4, <1>6 DEF Backing, UserArea, Answered, Started, TreeKept, Rolling
  <1> QED BY <1>1, <1>2, <1>5, <1>7 DEF CopiesInv, Unhurt

\* What the invariant says of a device that is bricked and of a system that runs.
LEMMA CopiesInvImplies == AllInv /\ CopiesInv => NeverBricked /\ BootsMatching /\ RollbackRestoresDtb
  <1> SUFFICES ASSUME AllInv, CopiesInv, cuts = 0
               PROVE  /\ pc # "bricked"
                      /\ pc = "kernel" => copies[idx] = shipped[slot]
                      /\ pc = "kernel" /\ misc.roll_flag => dtb = shipped[slot].gen
    BY DEF NeverBricked, BootsMatching, RollbackRestoresDtb
  <1>1. Unhurt
    BY DEF CopiesInv
  <1> SUFFICES ASSUME pc = "kernel"
               PROVE  /\ copies[idx] = shipped[slot]
                      /\ misc.roll_flag => dtb = shipped[slot].gen
    BY <1>1 DEF Unhurt
  <1>2. slot = active
    BY KernelFacts
  <1>3. copies[0] = shipped[active] /\ shipped[active].good
    BY <1>1 DEF Unhurt, UserArea, Answered, Opening, Rolling
  <1>4. idx = 0
    BY <1>1, <1>3 DEF Unhurt, Started, Rolling
  <1> QED BY <1>1, <1>2, <1>3, <1>4 DEF Unhurt, TreeKept

WholeInv == TypeInv /\ ProtectInv /\ LegacyInv /\ PromiseInv /\ LegacyTries /\ CopiesInv

LEMMA WholeInvariant ==
    SlotAProven /\ LegacyBuilds \subseteq {TRUE} => (Spec => [](AllInv /\ WholeInv))
  <1> SUFFICES ASSUME SlotAProven, LegacyBuilds \subseteq {TRUE}
               PROVE  Spec => [](AllInv /\ WholeInv)
    OBVIOUS
  <1>1. Init => WholeInv
    <2>1. Init => LegacyInv
      BY DEF Init, LegacyInv, boot_info_validate_VAB, Uninitialised, boot_info_reset
    <2> QED BY <2>1, InitTypes, InitProtects, InitPromise, InitCopies DEF WholeInv
  <1>2. WholeInv => AllInv
    BY DEF WholeInv, AllInv, LegacyInv, Early, Legacy
  <1>3. WholeInv /\ [Next]_vars => WholeInv'
    BY <1>2, TypesKept, ProtectKept, LegacyKept, StepPromise, LegacyTriesKept, CopiesStep
       DEF WholeInv
  <1> QED BY <1>1, <1>2, <1>3, PTL DEF Spec

\* Without a power cut the ROM always finds a copy it accepts: the bootloader of a proven
\* slot is good, and a rollback copies no other.  For every number of updates, tries and
\* rollbacks, whichever order the build runs the commands in, under the restrictions of
\* AvbBootKeepsPromise.
THEOREM AvbNeverBricked ==
    SlotAProven /\ LegacyBuilds \subseteq {TRUE} => (Spec => []NeverBricked)
  <1> SUFFICES ASSUME SlotAProven, LegacyBuilds \subseteq {TRUE} PROVE Spec => []NeverBricked
    OBVIOUS
  <1>1. AllInv /\ WholeInv => NeverBricked
    BY CopiesInvImplies DEF WholeInv
  <1>2. Spec => [](AllInv /\ WholeInv)
    BY WholeInvariant
  <1> QED BY <1>1, <1>2, PTL

\* Without a power cut every system runs on top of the bootloader it came with, after
\* updates and after all four kinds of rollback.
THEOREM AvbBootsMatching ==
    SlotAProven /\ LegacyBuilds \subseteq {TRUE} => (Spec => []BootsMatching)
  <1> SUFFICES ASSUME SlotAProven, LegacyBuilds \subseteq {TRUE} PROVE Spec => []BootsMatching
    OBVIOUS
  <1>1. AllInv /\ WholeInv => BootsMatching
    BY CopiesInvImplies DEF WholeInv
  <1>2. Spec => [](AllInv /\ WholeInv)
    BY WholeInvariant
  <1> QED BY <1>1, <1>2, PTL

\* Without a power cut the device tree goes back with the slot in every rollback.
THEOREM AvbRollbackRestoresDtb ==
    SlotAProven /\ LegacyBuilds \subseteq {TRUE} => (Spec => []RollbackRestoresDtb)
  <1> SUFFICES ASSUME SlotAProven, LegacyBuilds \subseteq {TRUE} PROVE Spec => []RollbackRestoresDtb
    OBVIOUS
  <1>1. AllInv /\ WholeInv => RollbackRestoresDtb
    BY CopiesInvImplies DEF WholeInv
  <1>2. Spec => [](AllInv /\ WholeInv)
    BY WholeInvariant
  <1> QED BY <1>1, <1>2, PTL

\* Whatever U-Boot, the updates and the power cuts do to the metadata, the slots that
\* get_valid_slot reads from it always include one that is marked successful and whose
\* system works: no migration, reset, try or rollback gives up the last good system.
THEOREM AvbKeepsAWorkingSystem ==
    SlotAProven /\ LegacyBuilds \subseteq {TRUE} =>
        (Spec => [](\E s \in Slots : Migrated(misc).slots[s].successful_boot /\ osOk[s]))
  <1> SUFFICES ASSUME SlotAProven, LegacyBuilds \subseteq {TRUE}
               PROVE  Spec => [](\E s \in Slots :
                                   Migrated(misc).slots[s].successful_boot /\ osOk[s])
    OBVIOUS
  <1>1. AllInv => \E s \in Slots : Migrated(misc).slots[s].successful_boot /\ osOk[s]
    <2> SUFFICES ASSUME AllInv
                 PROVE  \E s \in Slots : Migrated(misc).slots[s].successful_boot /\ osOk[s]
      OBVIOUS
    <2>1. PICK s \in Slots : status[s] = "proven"
      BY DEF AllInv, PromiseInv, SomeProven
    <2>2. osOk[s]
      BY <2>1 DEF AllInv, PromiseInv, ProvenWorks
    <2>3. Migrated(misc).slots[s].successful_boot
      BY <2>1, TypeFacts, Mapped DEF AllInv, status
    <2> QED BY <2>2, <2>3
  <1>2. Spec => [](AllInv /\ WholeInv)
    BY WholeInvariant
  <1> QED BY <1>1, <1>2, PTL
=============================================================================
