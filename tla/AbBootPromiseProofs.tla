------------------------- MODULE AbBootPromiseProofs -------------------------
(***************************************************************************)
(* AbBoot keeps the promise of SlotPromise: the step simulation behind the *)
(* refinement KeepsPromise, for every number of tries, images and power    *)
(* cuts, with or without a GPT.                                            *)
(***************************************************************************)
EXTENDS AbBootProofs

-----------------------------------------------------------------------------
(* The refinement mapping: what SlotPromise sees of the metadata.          *)

ActiveIn(info) == get_active_slot(Migrated(info))
StatusIn(info) == [s \in Slots |-> SlotStatus(Migrated(info).slot[s])]

active == ActiveIn(misc)
status == StatusIn(misc)
Fresh == Migrated(misc).firstboot

Statuses == {"proven", "trial", "empty"}

LEMMA StatusOf ==
    ASSUME NEW d \in SlotMeta
    PROVE  /\ SlotStatus(d) \in Statuses
           /\ SlotStatus(d) = "proven" <=> d.successful_boot
           /\ SlotStatus(d) = "trial" <=> ~d.successful_boot /\ d.tries_remaining # 0
  <1>1. d.tries_remaining \in 0..7 /\ d.successful_boot \in BOOLEAN
    BY DEF SlotMeta
  <1>2. CASE d.successful_boot
    BY <1>2 DEF SlotStatus, Statuses
  <1>3. CASE ~d.successful_boot /\ d.tries_remaining > 0
    BY <1>1, <1>3 DEF SlotStatus, Statuses
  <1>4. CASE ~d.successful_boot /\ ~(d.tries_remaining > 0)
    BY <1>1, <1>4 DEF SlotStatus, Statuses
  <1> QED BY <1>1, <1>2, <1>3, <1>4

LEMMA Mapped ==
    ASSUME NEW info \in BootloaderControl
    PROVE  /\ ActiveIn(info) \in Slots
           /\ StatusIn(info) \in [Slots -> Statuses]
           /\ \A s \in Slots :
                /\ StatusIn(info)[s] = SlotStatus(Migrated(info).slot[s])
                /\ Migrated(info).slot[s] \in SlotMeta
                /\ StatusIn(info)[s] = "proven" <=> Migrated(info).slot[s].successful_boot
                /\ StatusIn(info)[s] = "trial"
                     <=> /\ ~Migrated(info).slot[s].successful_boot
                         /\ Migrated(info).slot[s].tries_remaining # 0
  <1> DEFINE new == Migrated(info)
  <1>1. new \in BootloaderControl /\ get_active_slot(new) \in Slots
    BY MigratedType, ActiveSlotType
  <1> HIDE DEF new
  <1>2. \A s \in Slots : new.slot[s] \in SlotMeta
    BY <1>1 DEF BootloaderControl
  <1>3. StatusIn(info) = [s \in Slots |-> SlotStatus(new.slot[s])]
        /\ ActiveIn(info) = get_active_slot(new)
    BY DEF StatusIn, ActiveIn, new
  <1>4. /\ StatusIn(info) \in [Slots -> Statuses]
        /\ \A s \in Slots :
             /\ StatusIn(info)[s] = SlotStatus(new.slot[s])
             /\ StatusIn(info)[s] = "proven" <=> new.slot[s].successful_boot
             /\ StatusIn(info)[s] = "trial" <=> /\ ~new.slot[s].successful_boot
                                                /\ new.slot[s].tries_remaining # 0
    BY <1>2, <1>3, StatusOf
  <1> QED BY <1>1, <1>2, <1>3, <1>4 DEF new

\* Valid metadata is seen as it is, and is all that the migration leaves.
LEMMA MappedValid ==
    ASSUME NEW info, info.magic = "vab"
    PROVE  Migrated(info) = info /\ ActiveIn(info) = get_active_slot(info)
  <1>1. Migrated(info) = info
    BY DEF Migrated, boot_info_validate, boot_info_validate_normalAB
  <1> QED BY <1>1 DEF ActiveIn

LEMMA MigratedMeta ==
    ASSUME NEW info, info.magic # "ab"
    PROVE  /\ info.magic # "vab" => Migrated(info) = boot_info_reset
           /\ Migrated(info).magic = "vab"
           /\ Migrated(Migrated(info)) = Migrated(info)
  <1>1. boot_info_reset.magic = "vab"
    BY DEF boot_info_reset
  <1>2. CASE info.magic = "vab"
    BY <1>2, MappedValid
  <1>3. CASE info.magic # "vab"
    <2>1. Migrated(info) = boot_info_reset
      BY <1>3 DEF Migrated, boot_info_validate, boot_info_validate_normalAB
    <2> QED BY <1>1, <1>3, <2>1, MappedValid
  <1> QED BY <1>2, <1>3

\* A reset leaves slot 0 active and proven, and slot 1 empty.
LEMMA ResetMeta ==
    /\ boot_info_reset.magic = "vab" /\ boot_info_reset.firstboot
    /\ ActiveIn(boot_info_reset) = 0
    /\ StatusIn(boot_info_reset)[0] = "proven" /\ StatusIn(boot_info_reset)[1] = "empty"
    /\ boot_info_reset.slot[0].tries_remaining # 0
  <1> DEFINE r == boot_info_reset
  <1>1. r.magic = "vab" /\ r.firstboot
    BY DEF boot_info_reset
  <1>2. /\ r.slot[0].priority = 15 /\ r.slot[0].successful_boot
        /\ r.slot[0].tries_remaining = BOOT_ATTEMPTS
        /\ r.slot[1].priority = 7 /\ ~r.slot[1].successful_boot
        /\ r.slot[1].tries_remaining = 0
    BY DEF boot_info_reset, Slots, kActivePriority
  <1>3. r \in BootloaderControl
    BY ResetType
  <1> HIDE DEF r
  <1>4. Migrated(r) = r /\ ActiveIn(r) = 0
    BY <1>1, <1>2, MappedValid DEF get_active_slot
  <1>5. StatusIn(r)[0] = "proven" /\ StatusIn(r)[1] \in Statuses
        /\ StatusIn(r)[1] # "proven" /\ StatusIn(r)[1] # "trial"
    BY <1>2, <1>3, <1>4, Mapped DEF Slots
  <1>6. r.slot[0].tries_remaining # 0
    BY <1>2, TriesAssumption
  <1> QED BY <1>1, <1>4, <1>5, <1>6 DEF r, Statuses

\* Metadata with the same priorities, tries and successful bits looks the same.
LEMMA MappedSame ==
    ASSUME NEW a, NEW b, a.magic = "vab", b.magic = "vab",
           \A s \in Slots : /\ a.slot[s].priority = b.slot[s].priority
                            /\ a.slot[s].tries_remaining = b.slot[s].tries_remaining
                            /\ a.slot[s].successful_boot = b.slot[s].successful_boot
    PROVE  ActiveIn(a) = ActiveIn(b) /\ StatusIn(a) = StatusIn(b)
  <1>1. Migrated(a) = a /\ Migrated(b) = b
        /\ ActiveIn(a) = get_active_slot(a) /\ ActiveIn(b) = get_active_slot(b)
    BY MappedValid
  <1>2. get_active_slot(a) = get_active_slot(b)
    BY SameActive
  <1>3. \A s \in Slots : SlotStatus(a.slot[s]) = SlotStatus(b.slot[s])
    BY DEF SlotStatus
  <1> QED BY <1>1, <1>2, <1>3 DEF StatusIn

LEMMA MappedMigrated ==
    ASSUME NEW info, info.magic # "ab"
    PROVE  /\ ActiveIn(Migrated(info)) = ActiveIn(info)
           /\ StatusIn(Migrated(info)) = StatusIn(info)
  BY MigratedMeta DEF ActiveIn, StatusIn

\* Setting roll_flag, noting uboot_status and counting a first boot are not seen.
LEMMA MappedNotes ==
    ASSUME NEW info \in BootloaderControl, info.magic = "vab", NEW new,
           \/ new = [info EXCEPT !.roll_flag = TRUE]
           \/ \E s \in Slots : new = [info EXCEPT !.slot[s].uboot_status = 2]
           \/ \E m : new = CountFirstBoot(info, m)
    PROVE  /\ new.magic = "vab" /\ new.firstboot = info.firstboot
           /\ ActiveIn(new) = ActiveIn(info) /\ StatusIn(new) = StatusIn(info)
           /\ \A s \in Slots : new.slot[s].tries_remaining = info.slot[s].tries_remaining
  <1>1. CASE new = [info EXCEPT !.roll_flag = TRUE]
    <2>1. new.magic = "vab" /\ new.slot = info.slot /\ new.firstboot = info.firstboot
      BY <1>1 DEF BootloaderControl
    <2> QED BY <2>1, MappedSame
  <1>2. ASSUME NEW s \in Slots, new = [info EXCEPT !.slot[s].uboot_status = 2]
        PROVE  /\ new.magic = "vab" /\ new.firstboot = info.firstboot
               /\ ActiveIn(new) = ActiveIn(info) /\ StatusIn(new) = StatusIn(info)
               /\ \A t \in Slots : new.slot[t].tries_remaining = info.slot[t].tries_remaining
    <2>1. new.magic = "vab" /\ new.firstboot = info.firstboot
      BY <1>2 DEF BootloaderControl
    <2>2. \A t \in Slots : /\ new.slot[t].priority = info.slot[t].priority
                           /\ new.slot[t].tries_remaining = info.slot[t].tries_remaining
                           /\ new.slot[t].successful_boot = info.slot[t].successful_boot
      BY <1>2 DEF BootloaderControl, SlotMeta
    <2> QED BY <2>1, <2>2, MappedSame
  <1>3. ASSUME NEW m, new = CountFirstBoot(info, m)
        PROVE  /\ new.magic = "vab" /\ new.firstboot = info.firstboot /\ new.slot = info.slot
    BY <1>3 DEF CountFirstBoot, BootloaderControl
  <1>4. CASE \E m : new = CountFirstBoot(info, m)
    <2>1. /\ new.magic = "vab" /\ new.firstboot = info.firstboot /\ new.slot = info.slot
      BY <1>3, <1>4
    <2> QED BY <2>1, MappedSame
  <1> QED BY <1>1, <1>2, <1>4

\* A slot made active may be tried, unless it has booted before.
LEMMA MappedSetActive ==
    ASSUME NEW info \in BootloaderControl, NEW s \in Slots, info.magic = "vab"
    PROVE  LET new == boot_info_set_active_slot(info, s)
           IN  /\ new \in BootloaderControl /\ new.magic = "vab"
               /\ new.firstboot = info.firstboot
               /\ ActiveIn(new) = s
               /\ StatusIn(new)[s] = IF StatusIn(info)[s] = "proven" THEN "proven" ELSE "trial"
               /\ new.slot[s].tries_remaining # 0
               /\ \A t \in Slots : t # s =>
                    /\ StatusIn(new)[t] = StatusIn(info)[t]
                    /\ new.slot[t].tries_remaining = info.slot[t].tries_remaining
  <1> DEFINE raised(t) == [info.slot[t] EXCEPT !.priority = kActivePriority,
                                               !.tries_remaining = kActiveTries]
             lowered(t) == [info.slot[t] EXCEPT !.priority = Lowered(info.slot[t].priority)]
             f == [t \in Slots |-> IF t = s THEN raised(t) ELSE lowered(t)]
             new == boot_info_set_active_slot(info, s)
  <1>1. new \in BootloaderControl /\ get_active_slot(new) = s
    BY SetActiveType, SetActiveSlotActivates
  <1>2. new.slot = f /\ new.magic = "vab" /\ new.firstboot = info.firstboot
    BY DEF boot_info_set_active_slot, BootloaderControl
  <1> HIDE DEF new
  <1>3. Migrated(info) = info /\ Migrated(new) = new /\ ActiveIn(new) = s
    BY <1>1, <1>2, MappedValid
  <1>4. \A t \in Slots : info.slot[t] \in SlotMeta
    BY DEF BootloaderControl
  <1>5. f[s] = raised(s)
    OBVIOUS
  <1>6. raised(s).tries_remaining = kActiveTries
        /\ raised(s).successful_boot = info.slot[s].successful_boot
    BY <1>4 DEF SlotMeta
  <1>7. ASSUME NEW t \in Slots, t # s
        PROVE  /\ SlotStatus(f[t]) = SlotStatus(info.slot[t])
               /\ f[t].tries_remaining = info.slot[t].tries_remaining
    <2>1. f[t] = lowered(t)
      BY <1>7
    <2>2. lowered(t).tries_remaining = info.slot[t].tries_remaining
          /\ lowered(t).successful_boot = info.slot[t].successful_boot
      BY <1>4 DEF SlotMeta
    <2> HIDE DEF lowered, f
    <2> QED BY <2>1, <2>2 DEF SlotStatus
  <1> HIDE DEF raised, lowered, f
  <1>8. kActiveTries # 0
    BY TriesAssumption
  <1>9. StatusIn(new)[s] = IF StatusIn(info)[s] = "proven" THEN "proven" ELSE "trial"
    BY <1>1, <1>2, <1>3, <1>5, <1>6, <1>8, Mapped
  <1>10. ASSUME NEW t \in Slots, t # s
         PROVE  /\ StatusIn(new)[t] = StatusIn(info)[t]
                /\ new.slot[t].tries_remaining = info.slot[t].tries_remaining
    BY <1>1, <1>2, <1>3, <1>7, <1>10, Mapped
  <1>11. new.slot[s].tries_remaining # 0
    BY <1>2, <1>5, <1>6, <1>8
  <1>12. /\ new \in BootloaderControl /\ new.magic = "vab" /\ new.firstboot = info.firstboot
         /\ ActiveIn(new) = s
         /\ StatusIn(new)[s] = IF StatusIn(info)[s] = "proven" THEN "proven" ELSE "trial"
         /\ new.slot[s].tries_remaining # 0
         /\ \A t \in Slots : t # s =>
              /\ StatusIn(new)[t] = StatusIn(info)[t]
              /\ new.slot[t].tries_remaining = info.slot[t].tries_remaining
    BY <1>1, <1>2, <1>3, <1>9, <1>10, <1>11
  <1> QED BY <1>12 DEF new

\* A change of the tries of an active slot that has not booted.
LEMMA TriesChanged ==
    ASSUME NEW info \in BootloaderControl, NEW n \in 0..7, NEW a \in Slots
    PROVE  LET new == [info EXCEPT !.slot[a].tries_remaining = n]
           IN  /\ new \in BootloaderControl /\ new.magic = info.magic
               /\ new.firstboot = info.firstboot
               /\ new.slot[a].tries_remaining = n
               /\ \A t \in Slots : t # a => new.slot[t] = info.slot[t]
               /\ \A t \in Slots : /\ new.slot[t].priority = info.slot[t].priority
                                   /\ new.slot[t].successful_boot
                                        = info.slot[t].successful_boot
  BY DEF BootloaderControl, SlotMeta

LEMMA MappedTries ==
    ASSUME NEW info \in BootloaderControl, info.magic = "vab", NEW n \in 0..7,
           NEW new \in BootloaderControl, NEW a \in Slots,
           a = ActiveIn(info), ~info.slot[a].successful_boot,
           n # 0 => info.slot[a].tries_remaining # 0,
           new.magic = "vab", new.slot[a].tries_remaining = n,
           \A t \in Slots : t # a => new.slot[t] = info.slot[t],
           \A t \in Slots : /\ new.slot[t].priority = info.slot[t].priority
                            /\ new.slot[t].successful_boot = info.slot[t].successful_boot
    PROVE  /\ ActiveIn(new) = a
           /\ \A t \in Slots : t # a => StatusIn(new)[t] = StatusIn(info)[t]
           /\ \/ StatusIn(new)[a] = StatusIn(info)[a]
              \/ StatusIn(info)[a] = "trial" /\ StatusIn(new)[a] = "empty"
  <1>1. Migrated(info) = info /\ Migrated(new) = new
        /\ ActiveIn(info) = get_active_slot(info) /\ ActiveIn(new) = get_active_slot(new)
    BY MappedValid
  <1>2. ActiveIn(new) = a
    BY <1>1, SameActive
  <1>3. \A t \in Slots : t # a => StatusIn(new)[t] = StatusIn(info)[t]
    BY <1>1, Mapped
  <1>4. /\ StatusIn(new)[a] \in Statuses /\ StatusIn(info)[a] \in Statuses
        /\ StatusIn(new)[a] # "proven" /\ StatusIn(info)[a] # "proven"
        /\ StatusIn(new)[a] = "trial" => StatusIn(info)[a] = "trial"
    BY <1>1, Mapped
  <1> QED BY <1>2, <1>3, <1>4 DEF Statuses

\* What charging a try, or giving all of them up, does.
LEMMA MappedCharged ==
    ASSUME NEW info \in BootloaderControl, info.magic = "vab", NEW new,
           (\E m : new = CountTry(info, m)) \/ new = ForfeitTries(info)
    PROVE  LET a == ActiveIn(info)
           IN  /\ new \in BootloaderControl /\ new.magic = "vab"
               /\ new.firstboot = info.firstboot
               /\ ActiveIn(new) = a
               /\ \A t \in Slots : t # a \/ StatusIn(info)[t] = "proven" =>
                    /\ StatusIn(new)[t] = StatusIn(info)[t]
                    /\ new.slot[t].tries_remaining = info.slot[t].tries_remaining
               /\ \/ StatusIn(new)[a] = StatusIn(info)[a]
                  \/ StatusIn(info)[a] = "trial" /\ StatusIn(new)[a] = "empty"
  <1> DEFINE a == ActiveIn(info)
             old == info.slot[a].tries_remaining
  <1>1. a \in Slots /\ Migrated(info) = info /\ a = get_active_slot(info)
        /\ (StatusIn(info)[a] = "proven" <=> info.slot[a].successful_boot)
    BY Mapped, MappedValid
  <1>2. old \in 0..7
    BY <1>1 DEF BootloaderControl, SlotMeta
  <1>3. ASSUME NEW m, new = CountTry(info, m), new # info
        PROVE  /\ ~info.slot[a].successful_boot /\ old # 0
               /\ new = [info EXCEPT !.slot[a].tries_remaining = old - 1]
    <2>1. OnTrial(info) /\ new = [info EXCEPT !.slot[a].tries_remaining = @ - 1]
      BY <1>1, <1>3 DEF CountTry
    <2> QED BY <1>1, <2>1 DEF OnTrial, slot_is_bootable, BootloaderControl, SlotMeta
  <1>4. ASSUME new = ForfeitTries(info), new # info
        PROVE  /\ ~info.slot[a].successful_boot
               /\ new = [info EXCEPT !.slot[a].tries_remaining = 0]
    BY <1>1, <1>4 DEF ForfeitTries
  <1> HIDE DEF a, old
  <1>5. CASE new = info
    BY <1>1, <1>5 DEF a
  <1>6. CASE new # info
    <2>1. PICK n \in 0..7 : /\ ~info.slot[a].successful_boot
                            /\ n # 0 => old # 0
                            /\ new = [info EXCEPT !.slot[a].tries_remaining = n]
      <3>1. CASE \E m : new = CountTry(info, m)
        <4>1. ~info.slot[a].successful_boot /\ old # 0
              /\ new = [info EXCEPT !.slot[a].tries_remaining = old - 1]
          BY <1>3, <1>6, <3>1
        <4>2. old - 1 \in 0..7
          BY <1>2, <4>1
        <4> QED BY <4>1, <4>2
      <3>2. CASE new = ForfeitTries(info)
        <4>1. 0 \in 0..7
          OBVIOUS
        <4> QED BY <1>4, <1>6, <3>2, <4>1
      <3> QED BY <3>1, <3>2
    <2>2. a = ActiveIn(info) /\ old = info.slot[a].tries_remaining
      BY DEF a, old
    <2>3. StatusIn(info)[a] # "proven"
      BY <1>1, <2>1
    <2>4. /\ new \in BootloaderControl /\ new.magic = "vab"
          /\ new.firstboot = info.firstboot
          /\ new.slot[a].tries_remaining = n
          /\ \A t \in Slots : t # a => new.slot[t] = info.slot[t]
          /\ \A t \in Slots : /\ new.slot[t].priority = info.slot[t].priority
                              /\ new.slot[t].successful_boot = info.slot[t].successful_boot
      BY <1>1, <2>1, TriesChanged DEF a
    <2>5. /\ ActiveIn(new) = a
          /\ \A t \in Slots : t # a => StatusIn(new)[t] = StatusIn(info)[t]
          /\ \/ StatusIn(new)[a] = StatusIn(info)[a]
             \/ StatusIn(info)[a] = "trial" /\ StatusIn(new)[a] = "empty"
      <3>1. ~info.slot[a].successful_boot /\ (n # 0 => info.slot[a].tries_remaining # 0)
        BY <2>1, <2>2
      <3>2. a \in Slots
        BY <1>1 DEF a
      <3> QED BY <2>2, <2>4, <3>1, <3>2, MappedTries
    <2> QED BY <2>2, <2>3, <2>4, <2>5
  <1> QED BY <1>5, <1>6

\* Marking the active slot as booted proves it.
LEMMA MarkedSlot ==
    ASSUME NEW d \in SlotMeta
    PROVE  /\ Proved(d) \in SlotMeta /\ Proved(d).successful_boot
           /\ Proved(d).priority = d.priority
           /\ Proved(d).tries_remaining = d.tries_remaining
  <1> DEFINE u == IF d.successful_boot THEN d.uboot_status ELSE 1
  <1>1. u \in 0..3
    BY DEF SlotMeta
  <1>2. Proved(d) = [d EXCEPT !.successful_boot = TRUE, !.uboot_status = u]
    BY DEF Proved
  <1> HIDE DEF u
  <1> QED BY <1>1, <1>2 DEF SlotMeta

LEMMA UnprovedSlot ==
    ASSUME NEW d \in SlotMeta
    PROVE  /\ Unproved(d) \in SlotMeta /\ ~Unproved(d).successful_boot
           /\ Unproved(d).priority = d.priority
           /\ Unproved(d).tries_remaining = d.tries_remaining
  <1> DEFINE u == 0
  <1>1. u \in 0..3
    OBVIOUS
  <1>2. Unproved(d) = [d EXCEPT !.successful_boot = FALSE, !.uboot_status = u]
    BY DEF Unproved
  <1> HIDE DEF u
  <1> QED BY <1>1, <1>2 DEF SlotMeta

LEMMA MarkChanged ==
    ASSUME NEW info \in BootloaderControl, NEW a \in Slots
    PROVE  LET new == [info EXCEPT !.slot[a] = Proved(info.slot[a]),
                                   !.merge_flag = FALSE, !.firstboot = FALSE]
           IN  /\ new \in BootloaderControl /\ new.magic = info.magic
               /\ ~new.firstboot
               /\ new.slot[a].successful_boot
               /\ \A t \in Slots : t # a => new.slot[t] = info.slot[t]
               /\ \A t \in Slots :
                    /\ new.slot[t].priority = info.slot[t].priority
                    /\ new.slot[t].tries_remaining = info.slot[t].tries_remaining
  <1> DEFINE d == Proved(info.slot[a])
             new == [info EXCEPT !.slot[a] = d, !.merge_flag = FALSE, !.firstboot = FALSE]
  <1>1. info.slot[a] \in SlotMeta /\ info.slot \in [Slots -> SlotMeta]
    BY DEF BootloaderControl
  <1>2. /\ d \in SlotMeta /\ d.successful_boot
        /\ d.priority = info.slot[a].priority
        /\ d.tries_remaining = info.slot[a].tries_remaining
    BY <1>1, MarkedSlot
  <1> HIDE DEF d
  <1>3. /\ new.slot = [info.slot EXCEPT ![a] = d] /\ new.magic = info.magic
        /\ new.firstboot = FALSE
        /\ new \in BootloaderControl
    BY <1>1, <1>2 DEF BootloaderControl
  <1> HIDE DEF new
  <1>4. /\ new \in BootloaderControl /\ new.magic = info.magic
        /\ ~new.firstboot
        /\ new.slot[a].successful_boot
        /\ \A t \in Slots : t # a => new.slot[t] = info.slot[t]
        /\ \A t \in Slots :
             /\ new.slot[t].priority = info.slot[t].priority
             /\ new.slot[t].tries_remaining = info.slot[t].tries_remaining
    BY <1>1, <1>2, <1>3
  <1> QED BY <1>4 DEF new, d

LEMMA MappedMarked ==
    ASSUME NEW info \in BootloaderControl, info.magic = "vab",
           NEW a \in Slots, a = ActiveIn(info),
           NEW new \in BootloaderControl, new.magic = "vab",
           new.slot[a].successful_boot,
           \A t \in Slots : t # a => new.slot[t] = info.slot[t],
           \A t \in Slots : new.slot[t].priority = info.slot[t].priority
    PROVE  /\ ActiveIn(new) = a
           /\ StatusIn(new) = [StatusIn(info) EXCEPT ![a] = "proven"]
  <1>1. Migrated(info) = info /\ Migrated(new) = new
        /\ a = get_active_slot(info) /\ ActiveIn(new) = get_active_slot(new)
    BY MappedValid
  <1>2. get_active_slot(new) = a
    <2>1. \A s \in Slots : info.slot[s].priority \in 0..15
      BY DEF BootloaderControl, SlotMeta
    <2>2. CASE a = 0
      BY <1>1, <2>1, <2>2 DEF get_active_slot, Slots
    <2>3. CASE a = 1
      BY <1>1, <2>1, <2>3 DEF get_active_slot, Slots
    <2> QED BY <2>2, <2>3 DEF Slots
  <1>3. /\ StatusIn(new)[a] = "proven"
        /\ \A t \in Slots : t # a => StatusIn(new)[t] = StatusIn(info)[t]
    BY <1>1, Mapped
  <1>4. StatusIn(new) \in [Slots -> Statuses] /\ StatusIn(info) \in [Slots -> Statuses]
    BY Mapped
  <1> QED BY <1>1, <1>2, <1>3, <1>4

\* The slot an update is about to write may not be booted; an active slot that has booted
\* stays active.
Unbootable == [priority |-> 0, tries_remaining |-> 0,
               successful_boot |-> FALSE, uboot_status |-> 0]

LEMMA MappedDiscarded ==
    ASSUME NEW info \in BootloaderControl, info.magic = "vab",
           info.slot[ActiveIn(info)].successful_boot
    PROVE  LET o == Other(ActiveIn(info))
               new == [info EXCEPT !.slot[o] = Unbootable]
           IN  /\ new \in BootloaderControl /\ new.magic = "vab"
               /\ new.firstboot = info.firstboot
               /\ ActiveIn(new) = ActiveIn(info)
               /\ StatusIn(new) = [StatusIn(info) EXCEPT ![o] = "empty"]
               /\ new.slot[ActiveIn(info)] = info.slot[ActiveIn(info)]
  <1> DEFINE a == ActiveIn(info)
             o == Other(a)
             new == [info EXCEPT !.slot[o] = Unbootable]
  <1>1. a \in Slots /\ o \in Slots /\ o # a
    BY Mapped, OtherSlot
  <1>2. Unbootable \in SlotMeta /\ SlotStatus(Unbootable) = "empty"
        /\ Unbootable.priority = 0
    <2>1. Unbootable \in SlotMeta /\ Unbootable.priority = 0
          /\ ~Unbootable.successful_boot /\ Unbootable.tries_remaining = 0
      BY DEF Unbootable, SlotMeta
    <2> QED BY <2>1, StatusOf DEF Statuses
  <1> HIDE DEF a, o
  <1>3. /\ new \in BootloaderControl /\ new.magic = "vab" /\ new.firstboot = info.firstboot
        /\ new.slot = [info.slot EXCEPT ![o] = Unbootable]
    BY <1>1, <1>2 DEF BootloaderControl
  <1> HIDE DEF new
  <1>4. info.slot \in [Slots -> SlotMeta]
    BY DEF BootloaderControl
  <1>5. new.slot[o] = Unbootable /\ new.slot[a] = info.slot[a]
        /\ \A t \in Slots : t # o => new.slot[t] = info.slot[t]
    BY <1>1, <1>3, <1>4
  <1>6. Migrated(info) = info /\ Migrated(new) = new
        /\ a = get_active_slot(info) /\ ActiveIn(new) = get_active_slot(new)
    BY <1>3, MappedValid DEF a
  <1>7. get_active_slot(new) = a
    <2>1. \A s \in Slots : info.slot[s].priority \in 0..15
      BY <1>4 DEF SlotMeta
    <2>2. info.slot[a].successful_boot
      BY DEF a
    <2>3. CASE a = 0
      <3>1. o = 1
        BY <1>1, <2>3 DEF Slots
      <3> QED BY <1>2, <1>5, <2>1, <2>2, <2>3, <3>1 DEF get_active_slot, Slots
    <2>4. CASE a = 1
      <3>1. o = 0
        BY <1>1, <2>4 DEF Slots
      <3>2. ~Unbootable.successful_boot
        BY DEF Unbootable
      <3> QED BY <1>2, <1>5, <2>1, <2>2, <2>4, <3>1, <3>2 DEF get_active_slot, Slots
    <2> QED BY <1>1, <2>3, <2>4 DEF Slots
  <1>8. StatusIn(new)[o] = "empty" /\ \A t \in Slots : t # o => StatusIn(new)[t] = StatusIn(info)[t]
    <2>1. \A t \in Slots : /\ StatusIn(info)[t] = SlotStatus(info.slot[t])
                           /\ StatusIn(new)[t] = SlotStatus(new.slot[t])
      BY <1>6 DEF StatusIn
    <2>2. StatusIn(new)[o] = "empty"
      BY <1>1, <1>2, <1>5, <2>1
    <2>3. ASSUME NEW t \in Slots, t # o PROVE StatusIn(new)[t] = StatusIn(info)[t]
      <3>1. new.slot[t] = info.slot[t]
        BY <1>5, <2>3
      <3> QED BY <2>1, <3>1
    <2> QED BY <2>2, <2>3
  <1>9. StatusIn(new) \in [Slots -> Statuses] /\ StatusIn(info) \in [Slots -> Statuses]
    BY <1>3, Mapped
  <1>10. StatusIn(new) = [StatusIn(info) EXCEPT ![o] = "empty"]
    BY <1>1, <1>8, <1>9
  <1> QED BY <1>3, <1>5, <1>6, <1>7, <1>10 DEF new, a, o

\* An update that is complete makes the other slot active, on trial.
LEMMA StartedChanged ==
    ASSUME NEW info \in BootloaderControl, NEW t \in Slots
    PROVE  LET new == [info EXCEPT !.slot[t] = Unproved(info.slot[t]),
                                   !.roll_flag = FALSE, !.merge_flag = TRUE]
           IN  /\ new \in BootloaderControl /\ new.magic = info.magic
               /\ new.firstboot = info.firstboot
               /\ ~new.slot[t].successful_boot
               /\ \A s \in Slots : s # t => new.slot[s] = info.slot[s]
               /\ \A s \in Slots :
                    /\ new.slot[s].priority = info.slot[s].priority
                    /\ new.slot[s].tries_remaining = info.slot[s].tries_remaining
  <1> DEFINE d == Unproved(info.slot[t])
             new == [info EXCEPT !.slot[t] = d, !.roll_flag = FALSE, !.merge_flag = TRUE]
  <1>1. info.slot[t] \in SlotMeta /\ info.slot \in [Slots -> SlotMeta]
    BY DEF BootloaderControl
  <1>2. /\ d \in SlotMeta /\ ~d.successful_boot
        /\ d.priority = info.slot[t].priority
        /\ d.tries_remaining = info.slot[t].tries_remaining
    BY <1>1, UnprovedSlot
  <1> HIDE DEF d
  <1>3. /\ new.slot = [info.slot EXCEPT ![t] = d] /\ new.magic = info.magic
        /\ new.firstboot = info.firstboot
        /\ new \in BootloaderControl
    BY <1>1, <1>2 DEF BootloaderControl
  <1> HIDE DEF new
  <1>4. /\ new \in BootloaderControl /\ new.magic = info.magic
        /\ new.firstboot = info.firstboot
        /\ ~new.slot[t].successful_boot
        /\ \A s \in Slots : s # t => new.slot[s] = info.slot[s]
        /\ \A s \in Slots :
             /\ new.slot[s].priority = info.slot[s].priority
             /\ new.slot[s].tries_remaining = info.slot[s].tries_remaining
    BY <1>1, <1>2, <1>3
  <1> QED BY <1>4 DEF new, d

LEMMA MappedStarted ==
    ASSUME NEW info \in BootloaderControl, NEW t \in Slots, info.magic = "vab"
    PROVE  LET mid == boot_info_set_active_slot(info, t)
               new == [mid EXCEPT !.slot[t] = Unproved(mid.slot[t]),
                                  !.roll_flag = FALSE, !.merge_flag = TRUE]
           IN  /\ new \in BootloaderControl /\ new.magic = "vab"
               /\ new.firstboot = info.firstboot
               /\ ActiveIn(new) = t
               /\ StatusIn(new) = [StatusIn(info) EXCEPT ![t] = "trial"]
               /\ \A s \in Slots : s # t =>
                    new.slot[s].tries_remaining = info.slot[s].tries_remaining
  <1> DEFINE mid == boot_info_set_active_slot(info, t)
             new == [mid EXCEPT !.slot[t] = Unproved(mid.slot[t]),
                                !.roll_flag = FALSE, !.merge_flag = TRUE]
             o == Other(t)
  <1>0. o \in Slots /\ o # t /\ \A s \in Slots : s # t => s = o
    BY DEF Slots, Other
  <1>1. /\ mid \in BootloaderControl /\ mid.magic = "vab"
        /\ mid.firstboot = info.firstboot
        /\ mid.slot[t].tries_remaining # 0
        /\ \A s \in Slots : s # t =>
             /\ StatusIn(mid)[s] = StatusIn(info)[s]
             /\ mid.slot[s].tries_remaining = info.slot[s].tries_remaining
    BY MappedSetActive
  <1>2. mid.slot[t].priority = 15
    BY DEF boot_info_set_active_slot, BootloaderControl, SlotMeta, kActivePriority
  <1>3. mid.slot[o].priority \in 0..14
    <2>1. mid.slot[o].priority = Lowered(info.slot[o].priority)
      BY <1>0 DEF boot_info_set_active_slot, BootloaderControl, SlotMeta
    <2>2. info.slot[o].priority \in 0..15
      BY <1>0 DEF BootloaderControl, SlotMeta
    <2> QED BY <2>1, <2>2 DEF Lowered, kActivePriority
  <1> HIDE DEF mid
  <1>4. /\ new \in BootloaderControl /\ new.magic = mid.magic
        /\ new.firstboot = mid.firstboot
        /\ ~new.slot[t].successful_boot
        /\ \A s \in Slots : s # t => new.slot[s] = mid.slot[s]
        /\ \A s \in Slots :
             /\ new.slot[s].priority = mid.slot[s].priority
             /\ new.slot[s].tries_remaining = mid.slot[s].tries_remaining
    BY <1>1, StartedChanged
  <1> HIDE DEF new, o
  <1>5. /\ new \in BootloaderControl /\ new.magic = "vab" /\ new.firstboot = info.firstboot
        /\ new.slot[t].priority = 15 /\ new.slot[o].priority \in 0..14
        /\ Migrated(new) = new /\ Migrated(mid) = mid
        /\ ActiveIn(new) = get_active_slot(new)
    BY <1>0, <1>1, <1>2, <1>3, <1>4, MappedValid
  <1>6. get_active_slot(new) = t
    <2>1. CASE t = 0
      <3>1. o = 1
        BY <1>0, <2>1 DEF Slots
      <3> QED BY <1>5, <2>1, <3>1 DEF get_active_slot
    <2>2. CASE t = 1
      <3>1. o = 0
        BY <1>0, <2>2 DEF Slots
      <3> QED BY <1>5, <2>2, <3>1 DEF get_active_slot
    <2> QED BY <2>1, <2>2 DEF Slots
  <1>7. StatusIn(new)[t] = "trial"
    BY <1>1, <1>4, <1>5, Mapped
  <1>8. \A s \in Slots : s # t => StatusIn(new)[s] = StatusIn(info)[s]
    <2>1. \A s \in Slots : s # t => StatusIn(new)[s] = StatusIn(mid)[s]
      BY <1>4, <1>5 DEF StatusIn
    <2> QED BY <1>1, <2>1
  <1>9. StatusIn(new) \in [Slots -> Statuses] /\ StatusIn(info) \in [Slots -> Statuses]
    BY <1>5, Mapped
  <1>10. StatusIn(new) = [StatusIn(info) EXCEPT ![t] = "trial"]
    BY <1>7, <1>8, <1>9
  <1>11. /\ new \in BootloaderControl /\ new.magic = "vab"
         /\ new.firstboot = info.firstboot
         /\ ActiveIn(new) = t
         /\ StatusIn(new) = [StatusIn(info) EXCEPT ![t] = "trial"]
         /\ \A s \in Slots : s # t =>
              new.slot[s].tries_remaining = info.slot[s].tries_remaining
    BY <1>1, <1>4, <1>5, <1>6, <1>10
  <1> QED BY <1>11 DEF new, mid

-----------------------------------------------------------------------------
(* The steps of SlotPromise, in terms of the metadata.                     *)

LEMMA PromiseInit ==
    ASSUME active \in Slots, status \in [Slots -> Statuses],
           \E s \in Slots : status[s] = "proven"
    PROVE  Promise!Init
  BY DEF Promise!Init, Promise!Slots, Promise!Statuses, Slots, Statuses, active, status,
         ActiveIn, StatusIn

Proves == /\ status[active] # "proven"
          /\ status' = [status EXCEPT ![active] = "proven"]
          /\ active' = active
Discards == /\ status[active] = "proven"
            /\ status' = [status EXCEPT ![Other(active)] = "empty"]
            /\ active' = active
Activates == /\ status[active] = "proven"
             /\ active' = Other(active)
             /\ status' = [status EXCEPT ![Other(active)] = "trial"]
Exhausts == /\ status[active] = "trial"
            /\ status' = [status EXCEPT ![active] = "empty"]
            /\ active' = active
GoesBack == /\ status[active] # "proven"
            /\ status[Other(active)] = "proven"
            /\ active' = Other(active)
            /\ status' = status
Stutters == active' = active /\ status' = status

PromiseStep == Proves \/ Discards \/ Activates \/ Exhausts \/ GoesBack \/ Stutters

LEMMA PromiseNext == PromiseStep => [Promise!Next]_(Promise!slots)
  <1> USE DEF active, status, ActiveIn, StatusIn, Other, Promise!Other
  <1>1. Proves => Promise!Prove
    BY DEF Proves, Promise!Prove
  <1>2. Discards => Promise!Discard
    BY DEF Discards, Promise!Discard
  <1>3. Activates => Promise!Activate
    BY DEF Activates, Promise!Activate
  <1>4. Exhausts => Promise!Exhaust
    BY DEF Exhausts, Promise!Exhaust
  <1>5. GoesBack => Promise!GoBack
    BY DEF GoesBack, Promise!GoBack
  <1>6. Stutters => UNCHANGED Promise!slots
    BY DEF Stutters, Promise!slots
  <1> QED BY <1>1, <1>2, <1>3, <1>4, <1>5, <1>6, Zenon DEF PromiseStep, Promise!Next

-----------------------------------------------------------------------------
(* The invariant of the simulation.                                        *)

\* One slot has booted; what has booted works and keeps its tries; a device
\* that has never booted an update knows slot 0 only.
SomeProven == \E s \in Slots : status[s] = "proven"
ProvenWorks == \A s \in Slots : status[s] = "proven" =>
                   osOk[s] /\ Migrated(misc).slot[s].tries_remaining # 0
First == Fresh => active = 0 /\ status[0] = "proven" /\ status[1] = "empty"
Base == SomeProven /\ ProvenWorks /\ First

\* get_valid_slot leaves valid metadata.
Early == {"rom", "bricked", "aml_update_env", "get_valid_slot"}
Valid == misc.magic # "ab" /\ (Point \notin Early => misc.magic = "vab")

\* An env asks for a bootloader to be written, or for the copy that was started to be
\* checked.  The env may be in RAM, in flash, or on its way there.
Asking(e) == e.write_boot \/ e.reboot_status = "reboot_next"
Known(e) == e.reboot_status = "reboot_next" => e.expect_index # NoIndex
Within(e, f) == /\ e.write_boot => f.write_boot
                /\ e.reboot_status = "reboot_next" => f.reboot_status = "reboot_next"
EnvJob == pc = "writing" /\ job.op # "boot"
AnyAsk == Asking(env) \/ Asking(LoadedEnv) \/ (EnvJob /\ Asking(job.val))
ExpectKnown == Known(env) /\ Known(LoadedEnv) /\ (EnvJob => Known(job.val))

\* The rollback in progress has not yet changed the active slot.
Before == \/ Point \in {"reason", "check", "cancel", "flag", "active"}
          \/ Point = "copy" /\ rb.kind # "valid_slot"
Updating == {"check_boot1", "boot1_checked", "write_boot0", "update_gpt", "boot0_env", "env"}
Under == \/ Point \in Updating
         \/ Before /\ rb.kind \in {"update", "mismatch"}
         \/ Point = "copy" /\ rb.kind = "valid_slot"

\* Whatever asks for an update, or is left of one, concerns two slots of which one has
\* not booted, and the active one may be tried.
OneOnTrial == \E s \in Slots : status[s] # "proven"
Requested == AnyAsk \/ Under => OneOnTrial /\ status[active] # "empty" /\ ~Fresh

\* The other rollbacks leave a slot that has not booted.
Returning == Before /\ rb.kind \in {"valid_slot", "rescueparty"} =>
                 rb.to = Other(active) /\ status[active] # "proven"

\* From update_tries on nothing asks; before, what flash asks for is in RAM too.
Quiet == {"update_tries", "forfeit_reason", "forfeit", "backup_boot1", "boot1_backed_up",
          "tries_check", "bcb_cmd", "switch_bootmode", "storeboot", "check_ab", "kernel"}
Later == IF EnvJob THEN job.val ELSE LoadedEnv
Settled == Point \in Quiet => ~Asking(env) /\ ~Asking(Later)
Opening == {"aml_update_env", "get_valid_slot", "amlsecurecheck", "ab_update_rollback"}
Agreed == Point \in Opening => Within(LoadedEnv, env) /\ (EnvJob => Within(job.val, env))

\* U-Boot works on, and starts, the active slot.
Booting == {"switch_bootmode", "storeboot", "check_ab", "kernel"}
Loaded == Point \in Booting => status[active] # "empty"
Picked == Quiet \cup {"amlsecurecheck", "ab_update_rollback", "check_boot1", "boot1_checked",
                      "write_boot0", "update_gpt"}
Chosen == Point \in Picked => env.slot_suffixes = active

\* A system asks to be rescued only when it does not work.
Rescued == mode = "rescueparty" /\ Point \in Opening \cup {"rom"} => status[active] # "proven"

EnvInv == ExpectKnown /\ Requested /\ Settled /\ Agreed
PromiseInv == Base /\ Valid /\ EnvInv /\ Returning /\ Loaded /\ Chosen /\ Rescued

AllInv == IInv /\ PromiseInv

LEMMA TypeFacts ==
    ASSUME TypeOK
    PROVE  /\ misc \in BootloaderControl
           /\ active \in Slots /\ Other(active) \in Slots /\ Other(active) # active
           /\ Other(Other(active)) = active
           /\ \A s \in Slots : s # active => s = Other(active)
           /\ status \in [Slots -> Statuses]
           /\ osOk \in [Slots -> BOOLEAN]
           /\ env \in Env /\ LoadedEnv \in Env /\ job.val \in Env
           /\ flash \in [ok : BOOLEAN, val : Env]
           /\ \A s \in Slots : status[s] = "trial"
                => Migrated(misc).slot[s].tries_remaining # 0
  <1>1. misc \in BootloaderControl /\ osOk \in [Slots -> BOOLEAN] /\ env \in Env
        /\ flash \in [ok : BOOLEAN, val : Env] /\ job.val \in Env
    BY DEF TypeOK, Jobs
  <1>2. LoadedEnv \in Env
    BY LoadedEnvType
  <1>3. /\ active \in Slots /\ status \in [Slots -> Statuses]
        /\ \A s \in Slots : status[s] = "trial"
             => Migrated(misc).slot[s].tries_remaining # 0
    BY <1>1, Mapped DEF active, status
  <1>4. /\ Other(active) \in Slots /\ Other(active) # active
        /\ Other(Other(active)) = active
        /\ \A s \in Slots : s # active => s = Other(active)
    BY <1>3 DEF Slots, Other
  <1> QED BY <1>1, <1>2, <1>3, <1>4

\* Valid metadata is read as it is.
LEMMA ValidMeta ==
    ASSUME TypeOK, Valid, Point \notin Early
    PROVE  /\ misc.magic = "vab" /\ Migrated(misc) = misc /\ Validated(misc) = misc
           /\ active = get_active_slot(misc) /\ Fresh = misc.firstboot
           /\ \A s \in Slots : status[s] = "proven" <=> misc.slot[s].successful_boot
  <1>1. misc.magic = "vab" /\ misc \in BootloaderControl
    BY TypeFacts DEF Valid
  <1>2. Migrated(misc) = misc /\ ActiveIn(misc) = get_active_slot(misc)
    BY <1>1, MappedValid
  <1>3. Validated(misc) = misc
    BY <1>1 DEF Validated, boot_info_validate
  <1> QED BY <1>1, <1>2, <1>3, Mapped DEF active, status, Fresh

\* No slot that has booted is out of tries.
LEMMA SomeBootable ==
    ASSUME TypeOK, Valid, Base
    PROVE  /\ \E s \in Slots : Bootable(s)
           /\ \A s \in Slots : status[s] = "proven" => Bootable(s)
           /\ \A s \in Slots : Bootable(s) => status[s] # "empty"
  <1>1. \A s \in Slots : Bootable(s) <=> Migrated(misc).slot[s].tries_remaining # 0
    BY DEF Valid, Bootable, boot_info_validate_normalAB, slot_is_bootable
  <1>2. misc \in BootloaderControl
    BY TypeFacts
  <1>3. \A s \in Slots : Migrated(misc).slot[s].tries_remaining # 0
                         => status[s] = "trial" \/ status[s] = "proven"
    BY <1>2, Mapped DEF status
  <1> QED BY <1>1, <1>3 DEF Base, SomeProven, ProvenWorks

-----------------------------------------------------------------------------
(* What steps do to the metadata, to the env and to the point reached.     *)

\* The step is not seen, and leaves the facts about the slots as they are.
Unseen == /\ Stutters /\ Fresh' = Fresh /\ Base'
          /\ misc'.magic \in {misc.magic, "vab"}

LEMMA UnseenMeta ==
    ASSUME AllInv, osOk' = osOk,
           \/ misc' = misc
           \/ misc' = Migrated(misc)
           \/ /\ misc.magic = "vab"
              /\ \/ misc' = [misc EXCEPT !.roll_flag = TRUE]
                 \/ \E s \in Slots : misc' = [misc EXCEPT !.slot[s].uboot_status = 2]
           \/ misc' = boot_info_reset /\ Fresh
    PROVE  Unseen
  <1>0. misc \in BootloaderControl /\ Valid /\ Base /\ status \in [Slots -> Statuses]
        /\ active \in Slots
    BY TypeFacts DEF AllInv, IInv, PromiseInv
  <1>1. active' = ActiveIn(misc') /\ status' = StatusIn(misc') /\ Fresh' = Migrated(misc').firstboot
    BY DEF active, status, Fresh, ActiveIn, StatusIn, Migrated, SlotStatus
  <1>2. ASSUME misc'.magic \in {misc.magic, "vab"}, Stutters, Fresh' = Fresh,
               \A s \in Slots : status[s] = "proven"
                 => Migrated(misc').slot[s].tries_remaining # 0
        PROVE  Unseen
    <2>1. Migrated(misc)' = Migrated(misc')
      BY DEF Migrated
    <2>2. Base'
      BY <1>0, <1>2, <2>1 DEF Base, SomeProven, ProvenWorks, First, Stutters
    <2> QED BY <1>2, <2>2 DEF Unseen
  <1>3. \A s \in Slots : status[s] = "proven" => Migrated(misc).slot[s].tries_remaining # 0
    BY <1>0 DEF Base, ProvenWorks
  <1>4. CASE misc' = misc
    BY <1>1, <1>2, <1>3, <1>4 DEF Stutters, active, status, Fresh
  <1>5. CASE misc' = Migrated(misc)
    <2>1. Migrated(misc').slot = Migrated(misc).slot /\ misc'.magic = "vab"
          /\ Migrated(misc').firstboot = Migrated(misc).firstboot
      BY <1>0, <1>5, MigratedMeta DEF Valid
    <2>2. active' = active /\ status' = status /\ Fresh' = Fresh
      BY <1>0, <1>1, <1>5, <2>1, MappedMigrated DEF active, status, Fresh, Valid
    <2> QED BY <1>2, <1>3, <2>1, <2>2 DEF Stutters
  <1>6. CASE /\ misc.magic = "vab"
             /\ \/ misc' = [misc EXCEPT !.roll_flag = TRUE]
                \/ \E s \in Slots : misc' = [misc EXCEPT !.slot[s].uboot_status = 2]
    <2>1. /\ misc'.magic = "vab" /\ misc'.firstboot = misc.firstboot
          /\ ActiveIn(misc') = ActiveIn(misc) /\ StatusIn(misc') = StatusIn(misc)
          /\ \A s \in Slots : misc'.slot[s].tries_remaining = misc.slot[s].tries_remaining
      BY <1>0, <1>6, MappedNotes
    <2>2. Migrated(misc') = misc' /\ Migrated(misc) = misc
      BY <1>6, <2>1, MappedValid
    <2> QED BY <1>1, <1>2, <1>3, <2>1, <2>2 DEF Stutters, active, status, Fresh
  <1>7. CASE misc' = boot_info_reset /\ Fresh
    <2>1. active = 0 /\ status[0] = "proven" /\ status[1] = "empty"
      BY <1>0, <1>7 DEF Base, First
    <2>2. /\ misc'.magic = "vab" /\ Fresh' /\ active' = 0
          /\ status'[0] = "proven" /\ status'[1] = "empty"
          /\ Migrated(misc') = misc' /\ misc'.slot[0].tries_remaining # 0
      BY <1>1, <1>7, ResetMeta, MappedValid
    <2>3. status' \in [Slots -> Statuses]
      BY <1>1, <1>7, ResetType, Mapped
    <2>4. status' = status
      BY <1>0, <2>1, <2>2, <2>3 DEF Slots
    <2>5. \A s \in Slots : status[s] = "proven" => s = 0
      BY <2>1 DEF Slots
    <2>6. (Fresh' = Fresh) /\ misc'.magic \in {misc.magic, "vab"}
      BY <1>1, <1>7, <2>2, ResetMeta DEF Fresh
    <2> QED BY <1>2, <2>1, <2>2, <2>4, <2>5, <2>6 DEF Stutters
  <1> QED BY <1>4, <1>5, <1>6, <1>7

\* Three steps that are asked for: begin a copy, begin to save the env, go on.
LEMMA CopyBegun ==
    ASSUME NEW c, NEW img, NEW next, StartBootWrite(c, img, next)
    PROVE  flash' = flash /\ env' = env /\ ~EnvJob' /\ Point' = next
  <1>1. job'.op = "boot" /\ job'.then = next
    BY DEF StartBootWrite, Idle
  <1> QED BY <1>1 DEF StartBootWrite, EnvJob, Point

LEMMA EnvBegun ==
    ASSUME TypeOK, NEW e, NEW val, NEW next, StartEnvWrite(e, val, next)
    PROVE  /\ env' = e /\ EnvJob' /\ job'.val = val /\ Point' = next
           /\ LoadedEnv' \in {LoadedEnv, DefaultEnv}
  <1>1. job'.op = "env" /\ job'.then = next /\ job'.val = val
    BY DEF StartEnvWrite, Idle
  <1>2. flash'.val = flash.val /\ (flash'.ok => flash.ok)
    BY TypeFacts DEF StartEnvWrite
  <1>3. LoadedEnv' \in {LoadedEnv, DefaultEnv}
    BY <1>2 DEF LoadedEnv, DefaultEnv
  <1> QED BY <1>1, <1>3 DEF StartEnvWrite, EnvJob, Point

LEMMA EnvPartBegun ==
    ASSUME TypeOK, NEW e, NEW val, NEW next, update_env_part(e, val, next)
    PROVE  /\ env' = e /\ EnvJob' /\ Point' = next
           /\ LoadedEnv' \in {LoadedEnv, DefaultEnv}
           /\ \/ flash.ok /\ LoadedEnv = flash.val /\ job'.val = val
              \/ job'.val = e
  <1> DEFINE v == IF flash.ok THEN val ELSE e
  <1>1. StartEnvWrite(e, v, next)
    BY DEF update_env_part
  <1>2. \/ flash.ok /\ LoadedEnv = flash.val /\ v = val
        \/ v = e
    BY DEF LoadedEnv
  <1> HIDE DEF v
  <1> QED BY <1>1, <1>2, EnvBegun

LEMMA DefaultAsksNothing ==
    ~Asking(DefaultEnv) /\ Known(DefaultEnv) /\ \A e : Within(DefaultEnv, e)
  BY DEF Asking, Known, Within, DefaultEnv

\* What carries over a step that SlotPromise does not see.
LEMMA Kept ==
    ASSUME PromiseInv, Unseen
    PROVE  /\ (AnyAsk' \/ Under' => AnyAsk \/ Under) => Requested'
           /\ Point' \in Early \/ Point \notin Early \/ misc'.magic = "vab" => Valid'
           /\ rb' = rb /\ (Before' => Before) => Returning'
           /\ (Point' \in Booting => Point \in Booting) => Loaded'
           /\ env'.slot_suffixes = env.slot_suffixes /\ (Point' \in Picked => Point \in Picked)
                => Chosen'
           /\ mode' = mode /\ (Point' \in Opening \cup {"rom"} => Point \in Opening \cup {"rom"})
                => Rescued'
           /\ mode' # "rescueparty" => Rescued'
  BY DEF PromiseInv, EnvInv, Unseen, Stutters, Requested, OneOnTrial, Valid, Returning, Loaded,
         Chosen, Rescued

\* Nothing new is asked for, on the way to a point where it does not matter what is.
LEMMA EnvKept ==
    ASSUME PromiseInv, pc # "writing", env' = env, flash' = flash, ~EnvJob'
    PROVE  /\ AnyAsk' => AnyAsk
           /\ ExpectKnown'
           /\ Point' \in Quiet => (Point \in Quiet => Settled')
           /\ Point' \notin Quiet => Settled'
           /\ Point' \notin Opening => Agreed'
  <1>1. LoadedEnv' = LoadedEnv /\ ~EnvJob
    BY DEF LoadedEnv, EnvJob
  <1> QED BY <1>1 DEF PromiseInv, EnvInv, AnyAsk, ExpectKnown, Settled, Agreed, Later, Asking,
                      Known, Within

LEMMA Moves ==
    ASSUME PromiseInv, Unseen, pc # "writing", env' = env, flash' = flash, ~EnvJob', mode' = mode,
           Point \notin Early, Point' \notin Opening \cup {"rom"},
           Point' \in Quiet => Point \in Quiet,
           Under' => Under,
           Point' \in Booting => Point \in Booting,
           Point' \in Picked => Point \in Picked
    PROVE  Returning' => PromiseInv'
  <1>1. AnyAsk' \/ Under' => AnyAsk \/ Under
    BY EnvKept
  <1> QED BY <1>1, EnvKept, Kept DEF PromiseInv, EnvInv, Unseen

-----------------------------------------------------------------------------
(* The steps that are not seen and leave the env alone.                    *)

\* The way a rollback of each kind takes.
LEMMA Ways ==
    ASSUME IInv
    PROVE  /\ pc = "reason" => Following \in {"check", "cancel"}
           /\ pc = "check" => \/ rb.kind = "valid_slot" /\ Following = "flag"
                              \/ rb.kind = "update" /\ Following = "copy"
           /\ pc = "cancel" => Following \in {"copy", "flag"} /\ rb.kind # "valid_slot"
           /\ pc = "copy" => \/ rb.kind = "valid_slot" /\ Following = "env"
                             \/ rb.kind # "valid_slot" /\ Following \in {"cancel", "flag"}
           /\ pc = "flag" => Following = "active"
           /\ pc = "active" => \/ rb.kind = "valid_slot" /\ Following = "copy"
                               \/ rb.kind = "update" /\ Following = "boot0_env"
                               \/ rb.kind \in {"rescueparty", "mismatch"} /\ Following = "env"
  <1> USE DEF Following
  <1>1. pc # "writing" => PlanAt(pc)
    BY DEF IInv, PlanOK, Point
  <1>2. CASE pc = "reason"
    BY <1>1, <1>2 DEF PlanAt
  <1>3. CASE pc = "check"
    BY <1>1, <1>3 DEF PlanAt
  <1>4. CASE pc = "cancel"
    BY <1>1, <1>4 DEF PlanAt
  <1>5. CASE pc = "copy"
    BY <1>1, <1>5 DEF PlanAt, RollbackKinds
  <1>6. CASE pc = "flag"
    BY <1>1, <1>6 DEF PlanAt, RollbackKinds
  <1>7. CASE pc = "active"
    BY <1>1, <1>7 DEF PlanAt, RollbackKinds
  <1> QED BY <1>2, <1>3, <1>4, <1>5, <1>6, <1>7

LEMMA CommandPromise ==
    ASSUME AllInv, \/ check_bootloader \/ set_mergestatus_cancel
                   \/ write_bootloader_back \/ set_roll_flag
    PROVE  Unseen /\ PromiseInv'
  <1>1. PromiseInv /\ IInv /\ TypeOK
    BY DEF AllInv, IInv
  <1>2. /\ pc \in {"check", "cancel", "copy", "flag"} /\ Point = pc
        /\ rb' = rb /\ mode' = mode /\ osOk' = osOk
    BY DEF check_bootloader, set_mergestatus_cancel, write_bootloader_back, set_roll_flag,
           Point, ram, world
  <1>3. flash' = flash /\ env' = env /\ ~EnvJob' /\ Point' = Following
    <2>1. CASE pc' = Following /\ UNCHANGED <<flash, env>>
      <3>1. Following # "writing"
        BY <1>1, <1>2, Ways
      <3> QED BY <2>1, <3>1 DEF Point, EnvJob
    <2>2. CASE check_bootloader \/ write_bootloader_back
      BY <2>1, <2>2, CopyBegun DEF check_bootloader, write_bootloader_back
    <2>3. CASE set_mergestatus_cancel \/ set_roll_flag
      BY <2>1, <2>3 DEF set_mergestatus_cancel, set_roll_flag, boot_info_save, storage, ram
    <2> QED BY <2>2, <2>3
  <1>4. Unseen
    <2>1. CASE misc' = misc
      BY <1>2, <2>1, UnseenMeta
    <2>2. CASE set_roll_flag
      <3>1. misc.magic = "vab"
        BY <1>1, <1>2, ValidMeta DEF PromiseInv, Early
      <3>2. misc' = misc \/ misc' = [misc EXCEPT !.roll_flag = TRUE]
        BY <2>2 DEF set_roll_flag, boot_info_save
      <3> QED BY <1>2, <3>1, <3>2, UnseenMeta
    <2> QED BY <2>1, <2>2 DEF check_bootloader, set_mergestatus_cancel, write_bootloader_back,
                              storage
  <1>5. /\ Point \notin Early
        /\ Point' \in {"flag", "copy", "env", "cancel", "active"}
        /\ Point' = "env" => pc = "copy" /\ rb.kind = "valid_slot"
        /\ Point' = "copy" => rb.kind # "valid_slot"
        /\ pc = "copy" /\ rb.kind = "valid_slot" => Point' = "env"
    BY <1>1, <1>2, <1>3, Ways DEF Early
  <1>6. Before' => Before
    BY <1>2, <1>5 DEF Before
  <1>7. Under' => Under
    BY <1>2, <1>5, <1>6 DEF Under, Updating, Before
  <1>8. Returning'
    BY <1>1, <1>2, <1>4, <1>6, Kept
  <1>9. Point' \notin Opening \cup {"rom"} /\ Point' \notin Quiet /\ Point' \notin Booting
        /\ Point' \notin Picked
    BY <1>5 DEF Opening, Quiet, Booting, Picked
  <1> QED BY <1>1, <1>2, <1>3, <1>4, <1>5, <1>7, <1>8, <1>9, Moves

\* An update of boot0, the boots that follow it, and the end of preboot.
Onward == \/ check_boot1 \/ boot1_checked \/ write_boot0 \/ write_boot0_fails \/ update_gpt
          \/ backup_boot1 \/ boot1_backed_up \/ tries_check
          \/ switch_bootmode \/ storeboot \/ check_ab

LEMMA OnwardPoints ==
    ASSUME Onward
    PROVE  /\ Point = pc /\ pc # "writing" /\ flash' = flash /\ env' = env /\ ~EnvJob'
           /\ mode' = mode /\ osOk' = osOk
           /\ \/ rb' = rb
              \/ Point \in Updating /\ rb'.kind = "update"
           /\ \/ Point \in Updating \ {"env", "boot0_env"}
                 /\ Point' \in Updating \ {"env", "check_boot1"}
              \/ /\ Point \in Updating /\ Point' \in {"reason", "check"}
                 /\ rb' = RollbackFrom("update", CurrentSlot)
              \/ Point \in Quiet /\ Point' \in Quiet \ Booting
              \/ Point \in Quiet /\ Point' \in {"fastboot", "recovery", "reboot"}
              \/ Point \in Booting /\ Point' \in Booting
  <1> USE DEF Updating, Quiet, Booting
  <1>0. ASSUME pc' # "writing" PROVE ~EnvJob' /\ Point' = pc'
    BY <1>0 DEF EnvJob, Point
  <1>1. CASE check_boot1
    BY <1>0, <1>1, CopyBegun DEF check_boot1, Point, world
  <1>2. CASE boot1_checked
    BY <1>0, <1>2 DEF boot1_checked, boot_info_save, Point, ram, world
  <1>3. CASE write_boot0
    BY <1>3, CopyBegun DEF write_boot0, Point, world
  <1>4. CASE write_boot0_fails
    BY <1>0, <1>4 DEF write_boot0_fails, RollbackFrom, Point, storage, world
  <1>5. CASE update_gpt
    BY <1>0, <1>5 DEF update_gpt, RollbackFrom, Point, storage, world
  <1>6. CASE backup_boot1
    BY <1>0, <1>6, CopyBegun DEF backup_boot1, Point, world
  <1>7. CASE boot1_backed_up
    BY <1>0, <1>7 DEF boot1_backed_up, boot_info_save, Point, ram, world
  <1>8. CASE tries_check
    BY <1>0, <1>8 DEF tries_check, boot_info_save, Point, ram, world
  <1>9. CASE switch_bootmode
    <2>1. pc' \in {"fastboot", "recovery", "storeboot"}
      BY <1>9 DEF switch_bootmode
    <2> QED BY <1>0, <1>9, <2>1 DEF switch_bootmode, Point, storage, ram, world
  <1>10. CASE storeboot
    BY <1>0, <1>10 DEF storeboot, Point, storage, ram, world
  <1>11. CASE check_ab
    BY <1>0, <1>11 DEF check_ab, boot_info_save, Point, ram, world
  <1> QED BY <1>1, <1>2, <1>3, <1>4, <1>5, <1>6, <1>7, <1>8, <1>9, <1>10, <1>11 DEF Onward

LEMMA OnwardUnseen ==
    ASSUME AllInv, Onward
    PROVE  Unseen
  <1>1. PromiseInv /\ IInv /\ TypeOK /\ osOk' = osOk /\ Point \notin Early
    BY OnwardPoints DEF AllInv, IInv, Updating, Quiet, Booting, Early
  <1>2. misc.magic = "vab" /\ Validated(misc) = misc /\ Migrated(misc) = misc
        /\ Fresh = misc.firstboot
    BY <1>1, ValidMeta DEF PromiseInv
  <1>3. CASE misc' = misc
    BY <1>1, <1>3, UnseenMeta
  <1>4. CASE boot1_checked \/ boot1_backed_up
    <2>1. BackupSlot \in Slots /\ get_active_slot(misc) \in Slots
      BY ActiveSlotType, OtherSlot DEF BackupSlot
    <2>2. misc' = misc \/ \E s \in Slots : misc' = [misc EXCEPT !.slot[s].uboot_status = 2]
      BY <1>4, <2>1 DEF boot1_checked, boot1_backed_up, boot_info_save
    <2> QED BY <1>1, <1>2, <2>2, UnseenMeta
  <1>5. CASE tries_check
    <2>1. ~NoneBootable(misc)
      <3>1. \E s \in Slots : Bootable(s)
        BY <1>1, SomeBootable DEF PromiseInv
      <3>2. ~boot_info_validate_normalAB(misc)
        BY <1>2 DEF boot_info_validate_normalAB
      <3>3. \E s \in Slots : slot_is_bootable(misc, s)
        BY <1>2, <3>1, <3>2 DEF Bootable
      <3> QED BY <3>3 DEF NoneBootable
    <2>2. Exhausted(misc) => misc.firstboot
      BY <2>1 DEF Exhausted
    <2>3. \/ misc' = misc
          \/ misc' = boot_info_reset /\ Exhausted(misc)
      BY <1>5 DEF tries_check, boot_info_save
    <2> QED BY <1>1, <1>2, <2>2, <2>3, UnseenMeta
  <1>6. CASE check_ab
    BY <1>2, <1>3, <1>6 DEF check_ab, boot_info_save
  <1>7. CASE \/ check_boot1 \/ write_boot0 \/ write_boot0_fails \/ update_gpt \/ backup_boot1
             \/ switch_bootmode \/ storeboot
    BY <1>3, <1>7 DEF check_boot1, write_boot0, write_boot0_fails, update_gpt, backup_boot1,
                      switch_bootmode, storeboot, storage
  <1> QED BY <1>4, <1>5, <1>6, <1>7 DEF Onward

LEMMA OnwardPromise ==
    ASSUME AllInv, Onward
    PROVE  Unseen /\ PromiseInv'
  <1>1. Unseen /\ PromiseInv
    BY OnwardUnseen DEF AllInv
  <1>2. CASE \/ Point \in Updating \ {"env", "boot0_env"}
                /\ Point' \in Updating \ {"env", "check_boot1"}
             \/ Point \in Quiet /\ Point' \in Quiet \ Booting
             \/ Point \in Quiet /\ Point' \in {"fastboot", "recovery", "reboot"}
             \/ Point \in Booting /\ Point' \in Booting
    <2>1. /\ Point \notin Early /\ Point' \notin Opening \cup {"rom"}
          /\ Point' \in Quiet => Point \in Quiet
          /\ Point' \in Booting => Point \in Booting
          /\ Point' \in Picked => Point \in Picked
          /\ Point' \in Updating => Point \in Updating
          /\ Point' \notin {"reason", "check", "cancel", "flag", "active", "copy"}
      BY <1>2 DEF Updating, Quiet, Booting, Opening, Early, Picked
    <2>2. (Under' => Under) /\ Returning'
      BY <2>1 DEF Under, Before, Returning
    <2> QED BY <1>1, <2>1, <2>2, OnwardPoints, Moves
  <1>3. CASE /\ Point \in Updating /\ Point' \in {"reason", "check"}
             /\ rb' = RollbackFrom("update", CurrentSlot)
    <2>1. rb'.kind = "update"
      BY <1>3 DEF RollbackFrom
    <2>2. Under /\ Returning'
      BY <1>3, <2>1 DEF Under, Returning
    <2>3. /\ Point \notin Early /\ Point' \notin Opening \cup {"rom"}
          /\ Point' \notin Quiet /\ Point' \notin Booting /\ Point' \notin Picked
      BY <1>3 DEF Updating, Quiet, Booting, Opening, Early, Picked
    <2> QED BY <1>1, <2>2, <2>3, OnwardPoints, Moves
  <1> QED BY <1>1, <1>2, <1>3, OnwardPoints

-----------------------------------------------------------------------------
(* The steps that are not seen and write the env, or leave it.             *)

\* Changes of the env that do not change what it asks for.
LEMMA AsksSame ==
    ASSUME NEW e \in Env
    PROVE  /\ \A x : [e EXCEPT !.bootloaderIndex = x].write_boot = e.write_boot
                     /\ [e EXCEPT !.bootloaderIndex = x].reboot_status = e.reboot_status
                     /\ [e EXCEPT !.bootloaderIndex = x].expect_index = e.expect_index
                     /\ [e EXCEPT !.bootloaderIndex = x].slot_suffixes = e.slot_suffixes
           /\ \A x : [e EXCEPT !.insufficient_data = x].write_boot = e.write_boot
                     /\ [e EXCEPT !.insufficient_data = x].reboot_status = e.reboot_status
                     /\ [e EXCEPT !.insufficient_data = x].expect_index = e.expect_index
                     /\ [e EXCEPT !.insufficient_data = x].slot_suffixes = e.slot_suffixes
           /\ \A x : [e EXCEPT !.slot_suffixes = x].write_boot = e.write_boot
                     /\ [e EXCEPT !.slot_suffixes = x].reboot_status = e.reboot_status
                     /\ [e EXCEPT !.slot_suffixes = x].expect_index = e.expect_index
                     /\ [e EXCEPT !.slot_suffixes = x].slot_suffixes = x
  BY DEF Env

\* The step begins to save val while the env in RAM is e.
Saving(e, val) == /\ env' = e /\ EnvJob' /\ job'.val = val
                  /\ LoadedEnv' \in {LoadedEnv, DefaultEnv}

\* Nothing but what was asked for is asked for after it.
LEMMA Saved ==
    ASSUME PromiseInv, NEW e, NEW val, Saving(e, val), Known(e), Known(val)
    PROVE  /\ ExpectKnown'
           /\ (Asking(e) => AnyAsk \/ Under) /\ (Asking(val) => AnyAsk \/ Under)
                => (AnyAsk' => AnyAsk \/ Under)
           /\ ~Asking(e) /\ ~Asking(val) => Settled'
           /\ Point' \notin Quiet => Settled'
           /\ Within(val, e) /\ Within(LoadedEnv, e) => Agreed'
           /\ Point' \notin Opening => Agreed'
  <1>1. ~Asking(DefaultEnv) /\ Known(DefaultEnv) /\ Within(DefaultEnv, e)
    BY DefaultAsksNothing
  <1>2. Known(LoadedEnv)
    BY DEF PromiseInv, EnvInv, ExpectKnown
  <1>3. ExpectKnown'
    BY <1>1, <1>2 DEF Saving, ExpectKnown, Known
  <1>4. AnyAsk' => Asking(e) \/ Asking(val) \/ Asking(LoadedEnv)
    BY <1>1 DEF Saving, AnyAsk, Asking
  <1>5. ~Asking(e) /\ ~Asking(val) => Settled'
    BY DEF Saving, Settled, Asking, Later
  <1>6. Within(val, e) /\ Within(LoadedEnv, e) => Agreed'
    BY <1>1 DEF Saving, Agreed, Within
  <1> QED BY <1>3, <1>4, <1>5, <1>6 DEF Settled, Agreed, AnyAsk

\* boot0_env and RollbackEnv ask for the copy that was written to be checked.
LEMMA AskPromise ==
    ASSUME AllInv, boot0_env \/ RollbackEnv
    PROVE  Unseen /\ PromiseInv'
  <1>1. PromiseInv /\ TypeOK /\ rb.dst \in {0, 1} /\ env \in Env
    BY TypeFacts DEF AllInv, IInv, PlanOK
  <1>2. /\ pc \in {"boot0_env", "env"} /\ Point = pc
        /\ misc' = misc /\ osOk' = osOk /\ mode' = mode /\ rb' = rb
    BY DEF boot0_env, RollbackEnv, Point, world
  <1>3. Unseen
    BY <1>2, UnseenMeta
  <1>4. PICK e : /\ StartEnvWrite(e, e, "reboot") /\ e.expect_index # NoIndex
    <2>1. CASE boot0_env
      <3>1. StartEnvWrite(Boot0Written(env), Boot0Written(env), "reboot")
        BY <2>1 DEF boot0_env, saveenv
      <3>2. Boot0Written(env).expect_index = 1
        BY <1>1 DEF Boot0Written, Env
      <3> QED BY <3>1, <3>2 DEF NoIndex
    <2>2. CASE RollbackEnv
      <3> DEFINE e == [env EXCEPT !.update_env = TRUE, !.reboot_status = "reboot_next",
                                  !.expect_index = rb.dst]
      <3>1. StartEnvWrite(e, e, "reboot")
        BY <2>2 DEF RollbackEnv, saveenv
      <3>2. e.expect_index = rb.dst
        BY <1>1 DEF Env
      <3> HIDE DEF e
      <3>3. e.expect_index # NoIndex
        BY <1>1, <3>2 DEF NoIndex
      <3> QED BY <3>1, <3>3
    <2> QED BY <2>1, <2>2
  <1>5. Saving(e, e) /\ Known(e) /\ Point' = "reboot"
    BY <1>1, <1>4, EnvBegun DEF Saving, Known
  <1>6. Under /\ ~Before' /\ ~Under' /\ Point' \notin Quiet /\ Point' \notin Opening
        /\ Point' \notin Booting /\ Point' \notin Picked /\ Point' # "rom"
        /\ Point \notin Early
    BY <1>2, <1>5
       DEF Under, Before, Updating, Quiet, Opening, Booting, Picked, Early
  <1>7. ExpectKnown' /\ Settled' /\ Agreed' /\ Requested' /\ Returning'
    BY <1>1, <1>2, <1>3, <1>5, <1>6, Saved, Kept DEF Returning
  <1>8. Valid' /\ Loaded' /\ Chosen' /\ Rescued'
    BY <1>1, <1>2, <1>3, <1>6, Kept DEF Loaded, Chosen, Rescued
  <1> QED BY <1>3, <1>7, <1>8 DEF PromiseInv, EnvInv, Unseen

\* rollback_reason saves the env as it is.
LEMMA ReasonPromise ==
    ASSUME AllInv, rollback_reason
    PROVE  Unseen /\ PromiseInv'
  <1>1. PromiseInv /\ IInv /\ TypeOK
    BY DEF AllInv, IInv
  <1>2. /\ pc = "reason" /\ Point = pc
        /\ misc' = misc /\ osOk' = osOk /\ mode' = mode /\ rb' = rb
        /\ Following \in {"check", "cancel"}
    BY <1>1, Ways DEF rollback_reason, Point, world
  <1>3. Unseen
    BY <1>2, UnseenMeta
  <1>4. ASSUME Point' = Following
        PROVE  /\ Before /\ (Under' => Under) /\ Returning'
               /\ Point' \notin Quiet /\ Point' \notin Opening \cup {"rom"}
               /\ Point' \notin Booting /\ Point' \notin Picked /\ Point \notin Early
    <2>1. Before
      BY <1>2 DEF Before
    <2>2. Under' => Under
      BY <1>2, <1>4, <2>1 DEF Under, Updating
    <2>3. Returning'
      BY <1>1, <1>2, <1>3, <2>1, Kept
    <2> QED BY <1>2, <1>4, <2>1, <2>2, <2>3 DEF Quiet, Opening, Booting, Picked, Early
  <1>5. CASE update_env_part(env, flash.val, Following)
    <2>1. /\ env' = env /\ EnvJob' /\ Point' = Following
          /\ LoadedEnv' \in {LoadedEnv, DefaultEnv} /\ job'.val \in {LoadedEnv, env}
      BY <1>1, <1>5, EnvPartBegun
    <2> DEFINE val == job'.val
    <2>2. Saving(env, val) /\ Known(env) /\ Known(val)
          /\ (Asking(env) => AnyAsk) /\ (Asking(val) => AnyAsk)
      BY <1>1, <2>1 DEF Saving, PromiseInv, EnvInv, ExpectKnown, AnyAsk
    <2> HIDE DEF val
    <2>3. ExpectKnown' /\ Settled' /\ Agreed' /\ (AnyAsk' => AnyAsk \/ Under)
      BY <1>1, <1>4, <2>1, <2>2, Saved
    <2>4. Requested' /\ Returning'
      BY <1>1, <1>3, <1>4, <2>1, <2>3, Kept
    <2>5. Valid' /\ Loaded' /\ Chosen' /\ Rescued'
      BY <1>1, <1>3, <1>4, <2>1, Kept DEF Loaded, Chosen, Rescued
    <2> QED BY <1>3, <2>3, <2>4, <2>5 DEF PromiseInv, EnvInv, Unseen
  <1>6. CASE pc' = Following /\ UNCHANGED <<flash, env, job>>
    <2>1. Point' = Following /\ ~EnvJob' /\ flash' = flash /\ env' = env
      BY <1>2, <1>6 DEF Point, EnvJob
    <2> QED BY <1>1, <1>2, <1>3, <1>4, <2>1, Moves
  <1> QED BY <1>5, <1>6 DEF rollback_reason, SaveUnread

\* A reboot, or a loss of power, leaves only what is in flash.
LEMMA OffPromise ==
    ASSUME PromiseInv, Unseen, pc' = "rom", env' = DefaultEnv,
           LoadedEnv' = LoadedEnv \/ (~Asking(LoadedEnv') /\ Known(LoadedEnv')),
           mode' = "rescueparty" => status[active] # "proven"
    PROVE  PromiseInv'
  <1>1. Point' = "rom" /\ ~EnvJob'
    BY DEF Point, EnvJob
  <1>2. ~Under' /\ ~Before' /\ Point' \notin Quiet /\ Point' \notin Opening
        /\ Point' \notin Booting /\ Point' \notin Picked /\ Point' \in Early
    BY <1>1 DEF Under, Before, Updating, Quiet, Opening, Booting, Picked, Early
  <1>3. ~Asking(DefaultEnv) /\ Known(DefaultEnv)
    BY DefaultAsksNothing
  <1>4. (AnyAsk' => AnyAsk) /\ ExpectKnown'
    BY <1>1, <1>3 DEF AnyAsk, Asking, ExpectKnown, Known, PromiseInv, EnvInv
  <1>5. Requested' /\ Valid' /\ Returning' /\ Loaded' /\ Chosen' /\ Settled' /\ Agreed'
    BY <1>2, <1>4, Kept DEF Returning, Loaded, Chosen, Settled, Agreed
  <1>6. Rescued'
    BY DEF Rescued, Unseen, Stutters
  <1> QED BY <1>4, <1>5, <1>6 DEF PromiseInv, EnvInv, Unseen

LEMMA LeavePromise ==
    ASSUME AllInv, ~LateCrash, \/ Reboot \/ AndroidFails \/ UserReboot \/ RescueParty
                              \/ Attended \/ PowerCut
    PROVE  Unseen /\ PromiseInv'
  <1>1. PromiseInv /\ TypeOK /\ LoadedEnv \in Env
    BY TypeFacts DEF AllInv, IInv
  <1>2. /\ misc' = misc /\ osOk' = osOk /\ pc' = "rom" /\ env' = DefaultEnv
        /\ mode' = "rescueparty" => RescueParty
    BY DEF Reboot, AndroidFails, UserReboot, RescueParty, Attended, PowerCut, Leave, storage,
           world
  <1>3. Unseen
    BY <1>2, UnseenMeta
  <1>4. LoadedEnv' = LoadedEnv \/ (~Asking(LoadedEnv') /\ Known(LoadedEnv'))
    <2>1. CASE flash' = flash
      BY <2>1 DEF LoadedEnv
    <2>2. CASE AndroidFails /\ flash' = [ok |-> TRUE,
                                         val |-> [LoadedEnv EXCEPT !.insufficient_data = TRUE]]
      <3>1. LoadedEnv' = [LoadedEnv EXCEPT !.insufficient_data = TRUE]
        BY <2>2 DEF LoadedEnv
      <3>2. pc = "kernel" /\ Point = "kernel" /\ ~EnvJob
        BY <2>2 DEF AndroidFails, Point, EnvJob
      <3>3. ~Asking(LoadedEnv) /\ Known(LoadedEnv)
        BY <1>1, <3>2 DEF PromiseInv, EnvInv, Settled, Quiet, Later, ExpectKnown
      <3>4. LoadedEnv'.write_boot = LoadedEnv.write_boot
            /\ LoadedEnv'.reboot_status = LoadedEnv.reboot_status
            /\ LoadedEnv'.expect_index = LoadedEnv.expect_index
        BY <1>1, <3>1, AsksSame
      <3> QED BY <3>3, <3>4 DEF Asking, Known
    <2> QED BY <2>1, <2>2 DEF Reboot, AndroidFails, UserReboot, RescueParty, Attended, PowerCut,
                              storage
  <1>5. RescueParty => status[active] # "proven"
    <2> SUFFICES ASSUME RescueParty PROVE status[active] # "proven"
      OBVIOUS
    <2>1. ~osOk[env.slot_suffixes] /\ Point = "kernel"
      BY DEF RescueParty, Running, Point
    <2>2. env.slot_suffixes = active
      BY <1>1, <2>1 DEF PromiseInv, Chosen, Picked, Quiet
    <2> QED BY <1>1, <2>1, <2>2, TypeFacts DEF PromiseInv, Base, ProvenWorks
  <1> QED BY <1>1, <1>2, <1>3, <1>4, <1>5, OffPromise

-----------------------------------------------------------------------------
(* Power-on to the checks before the tries are counted.                    *)

LEMMA PowerOnPromise ==
    ASSUME AllInv, BootRom \/ BootRomFails \/ aml_update_env
    PROVE  Unseen /\ PromiseInv'
  <1>1. PromiseInv /\ TypeOK /\ env \in Env
    BY TypeFacts DEF AllInv, IInv
  <1>2. /\ misc' = misc /\ osOk' = osOk /\ mode' = mode /\ rb' = rb
        /\ pc \in {"rom", "aml_update_env"} /\ Point = pc
    BY DEF BootRom, BootRomFails, aml_update_env, Point, storage, ram, world
  <1>3. Unseen
    BY <1>2, UnseenMeta
  <1>4. ASSUME Point' \in {"bricked", "aml_update_env", "get_valid_slot"}
        PROVE  /\ ~Under' /\ ~Before' /\ Point' \notin Quiet /\ Point' \notin Booting
               /\ Point' \notin Picked
               /\ Valid' /\ Returning' /\ Loaded' /\ Chosen' /\ Settled' /\ Rescued'
    <2>1. ~Under' /\ ~Before' /\ Point' \notin Quiet /\ Point' \notin Booting
          /\ Point' \notin Picked /\ Point' \in Early
      BY <1>4 DEF Under, Before, Updating, Quiet, Booting, Picked, Early
    <2>2. Point \in Opening \cup {"rom"}
      BY <1>2 DEF Opening
    <2> QED BY <1>1, <1>2, <1>3, <2>1, <2>2, Kept DEF Returning, Loaded, Chosen, Settled
  <1>5. CASE BootRom
    <2>1. env' = LoadedEnv /\ flash' = flash /\ Point' = "aml_update_env" /\ ~EnvJob'
      BY <1>5 DEF BootRom, Point, EnvJob, storage
    <2>2. LoadedEnv' = LoadedEnv
      BY <2>1 DEF LoadedEnv
    <2>3. (AnyAsk' => AnyAsk) /\ ExpectKnown' /\ Agreed'
      BY <1>1, <2>1, <2>2
         DEF AnyAsk, Asking, ExpectKnown, Known, Agreed, Within, PromiseInv, EnvInv
    <2> QED BY <1>1, <1>3, <1>4, <2>1, <2>3, Kept DEF PromiseInv, EnvInv, Unseen
  <1>6. CASE BootRomFails
    <2>1. flash' = flash /\ env' = env /\ Point' = "bricked" /\ ~EnvJob' /\ pc # "writing"
      BY <1>6 DEF BootRomFails, Point, EnvJob, storage, ram
    <2>2. Point' \notin Opening
      BY <2>1 DEF Opening
    <2> QED BY <1>1, <1>3, <1>4, <2>1, <2>2, EnvKept, Kept DEF PromiseInv, EnvInv, Unseen
  <1>7. CASE aml_update_env /\ pc' = "get_valid_slot"
    <2>1. flash' = flash /\ env' = env /\ Point' = "get_valid_slot" /\ ~EnvJob' /\ pc # "writing"
      BY <1>7 DEF aml_update_env, saveenv, StartEnvWrite, Point, EnvJob
    <2>2. Agreed'
      <3>1. LoadedEnv' = LoadedEnv
        BY <2>1 DEF LoadedEnv
      <3>2. Point \in Opening
        BY <1>7 DEF aml_update_env, Opening, Point
      <3> QED BY <1>1, <2>1, <3>1, <3>2 DEF PromiseInv, EnvInv, Agreed, Within
    <2> QED BY <1>1, <1>3, <1>4, <2>1, <2>2, EnvKept, Kept DEF PromiseInv, EnvInv, Unseen
  <1>8. CASE aml_update_env /\ pc' # "get_valid_slot"
    <2> DEFINE e == defenv_reserv(env)
    <2>1. StartEnvWrite(e, e, "get_valid_slot") /\ ~env.write_boot /\ Point \in Opening
      BY <1>8 DEF aml_update_env, saveenv, Opening, Point
    <2>2. e.reboot_status = env.reboot_status /\ e.expect_index = env.expect_index
          /\ e.write_boot = FALSE
      BY <1>1 DEF defenv_reserv, DefaultEnv
    <2> HIDE DEF e
    <2>3. Saving(e, e) /\ Point' = "get_valid_slot"
      BY <1>1, <2>1, EnvBegun DEF Saving
    <2>4. Known(e) /\ (Asking(e) => AnyAsk)
      BY <1>1, <2>2 DEF PromiseInv, EnvInv, ExpectKnown, Known, Asking, AnyAsk
    <2>5. Within(e, e) /\ Within(LoadedEnv, e)
      BY <1>1, <2>1, <2>2 DEF PromiseInv, EnvInv, Agreed, Within
    <2>6. (AnyAsk' => AnyAsk \/ Under) /\ ExpectKnown' /\ Agreed'
      BY <1>1, <2>3, <2>4, <2>5, Saved
    <2> QED BY <1>1, <1>3, <1>4, <2>3, <2>6, Kept DEF PromiseInv, EnvInv, Unseen
  <1> QED BY <1>5, <1>6, <1>7, <1>8

LEMMA GetValidSlotPromise ==
    ASSUME AllInv, GetValidSlotBoots \/ GetValidSlotRollsBack \/ GetValidSlotResets
    PROVE  Unseen /\ PromiseInv'
  <1>1. PromiseInv /\ TypeOK /\ env \in Env /\ active \in Slots
    BY TypeFacts DEF AllInv, IInv
  <1>2. /\ \E s \in Slots : Bootable(s)
        /\ \A s \in Slots : status[s] = "proven" => Bootable(s)
        /\ \A s \in Slots : Bootable(s) => status[s] # "empty"
    BY <1>1, SomeBootable DEF PromiseInv
  <1>3. GetValidSlotBoots \/ GetValidSlotRollsBack
    BY <1>2 DEF GetValidSlotResets
  <1>4. /\ pc \in {"get_valid_slot", "bcb_cmd"} /\ Point = pc
        /\ misc' = Migrated(misc) /\ osOk' = osOk /\ mode' = mode
        /\ flash' = flash /\ job' = job
        /\ pc' \in {"reason", "amlsecurecheck", "switch_bootmode"}
        /\ ~EnvJob' /\ Point' = pc' /\ ~EnvJob
    BY <1>3 DEF GetValidSlotBoots, GetValidSlotRollsBack, boot_info_save, AfterGetValidSlot, Point,
                EnvJob, world
  <1>5. Unseen
    BY <1>4, UnseenMeta
  <1>6. misc'.magic = "vab" /\ LoadedEnv' = LoadedEnv /\ active' = active /\ status' = status
    BY <1>1, <1>4, <1>5, MigratedMeta DEF PromiseInv, Valid, LoadedEnv, Unseen, Stutters
  <1>7. CASE GetValidSlotBoots
    <2>1. Bootable(active) /\ env' = [env EXCEPT !.slot_suffixes = active] /\ rb' = rb
          /\ pc' = AfterGetValidSlot
      BY <1>7 DEF GetValidSlotBoots, active, ActiveIn, boot_info_save
    <2>2. /\ env'.write_boot = env.write_boot /\ env'.reboot_status = env.reboot_status
          /\ env'.expect_index = env.expect_index /\ env'.slot_suffixes = active
      BY <1>1, <2>1, AsksSame
    <2>3. \/ pc = "get_valid_slot" /\ Point' = "amlsecurecheck"
          \/ pc = "bcb_cmd" /\ Point' = "switch_bootmode"
      BY <1>4, <2>1 DEF AfterGetValidSlot
    <2>4. ~Under' /\ ~Before'
      BY <2>3 DEF Under, Before, Updating
    <2>5. (AnyAsk' => AnyAsk) /\ ExpectKnown'
      BY <1>1, <1>4, <1>6, <2>2 DEF AnyAsk, Asking, ExpectKnown, Known, PromiseInv, EnvInv
    <2>6. Settled'
      <3>1. Point' \in Quiet => Point \in Quiet
        BY <1>4, <2>3 DEF Quiet
      <3> QED BY <1>1, <1>4, <1>6, <2>2, <3>1 DEF Settled, Later, Asking, PromiseInv, EnvInv
    <2>7. Agreed'
      <3>1. Point' \in Opening => Point \in Opening
        BY <1>4, <2>3 DEF Opening
      <3> QED BY <1>1, <1>4, <1>6, <2>2, <3>1 DEF Agreed, Within, PromiseInv, EnvInv
    <2>8. Loaded' /\ Chosen'
      BY <1>1, <1>2, <1>6, <2>1, <2>2 DEF Loaded, Chosen
    <2>9. Rescued'
      <3>1. Point' \in Opening \cup {"rom"} => Point \in Opening \cup {"rom"}
        BY <1>4, <2>3 DEF Opening
      <3> QED BY <1>1, <1>4, <1>5, <3>1, Kept
    <2>10. Valid' /\ Requested' /\ Returning'
      BY <1>1, <1>5, <1>6, <2>4, <2>5, Kept DEF Returning
    <2> QED BY <1>5, <2>5, <2>6, <2>7, <2>8, <2>9, <2>10 DEF PromiseInv, EnvInv, Unseen
  <1>8. CASE GetValidSlotRollsBack
    <2>1. ~Bootable(active) /\ rb' = RollbackFrom("valid_slot", active) /\ env' = env
          /\ Point' = "reason"
      BY <1>4, <1>8 DEF GetValidSlotRollsBack, active, ActiveIn, boot_info_save
    <2>2. rb'.kind = "valid_slot" /\ rb'.to = Other(active)
      BY <2>1 DEF RollbackFrom
    <2>3. status[active] # "proven"
      BY <1>1, <1>2, <2>1
    <2>4. Returning'
      BY <1>6, <2>2, <2>3 DEF Returning
    <2>5. ~Under' /\ Point' \notin Quiet /\ Point' \notin Booting /\ Point' \notin Picked
          /\ Point' \notin Opening \cup {"rom"} /\ pc # "writing"
      BY <1>4, <2>1, <2>2 DEF Under, Before, Updating, Quiet, Booting, Picked, Opening
    <2>6. ExpectKnown' /\ (AnyAsk' => AnyAsk) /\ Settled' /\ Agreed'
      BY <1>1, <1>4, <2>1, <2>5, EnvKept
    <2>7. Valid' /\ Requested' /\ Loaded' /\ Chosen' /\ Rescued'
      BY <1>1, <1>5, <1>6, <2>5, <2>6, Kept DEF Loaded, Chosen, Rescued
    <2> QED BY <1>5, <2>4, <2>6, <2>7 DEF PromiseInv, EnvInv, Unseen
  <1> QED BY <1>3, <1>7, <1>8

\* amlsecurecheck saves which copy was started, and that asks for nothing.
LEMMA SecureCheckPromise ==
    ASSUME AllInv, amlsecurecheck
    PROVE  Unseen /\ PromiseInv'
  <1> DEFINE e == [env EXCEPT !.bootloaderIndex = idx]
             v == [flash.val EXCEPT !.bootloaderIndex = idx]
  <1>1. PromiseInv /\ TypeOK /\ env \in Env /\ flash.val \in Env
    BY TypeFacts DEF AllInv, IInv
  <1>2. /\ pc = "amlsecurecheck" /\ Point = pc /\ ~EnvJob
        /\ misc' = misc /\ osOk' = osOk /\ mode' = mode /\ rb' = rb
    BY DEF amlsecurecheck, Point, EnvJob, world
  <1>3. Unseen
    BY <1>2, UnseenMeta
  <1>4. /\ e.write_boot = env.write_boot /\ e.reboot_status = env.reboot_status
        /\ e.expect_index = env.expect_index /\ e.slot_suffixes = env.slot_suffixes
        /\ v.write_boot = flash.val.write_boot
        /\ v.reboot_status = flash.val.reboot_status
        /\ v.expect_index = flash.val.expect_index
    BY <1>1, AsksSame
  <1>5. \/ env' = e /\ pc' = "ab_update_rollback" /\ UNCHANGED <<flash, job>>
        \/ update_env_part(e, v, "ab_update_rollback")
    BY DEF amlsecurecheck
  <1> HIDE DEF e, v
  <1>6. Known(env) /\ Known(LoadedEnv) /\ Within(LoadedEnv, env)
    BY <1>1, <1>2 DEF PromiseInv, EnvInv, ExpectKnown, Agreed, Opening
  <1>7. Known(e) /\ Within(LoadedEnv, e) /\ (Asking(e) => AnyAsk)
    BY <1>4, <1>6 DEF Known, Within, Asking, AnyAsk
  <1>8. ASSUME Point' = "ab_update_rollback", env' = e
        PROVE  /\ ~Under' /\ Valid' /\ Returning' /\ Loaded' /\ Chosen' /\ Rescued' /\ Settled'
    <2>1. ~Under' /\ ~Before' /\ Point' \notin Quiet /\ Point' \notin Booting
      BY <1>8 DEF Under, Before, Updating, Quiet, Booting
    <2>2. Point \in Picked /\ Point \in Opening /\ Point \notin Early
      BY <1>2 DEF Opening, Picked, Early
    <2> QED BY <1>1, <1>2, <1>3, <1>4, <1>8, <2>1, <2>2, Kept
            DEF Returning, Loaded, Settled
  <1>9. CASE env' = e /\ pc' = "ab_update_rollback" /\ UNCHANGED <<flash, job>>
    <2>1. Point' = "ab_update_rollback" /\ LoadedEnv' = LoadedEnv /\ ~EnvJob'
      BY <1>9 DEF Point, LoadedEnv, EnvJob
    <2>2. (AnyAsk' => AnyAsk) /\ ExpectKnown' /\ Agreed'
      BY <1>6, <1>7, <1>9, <2>1 DEF AnyAsk, Asking, ExpectKnown, Known, Agreed, Within
    <2> QED BY <1>1, <1>3, <1>8, <1>9, <2>1, <2>2, Kept DEF PromiseInv, EnvInv, Unseen
  <1>10. CASE update_env_part(e, v, "ab_update_rollback")
    <2> DEFINE val == job'.val
    <2>1. /\ env' = e /\ EnvJob' /\ Point' = "ab_update_rollback"
          /\ LoadedEnv' \in {LoadedEnv, DefaultEnv}
          /\ \/ flash.ok /\ LoadedEnv = flash.val /\ val = v
             \/ val = e
      BY <1>1, <1>10, EnvPartBegun
    <2> HIDE DEF val
    <2>2. Saving(e, val)
      BY <2>1 DEF Saving, val
    <2>3. Known(val) /\ Within(val, e) /\ (Asking(val) => AnyAsk)
      <3>1. CASE val = e
        BY <1>7, <3>1 DEF Within
      <3>2. CASE LoadedEnv = flash.val /\ val = v
        BY <1>4, <1>6, <1>7, <3>2 DEF Known, Within, Asking, AnyAsk
      <3> QED BY <2>1, <3>1, <3>2
    <2>4. (AnyAsk' => AnyAsk \/ Under) /\ ExpectKnown' /\ Agreed'
      BY <1>1, <1>7, <2>2, <2>3, Saved
    <2> QED BY <1>1, <1>3, <1>8, <2>1, <2>4, Kept DEF PromiseInv, EnvInv, Unseen
  <1> QED BY <1>5, <1>9, <1>10

\* ab_update_rollback carries out what is asked for, or finds that nothing is.
LEMMA UpdateOrRollbackPromise ==
    ASSUME AllInv, ab_update_rollback
    PROVE  Unseen /\ PromiseInv'
  <1>1. PromiseInv /\ TypeOK /\ env \in Env /\ flash.val \in Env /\ active \in Slots
    BY TypeFacts DEF AllInv, IInv
  <1>2. /\ pc = "ab_update_rollback" /\ Point = pc /\ ~EnvJob /\ pc # "writing"
        /\ misc' = misc /\ osOk' = osOk /\ mode' = mode
    BY DEF ab_update_rollback, Point, EnvJob, world
  <1>3. Unseen /\ Point \notin Early /\ Point \in Opening /\ Point \in Picked
    BY <1>2, UnseenMeta DEF Early, Opening, Picked
  <1>4. Known(env) /\ Known(LoadedEnv) /\ Within(LoadedEnv, env)
    BY <1>1, <1>2, <1>3 DEF PromiseInv, EnvInv, ExpectKnown, Agreed
  <1>5. env.slot_suffixes = active /\ CurrentSlot = active
    BY <1>1, <1>3 DEF PromiseInv, Chosen, CurrentSlot
  <1>6. ASSUME Point' \in {"check_boot1", "reason", "copy", "update_tries", "reboot"}
        PROVE  /\ Point' \notin Opening \cup {"rom"} /\ Point' \notin Booting
               /\ Agreed' /\ Valid' /\ Loaded' /\ Rescued'
               /\ env'.slot_suffixes = env.slot_suffixes => Chosen'
    <2>1. Point' \notin Opening \cup {"rom"} /\ Point' \notin Booting
      BY <1>6 DEF Opening, Booting
    <2> QED BY <1>1, <1>3, <2>1, Kept DEF Agreed, Loaded, Rescued
  <1>7. ASSUME env' = env, flash' = flash, pc' \in {"check_boot1", "reason", "copy", "update_tries"},
               Returning', Settled', Under' => AnyAsk \/ Under
        PROVE  PromiseInv'
    <2>1. Point' = pc' /\ ~EnvJob'
      BY <1>7 DEF Point, EnvJob
    <2>2. ExpectKnown' /\ (AnyAsk' => AnyAsk)
      BY <1>1, <1>2, <1>7, <2>1, EnvKept
    <2> QED BY <1>1, <1>3, <1>6, <1>7, <2>1, <2>2, Kept DEF PromiseInv, EnvInv, Unseen
  <1>8. CASE env.write_boot
    <2>1. pc' = "check_boot1" /\ env' = env /\ flash' = flash /\ AnyAsk /\ Point' = pc'
      BY <1>8 DEF ab_update_rollback, AnyAsk, Asking, Point
    <2>2. Returning' /\ Settled'
      BY <2>1 DEF Returning, Before, Settled, Quiet
    <2> QED BY <1>3, <1>7, <2>1, <2>2
  <1>9. CASE ~env.write_boot /\ mode = "rescueparty"
    <2>1. /\ pc' = "reason" /\ env' = env /\ flash' = flash /\ Point' = pc'
          /\ rb'.kind = "rescueparty" /\ rb'.to = Other(active)
      BY <1>5, <1>9 DEF ab_update_rollback, RollbackFrom, Point
    <2>2. status[active] # "proven"
      BY <1>1, <1>3, <1>9 DEF PromiseInv, Rescued
    <2>3. Returning' /\ Settled' /\ ~Under'
      BY <1>3, <2>1, <2>2 DEF Returning, Unseen, Stutters, Settled, Quiet, Under, Updating, Before
    <2> QED BY <1>3, <1>7, <2>1, <2>3
  <1>10. CASE ~env.write_boot /\ mode # "rescueparty" /\ Mismatch /\ pc' = "copy"
    <2>1. env' = env /\ flash' = flash /\ Point' = pc' /\ rb' = RollbackOnMismatch /\ AnyAsk
      BY <1>10 DEF ab_update_rollback, update_env_part, StartEnvWrite, Point, Mismatch, AnyAsk,
                   Asking
    <2>2. rb'.kind = "mismatch"
      BY <1>1, <2>1, MismatchPlan
    <2>3. Returning' /\ Settled'
      BY <1>10, <2>1, <2>2 DEF Returning, Settled, Quiet
    <2> QED BY <1>3, <1>7, <1>10, <2>1, <2>3
  <1>11. CASE /\ ~env.write_boot /\ pc' = "update_tries" /\ UNCHANGED <<flash, env>>
              /\ env.expect_index = NoIndex \/ env.reboot_status # "reboot_next"
    <2>1. ~Asking(env) /\ ~Asking(LoadedEnv)
      BY <1>4, <1>11 DEF Asking, Known, Within
    <2>2. LoadedEnv' = LoadedEnv /\ ~EnvJob' /\ Point' = "update_tries"
      BY <1>11 DEF LoadedEnv, EnvJob, Point
    <2>3. Settled'
      BY <1>11, <2>1, <2>2 DEF Settled, Later, Asking
    <2>4. Returning' /\ ~Under'
      BY <2>2 DEF Returning, Before, Under, Updating
    <2> QED BY <1>3, <1>7, <1>11, <2>3, <2>4
  <1> DEFINE e == [env EXCEPT !.reboot_status = "reboot_init"]
             v == [flash.val EXCEPT !.reboot_status = "reboot_init"]
  <1>12. ASSUME ~env.write_boot, NEW next \in AfterExpectedCopy, update_env_part(e, v, next)
         PROVE  PromiseInv'
    <2>0. next \in {"update_tries", "reboot"}
      BY DEF AfterExpectedCopy
    <2>1. /\ e.write_boot = env.write_boot /\ e.reboot_status = "reboot_init"
          /\ e.slot_suffixes = env.slot_suffixes
          /\ v.write_boot = flash.val.write_boot /\ v.reboot_status = "reboot_init"
      BY <1>1 DEF Env
    <2> DEFINE val == job'.val
    <2>2. /\ env' = e /\ EnvJob' /\ Point' = next
          /\ LoadedEnv' \in {LoadedEnv, DefaultEnv}
          /\ \/ flash.ok /\ LoadedEnv = flash.val /\ val = v
             \/ val = e
      BY <1>1, <1>12, EnvPartBegun
    <2> HIDE DEF e, v, val
    <2>3. Saving(e, val)
      BY <2>2 DEF Saving, val
    <2>4. ~Asking(e) /\ ~Asking(val) /\ Known(e) /\ Known(val)
      <3>1. ~Asking(e) /\ Known(e)
        BY <1>12, <2>1 DEF Asking, Known
      <3>2. CASE LoadedEnv = flash.val /\ val = v
        BY <1>4, <1>12, <2>1, <3>2 DEF Asking, Known, Within
      <3> QED BY <2>2, <3>1, <3>2
    <2>5. ExpectKnown' /\ Settled' /\ (AnyAsk' => AnyAsk \/ Under)
      BY <1>1, <2>3, <2>4, Saved
    <2>6. Returning' /\ ~Under'
      BY <2>0, <2>2 DEF Returning, Before, Under, Updating
    <2> QED BY <1>1, <1>3, <1>6, <2>0, <2>1, <2>2, <2>5, <2>6, Kept DEF PromiseInv, EnvInv, Unseen
  <1>13. \/ env.write_boot
         \/ ~env.write_boot /\ mode = "rescueparty"
         \/ ~env.write_boot /\ mode # "rescueparty" /\ Mismatch /\ pc' = "copy"
         \/ ~env.write_boot /\ \E next \in AfterExpectedCopy : update_env_part(e, v, next)
         \/ /\ ~env.write_boot /\ pc' = "update_tries" /\ UNCHANGED <<flash, env>>
            /\ env.expect_index = NoIndex \/ env.reboot_status # "reboot_next"
    BY DEF ab_update_rollback
  <1> QED BY <1>3, <1>8, <1>9, <1>10, <1>11, <1>12, <1>13

\* The reason for a failed first boot is noted.
LEMMA ForfeitReasonPromise ==
    ASSUME AllInv, forfeit_reason
    PROVE  Unseen /\ PromiseInv'
  <1> DEFINE e == IF NoSpace THEN [env EXCEPT !.insufficient_data = FALSE] ELSE env
             v == IF NoSpace THEN [flash.val EXCEPT !.insufficient_data = FALSE] ELSE flash.val
             val == job'.val
  <1>1. PromiseInv /\ TypeOK /\ env \in Env /\ flash.val \in Env
    BY TypeFacts DEF AllInv, IInv
  <1>2. /\ pc = "forfeit_reason" /\ Point = pc /\ ~EnvJob
        /\ misc' = misc /\ osOk' = osOk /\ mode' = mode /\ rb' = rb
    BY DEF forfeit_reason, Point, EnvJob, world
  <1>3. Unseen
    BY <1>2, UnseenMeta
  <1>4. /\ e.write_boot = env.write_boot /\ e.reboot_status = env.reboot_status
        /\ e.expect_index = env.expect_index /\ e.slot_suffixes = env.slot_suffixes
        /\ v.write_boot = flash.val.write_boot
        /\ v.reboot_status = flash.val.reboot_status
        /\ v.expect_index = flash.val.expect_index
    BY <1>1, AsksSame
  <1>5. \/ update_env_part(e, v, "forfeit")
        \/ pc' = "forfeit" /\ UNCHANGED <<flash, copies, env, job>>
    BY DEF forfeit_reason, SaveUnread
  <1>6. ~Asking(env) /\ ~Asking(LoadedEnv) /\ Known(env) /\ Known(LoadedEnv)
    BY <1>1, <1>2 DEF PromiseInv, EnvInv, Settled, Later, Quiet, ExpectKnown
  <1>7. ASSUME Point' = "forfeit"
        PROVE  /\ ~Under' /\ ~Before' /\ Point' \notin Opening \cup {"rom"} /\ Point' \notin Booting
               /\ Point \in Picked /\ Point \notin Early
    BY <1>2, <1>7 DEF Under, Before, Updating, Opening, Booting, Picked, Quiet, Early
  <1>8. CASE update_env_part(e, v, "forfeit")
    <2>1. /\ env' = e /\ EnvJob' /\ Point' = "forfeit"
          /\ LoadedEnv' \in {LoadedEnv, DefaultEnv}
          /\ \/ flash.ok /\ LoadedEnv = flash.val /\ val = v
             \/ val = e
      BY <1>1, <1>8, EnvPartBegun
    <2> HIDE DEF e, v, val
    <2>2. ~Asking(e) /\ ~Asking(val) /\ Known(e) /\ Known(val) /\ Saving(e, val)
      <3>1. ~Asking(e) /\ Known(e)
        BY <1>4, <1>6 DEF Asking, Known
      <3>2. ASSUME LoadedEnv = flash.val, val = v PROVE ~Asking(val) /\ Known(val)
        BY <1>4, <1>6, <3>2 DEF Asking, Known
      <3>3. Saving(e, val)
        BY <2>1 DEF Saving, val
      <3> QED BY <2>1, <3>1, <3>2, <3>3
    <2>3. ExpectKnown' /\ Settled' /\ (AnyAsk' => AnyAsk \/ Under)
      BY <1>1, <2>2, Saved
    <2> QED BY <1>1, <1>2, <1>3, <1>4, <1>7, <2>1, <2>3, Kept
            DEF PromiseInv, EnvInv, Unseen, Returning, Loaded, Rescued, Agreed
  <1>9. CASE pc' = "forfeit" /\ UNCHANGED <<flash, copies, env, job>>
    <2>1. Point' = "forfeit" /\ ~EnvJob' /\ flash' = flash /\ env' = env
      BY <1>9 DEF Point, EnvJob
    <2>2. Returning' /\ (Under' => Under) /\ Point \in Quiet
      BY <1>2, <1>7, <2>1 DEF Returning, Quiet
    <2> QED BY <1>1, <1>2, <1>3, <1>7, <2>1, <2>2, Moves
  <1> QED BY <1>5, <1>8, <1>9

\* What was on its way to flash is there.
LEMMA FinishWritePromise ==
    ASSUME AllInv, FinishWrite
    PROVE  Unseen /\ PromiseInv'
  <1>1. PromiseInv /\ IInv
    BY DEF AllInv
  <1>2. /\ pc = "writing" /\ pc' = job.then /\ job.then # "writing"
        /\ misc' = misc /\ osOk' = osOk /\ mode' = mode /\ rb' = rb /\ env' = env
    BY <1>1 DEF FinishWrite, IInv, PlanOK, world
  <1>3. Unseen /\ Point' = Point /\ ~EnvJob'
    BY <1>2, UnseenMeta DEF Point, EnvJob
  <1>4. LoadedEnv' = Later
    <2>1. CASE job.op = "boot"
      <3>1. flash' = flash /\ Later = LoadedEnv
        BY <2>1 DEF FinishWrite, Later, EnvJob
      <3> QED BY <3>1 DEF LoadedEnv
    <2>2. CASE job.op # "boot"
      <3>1. flash' = [ok |-> TRUE, val |-> job.val] /\ Later = job.val
        BY <1>2, <2>2 DEF FinishWrite, Later, EnvJob
      <3>2. flash'.ok /\ flash'.val = job.val
        BY <3>1
      <3> QED BY <3>1, <3>2 DEF LoadedEnv
    <2> QED BY <2>1, <2>2
  <1>5. (AnyAsk' => AnyAsk) /\ ExpectKnown' /\ Settled' /\ Agreed'
    BY <1>1, <1>2, <1>3, <1>4
       DEF PromiseInv, EnvInv, AnyAsk, ExpectKnown, Settled, Agreed, Later, Asking, Known, Within
  <1>6. (Before' => Before) /\ (Under' => Under)
    BY <1>2, <1>3 DEF Before, Under
  <1>7. Valid'
    <2>1. Point' \in Early \/ Point \notin Early
      BY <1>3
    <2> QED BY <1>1, <1>3, <2>1, Kept
  <1> QED BY <1>1, <1>2, <1>3, <1>5, <1>6, <1>7, Kept DEF PromiseInv, EnvInv, Unseen

-----------------------------------------------------------------------------
(* The steps that SlotPromise sees.                                        *)

\* set_active_slot goes back, or makes an update active that was left half done.
LEMMA SetActivePromise ==
    ASSUME AllInv, set_active_slot
    PROVE  PromiseStep /\ PromiseInv'
  <1> DEFINE s == rb.to
             o == Other(active)
  <1>1. /\ PromiseInv /\ IInv /\ TypeOK /\ misc \in BootloaderControl /\ env \in Env
        /\ active \in Slots /\ o \in Slots /\ o # active
        /\ \A t \in Slots : t # active => t = o
        /\ status \in [Slots -> Statuses]
        /\ \A t \in Slots : status[t] = "trial" => Migrated(misc).slot[t].tries_remaining # 0
    BY TypeFacts DEF AllInv, IInv
  <1>2. /\ pc = "active" /\ Point = pc /\ pc' = Following
        /\ osOk' = osOk /\ mode' = mode /\ rb' = rb /\ flash' = flash
        /\ rb.kind \in RollbackKinds
    BY <1>1 DEF set_active_slot, boot_info_save, Point, world, IInv, PlanOK, PlanAt
  <1>3. /\ Point' \in {"copy", "boot0_env", "env"} /\ Point' = pc' /\ ~EnvJob' /\ ~EnvJob
        /\ Point' = "copy" <=> rb.kind = "valid_slot"
    BY <1>1, <1>2, Ways DEF Point, EnvJob
  <1>4. misc.magic = "vab" /\ Migrated(misc) = misc /\ Validated(misc) = misc
        /\ Point \notin Early
    BY <1>1, <1>2, ValidMeta DEF Early, PromiseInv
  <1>5. /\ Before /\ ~Before' /\ Point' \notin Quiet /\ Point' \notin Opening \cup {"rom"}
        /\ Point' \notin Booting /\ Point' \notin Picked
    BY <1>2, <1>3 DEF Before, Quiet, Opening, Booting, Picked
  <1>6. OneOnTrial /\ ~Fresh /\ (s \in Slots => s = o \/ status[active] # "empty")
        /\ (rb.kind \in {"valid_slot", "rescueparty"} => s = o /\ status[active] # "proven")
        /\ (s \notin Slots => status[active] # "empty")
    <2>1. CASE rb.kind \in {"valid_slot", "rescueparty"}
      <3>1. s = o /\ status[active] # "proven"
        BY <1>1, <1>5, <2>1 DEF PromiseInv, Returning
      <3>2. ~Fresh
        BY <1>1, <3>1 DEF PromiseInv, Base, First
      <3> QED BY <1>1, <3>1, <3>2 DEF OneOnTrial
    <2>2. CASE rb.kind \in {"update", "mismatch"}
      <3>1. Under
        BY <1>5, <2>2 DEF Under
      <3> QED BY <1>1, <2>2, <3>1 DEF PromiseInv, EnvInv, Requested
    <2> QED BY <1>2, <2>1, <2>2 DEF RollbackKinds
  <1>7. /\ PromiseStep /\ Base' /\ OneOnTrial' /\ status'[active'] # "empty" /\ ~Fresh'
        /\ misc'.magic = "vab"
    <2>1. CASE s \notin Slots
      <3>1. misc' = misc
        BY <2>1 DEF set_active_slot
      <3>2. Unseen
        BY <1>2, <3>1, UnseenMeta
      <3> QED BY <1>4, <1>6, <2>1, <3>1, <3>2 DEF Unseen, Stutters, PromiseStep, OneOnTrial
    <2>2. CASE s \in Slots
      <3>1. misc' = boot_info_set_active_slot(misc, s)
        BY <1>4, <2>2 DEF set_active_slot, boot_info_save
      <3> DEFINE new == boot_info_set_active_slot(misc, s)
      <3>2. /\ new \in BootloaderControl /\ new.magic = "vab"
            /\ new.firstboot = misc.firstboot
            /\ ActiveIn(new) = s
            /\ StatusIn(new)[s] = IF StatusIn(misc)[s] = "proven" THEN "proven" ELSE "trial"
            /\ new.slot[s].tries_remaining # 0
            /\ \A t \in Slots : t # s =>
                 /\ StatusIn(new)[t] = StatusIn(misc)[t]
                 /\ new.slot[t].tries_remaining = misc.slot[t].tries_remaining
        BY <1>1, <1>4, <2>2, MappedSetActive
      <3>3. misc' = new
        BY <3>1
      <3> HIDE DEF new
      <3>4. /\ active' = ActiveIn(misc') /\ status' = StatusIn(misc')
            /\ Fresh' = Migrated(misc').firstboot
            /\ Migrated(misc)' = Migrated(misc')
        BY DEF active, status, Fresh, ActiveIn, StatusIn, Migrated, SlotStatus
      <3>5. /\ active' = s /\ misc'.magic = "vab" /\ ~Fresh'
            /\ Migrated(misc)' = misc'
            /\ status'[s] = IF status[s] = "proven" THEN "proven" ELSE "trial"
            /\ misc'.slot[s].tries_remaining # 0
            /\ \A t \in Slots : t # s =>
                 /\ status'[t] = status[t]
                 /\ misc'.slot[t].tries_remaining = misc.slot[t].tries_remaining
            /\ status' \in [Slots -> Statuses]
        BY <1>4, <1>6, <3>2, <3>3, <3>4, MappedValid, Mapped DEF active, status, Fresh
      <3>6. \A t \in Slots : status'[t] = "proven" <=> status[t] = "proven"
        BY <2>2, <3>5
      <3>7. Base'
        <4>1. SomeProven' /\ OneOnTrial'
          BY <1>1, <1>6, <3>6 DEF PromiseInv, Base, SomeProven, OneOnTrial
        <4>2. ProvenWorks'
          BY <1>1, <1>2, <1>4, <3>5, <3>6 DEF PromiseInv, Base, ProvenWorks
        <4> QED BY <3>5, <4>1, <4>2 DEF Base, First
      <3>8. OneOnTrial' /\ status'[active'] # "empty"
        BY <1>6, <2>2, <3>5, <3>6 DEF OneOnTrial
      <3>9. PromiseStep
        <4>1. CASE s = active
          <5>1. status[s] \in {"proven", "trial"}
            BY <1>1, <1>6, <2>2, <4>1 DEF Statuses
          <5>2. status' = status
            BY <1>1, <3>5, <4>1, <5>1
          <5> QED BY <3>5, <4>1, <5>2 DEF PromiseStep, Stutters
        <4>2. CASE s = o /\ status[active] # "proven"
          <5>1. status[s] = "proven"
            BY <1>1, <4>2 DEF PromiseInv, Base, SomeProven
          <5>2. status' = status
            BY <1>1, <3>5, <4>2, <5>1
          <5> QED BY <3>5, <4>2, <5>1, <5>2 DEF PromiseStep, GoesBack
        <4>3. CASE s = o /\ status[active] = "proven"
          <5>1. status[s] # "proven"
            BY <1>1, <1>6, <4>3 DEF OneOnTrial
          <5>2. status' = [status EXCEPT ![o] = "trial"]
            BY <1>1, <3>5, <4>3, <5>1
          <5> QED BY <3>5, <4>3, <5>2 DEF PromiseStep, Activates
        <4> QED BY <1>1, <2>2, <4>1, <4>2, <4>3
      <3> QED BY <3>5, <3>7, <3>8, <3>9
    <2> QED BY <2>1, <2>2
  <1>8. Requested' /\ Valid'
    BY <1>7 DEF Requested, Valid
  <1>9. ExpectKnown'
    <2>1. CASE env' = env
      BY <1>1, <1>2, <1>3, <2>1 DEF PromiseInv, EnvInv, ExpectKnown, Known, LoadedEnv
    <2>2. CASE env' = [env EXCEPT !.slot_suffixes = s]
      <3>1. env \in Env
        BY <1>1
      <3> HIDE DEF s
      <3>2. env'.reboot_status = env.reboot_status /\ env'.expect_index = env.expect_index
        BY <2>2, <3>1, AsksSame
      <3>3. LoadedEnv' = LoadedEnv
        BY <1>2 DEF LoadedEnv
      <3> QED BY <1>1, <1>3, <3>2, <3>3 DEF PromiseInv, EnvInv, ExpectKnown, Known
    <2> QED BY <2>1, <2>2 DEF set_active_slot
  <1> QED BY <1>5, <1>7, <1>8, <1>9
          DEF PromiseInv, EnvInv, Settled, Agreed, Returning, Loaded, Chosen, Rescued

\* update_tries and forfeit use up the last try of a slot on trial, or are not seen.
LEMMA TriesPromise ==
    ASSUME AllInv, update_tries \/ forfeit
    PROVE  PromiseStep /\ PromiseInv'
  <1>1. /\ PromiseInv /\ IInv /\ TypeOK /\ misc \in BootloaderControl
        /\ active \in Slots /\ status \in [Slots -> Statuses]
    BY TypeFacts DEF AllInv, IInv
  <1>2. /\ pc \in {"update_tries", "forfeit"} /\ Point = pc /\ ~EnvJob
        /\ pc' \in {"forfeit_reason", "backup_boot1", "reboot"} /\ Point' = pc' /\ ~EnvJob'
        /\ osOk' = osOk /\ mode' = mode /\ rb' = rb /\ flash' = flash /\ env' = env
    BY DEF update_tries, forfeit, boot_info_save, Point, EnvJob, ram, world
  <1>3. misc.magic = "vab" /\ Migrated(misc) = misc /\ Point \notin Early
    BY <1>1, <1>2, ValidMeta DEF Early, PromiseInv
  <1>4. PICK mid : /\ (\E m : mid = CountTry(misc, m)) \/ mid = ForfeitTries(misc)
                   /\ misc' = mid \/ \E m : misc' = CountFirstBoot(mid, m)
    <2>1. CASE update_tries
      BY <2>1 DEF update_tries, boot_info_save
    <2>2. CASE forfeit
      BY <2>2 DEF forfeit, boot_info_save
    <2> QED BY <2>1, <2>2
  <1>5. /\ mid \in BootloaderControl /\ mid.magic = "vab"
        /\ mid.firstboot = misc.firstboot
        /\ ActiveIn(mid) = active
        /\ \A t \in Slots : t # active \/ status[t] = "proven" =>
             /\ StatusIn(mid)[t] = status[t]
             /\ mid.slot[t].tries_remaining = misc.slot[t].tries_remaining
        /\ \/ StatusIn(mid)[active] = status[active]
           \/ status[active] = "trial" /\ StatusIn(mid)[active] = "empty"
    BY <1>1, <1>3, <1>4, MappedCharged DEF active, status
  <1>6. /\ misc'.magic = "vab" /\ misc'.firstboot = mid.firstboot
        /\ ActiveIn(misc') = ActiveIn(mid) /\ StatusIn(misc') = StatusIn(mid)
        /\ \A s \in Slots : misc'.slot[s].tries_remaining = mid.slot[s].tries_remaining
    BY <1>4, <1>5, MappedNotes
  <1>7. /\ active' = ActiveIn(misc') /\ status' = StatusIn(misc')
        /\ Fresh' = Migrated(misc').firstboot
        /\ Migrated(misc)' = Migrated(misc')
    BY DEF active, status, Fresh, ActiveIn, StatusIn, Migrated, SlotStatus
  <1>8. /\ active' = active /\ Fresh' = Fresh /\ Migrated(misc)' = misc'
        /\ \A t \in Slots : t # active \/ status[t] = "proven" =>
             /\ status'[t] = status[t]
             /\ misc'.slot[t].tries_remaining = misc.slot[t].tries_remaining
        /\ \/ status'[active] = status[active]
           \/ status[active] = "trial" /\ status'[active] = "empty"
        /\ status' \in [Slots -> Statuses]
    BY <1>3, <1>5, <1>6, <1>7, MappedValid, Mapped DEF Fresh
  <1>9. \A t \in Slots : status'[t] = "proven" <=> status[t] = "proven"
    BY <1>1, <1>8
  <1>10. PromiseStep
    <2>1. CASE status'[active] = status[active]
      <3>1. status' = status
        BY <1>1, <1>8, <2>1
      <3> QED BY <1>8, <3>1 DEF PromiseStep, Stutters
    <2>2. CASE status[active] = "trial" /\ status'[active] = "empty"
      <3>1. status' = [status EXCEPT ![active] = "empty"]
        BY <1>1, <1>8, <2>2
      <3> QED BY <1>8, <2>2, <3>1 DEF PromiseStep, Exhausts
    <2> QED BY <1>8, <2>1, <2>2
  <1>11. Base'
    <2>1. SomeProven' /\ ProvenWorks'
      BY <1>1, <1>2, <1>3, <1>8, <1>9 DEF PromiseInv, Base, SomeProven, ProvenWorks
    <2>2. First'
      <3>1. Fresh => active = 0 /\ status[0] = "proven" /\ status[1] = "empty"
        BY <1>1 DEF PromiseInv, Base, First
      <3> QED BY <1>8, <3>1 DEF First, Slots
    <2> QED BY <2>1, <2>2 DEF Base
  <1>12. LoadedEnv' = LoadedEnv /\ ~Asking(env) /\ ~Asking(LoadedEnv) /\ ExpectKnown'
    BY <1>1, <1>2 DEF PromiseInv, EnvInv, Settled, Quiet, Later, LoadedEnv, ExpectKnown, Known
  <1>13. ~AnyAsk' /\ Settled'
    BY <1>2, <1>12 DEF AnyAsk, Asking, Settled, Later
  <1>14. /\ ~Under' /\ ~Before' /\ Point' \notin Opening \cup {"rom"} /\ Point' \notin Booting
         /\ Point \in Picked
    BY <1>2 DEF Under, Before, Updating, Opening, Booting, Picked, Quiet
  <1>15. Chosen' /\ Valid'
    BY <1>1, <1>2, <1>6, <1>8, <1>14 DEF PromiseInv, Chosen, Valid
  <1> QED BY <1>10, <1>11, <1>12, <1>13, <1>14, <1>15
          DEF PromiseInv, EnvInv, Requested, Agreed, Returning, Loaded, Rescued

\* A system that runs was started from the active slot, and nothing is asked for.
LEMMA AtKernel ==
    ASSUME AllInv, pc = "kernel"
    PROVE  /\ misc \in BootloaderControl /\ misc.magic = "vab" /\ Migrated(misc) = misc
           /\ active \in Slots /\ Other(active) \in Slots /\ Other(active) # active
           /\ \A t \in Slots : t # active => t = Other(active)
           /\ Running = active /\ active = get_active_slot(misc)
           /\ active = ActiveIn(misc) /\ status = StatusIn(misc) /\ Fresh = misc.firstboot
           /\ status \in [Slots -> Statuses]
           /\ \A t \in Slots : status[t] = "proven" <=> misc.slot[t].successful_boot
           /\ status[active] # "empty" /\ misc.slot[active].tries_remaining # 0
           /\ osOk \in [Slots -> BOOLEAN]
           /\ Base /\ Point = "kernel" /\ ~EnvJob /\ ~Under /\ ~Before
           /\ ~Asking(env) /\ ~Asking(LoadedEnv) /\ ExpectKnown /\ LoadedEnv \in Env
  <1>1. PromiseInv /\ TypeOK
    BY DEF AllInv, IInv
  <1>2. Point = "kernel" /\ ~EnvJob
    BY DEF Point, EnvJob
  <1>3. /\ Point \notin Early /\ Point \in Quiet /\ Point \in Booting /\ Point \in Picked
        /\ ~Before /\ ~Under
    BY <1>2 DEF Early, Quiet, Booting, Picked, Before, Under, Updating
  <1>4. /\ misc.magic = "vab" /\ Migrated(misc) = misc
        /\ active = get_active_slot(misc) /\ Fresh = misc.firstboot
        /\ \A t \in Slots : status[t] = "proven" <=> misc.slot[t].successful_boot
    BY <1>1, <1>3, ValidMeta DEF PromiseInv
  <1>5. /\ status[active] # "empty" /\ Running = active /\ Base /\ ExpectKnown
        /\ ~Asking(env) /\ ~Asking(LoadedEnv)
    BY <1>1, <1>2, <1>3 DEF PromiseInv, EnvInv, Loaded, Chosen, Running, Settled, Later
  <1>6. /\ misc \in BootloaderControl
        /\ active \in Slots /\ Other(active) \in Slots /\ Other(active) # active
        /\ \A t \in Slots : t # active => t = Other(active)
        /\ status \in [Slots -> Statuses] /\ osOk \in [Slots -> BOOLEAN] /\ LoadedEnv \in Env
        /\ \A t \in Slots : status[t] = "trial" => misc.slot[t].tries_remaining # 0
    BY <1>1, <1>4, TypeFacts
  <1>7. misc.slot[active].tries_remaining # 0
    <2>1. status[active] \in {"proven", "trial"}
      BY <1>5, <1>6 DEF Statuses
    <2> QED BY <1>4, <1>5, <1>6, <2>1 DEF Base, ProvenWorks
  <1> QED BY <1>2, <1>3, <1>4, <1>5, <1>6, <1>7 DEF active, status

LEMMA NextMeta ==
    /\ active' = ActiveIn(misc') /\ status' = StatusIn(misc')
    /\ Fresh' = Migrated(misc').firstboot
    /\ Migrated(misc)' = Migrated(misc')
  BY DEF active, status, Fresh, ActiveIn, StatusIn, Migrated, SlotStatus

\* What a running system that goes on running leaves as it was.
LEMMA RunsOn ==
    ASSUME AllInv, pc = "kernel", pc' = pc, flash' = flash, UNCHANGED ram,
           Base', misc'.magic = "vab", active' = active, status'[active] # "empty"
    PROVE  PromiseInv'
  <1>1. /\ Point = "kernel" /\ ~EnvJob /\ ~Under /\ ~Before
        /\ ~Asking(env) /\ ~Asking(LoadedEnv) /\ ExpectKnown /\ Running = active
    BY AtKernel
  <1>2. Point' = "kernel" /\ env' = env /\ LoadedEnv' = LoadedEnv /\ ~EnvJob' /\ rb' = rb
    BY DEF Point, LoadedEnv, EnvJob, ram
  <1>3. ~AnyAsk' /\ ~Under' /\ ~Before' /\ ExpectKnown' /\ Settled'
    BY <1>1, <1>2 DEF AnyAsk, Asking, Under, Updating, Before, ExpectKnown, Known, Settled, Later
  <1>4. Point' \notin Opening \cup {"rom"}
    BY <1>2 DEF Opening
  <1>5. Chosen'
    BY <1>1, <1>2 DEF Chosen, Running
  <1> QED BY <1>3, <1>4, <1>5
          DEF PromiseInv, EnvInv, Requested, Agreed, Returning, Loaded, Rescued, Valid

\* The HAL marks the slot that runs: the slot is proven, or was already.
LEMMA MarkPromise ==
    ASSUME AllInv, MarkBootSuccessful
    PROVE  PromiseStep /\ PromiseInv'
  <1>1. pc = "kernel" /\ pc' = pc /\ flash' = flash /\ UNCHANGED ram /\ osOk' = osOk
        /\ osOk[Running]
    BY DEF MarkBootSuccessful
  <1>2. /\ misc \in BootloaderControl /\ misc.magic = "vab"
        /\ active \in Slots /\ Running = active
        /\ active = ActiveIn(misc) /\ status = StatusIn(misc)
        /\ status \in [Slots -> Statuses]
        /\ misc.slot[active].tries_remaining # 0 /\ Base /\ Migrated(misc) = misc
    BY <1>1, AtKernel
  <1> DEFINE a == active
             new == [misc EXCEPT !.slot[a] = Proved(misc.slot[a]),
                                 !.merge_flag = FALSE, !.firstboot = FALSE]
  <1>3. misc' = new
    BY <1>2 DEF MarkBootSuccessful
  <1>4. a \in Slots
    BY <1>2
  <1> HIDE DEF a
  <1>5. /\ new \in BootloaderControl /\ new.magic = "vab" /\ ~new.firstboot
        /\ new.slot[a].successful_boot
        /\ \A t \in Slots : t # a => new.slot[t] = misc.slot[t]
        /\ \A t \in Slots : /\ new.slot[t].priority = misc.slot[t].priority
                            /\ new.slot[t].tries_remaining = misc.slot[t].tries_remaining
    BY <1>2, <1>4, MarkChanged
  <1> HIDE DEF new
  <1>6. a = ActiveIn(misc)
    BY <1>2 DEF a
  <1>7. ActiveIn(new) = a /\ StatusIn(new) = [StatusIn(misc) EXCEPT ![a] = "proven"]
        /\ Migrated(new) = new
    BY <1>2, <1>4, <1>5, <1>6, MappedMarked, MappedValid
  <1>8. /\ active' = active /\ ~Fresh' /\ Migrated(misc)' = misc'
        /\ status' = [status EXCEPT ![active] = "proven"] /\ misc'.magic = "vab"
        /\ \A t \in Slots : misc'.slot[t].tries_remaining = misc.slot[t].tries_remaining
    BY <1>2, <1>3, <1>5, <1>7, NextMeta DEF a
  <1>9. /\ status'[active] = "proven"
        /\ \A t \in Slots : t # active => status'[t] = status[t]
    BY <1>2, <1>8
  <1>10. PromiseStep
    <2>1. CASE status[active] = "proven"
      <3>1. status' = status
        BY <1>2, <1>8, <2>1
      <3> QED BY <1>8, <3>1 DEF PromiseStep, Stutters
    <2>2. CASE status[active] # "proven"
      BY <1>8, <2>2 DEF PromiseStep, Proves
    <2> QED BY <2>1, <2>2
  <1> HIDE DEF a
  <1>11. Base'
    <2>1. osOk'[active] /\ \A t \in Slots : osOk'[t] = osOk[t]
      BY <1>1, <1>2
    <2>2. ASSUME NEW t \in Slots, status'[t] = "proven"
          PROVE  osOk'[t] /\ misc'.slot[t].tries_remaining # 0
      <3>1. CASE t = active
        BY <1>1, <1>2, <1>9, <2>1, <3>1, <1>5, <1>3 DEF a
      <3>2. CASE t # active
        <4>1. status[t] = "proven"
          BY <1>9, <2>2, <3>2
        <4>2. misc'.slot[t].tries_remaining = misc.slot[t].tries_remaining
          BY <1>3, <1>5
        <4> QED BY <1>2, <2>1, <4>1, <4>2 DEF Base, ProvenWorks
      <3> QED BY <3>1, <3>2
    <2>3. ProvenWorks'
      BY <1>8, <2>2 DEF ProvenWorks
    <2> QED BY <1>2, <1>8, <1>9, <2>3 DEF Base, SomeProven, First
  <1>12. misc'.magic = "vab" /\ status'[active] # "empty"
    BY <1>3, <1>5, <1>9
  <1> QED BY <1>1, <1>8, <1>10, <1>11, <1>12, RunsOn

\* The update engine gives up what the other slot held.
LEMMA BeginUpdatePromise ==
    ASSUME AllInv, BeginUpdate
    PROVE  PromiseStep /\ PromiseInv'
  <1>1. /\ pc = "kernel" /\ pc' = pc /\ flash' = flash /\ UNCHANGED ram
        /\ osOk' = [osOk EXCEPT ![Other(Running)] = FALSE] /\ osOk[Running]
        /\ misc.slot[Running].successful_boot /\ ~misc.firstboot
    BY DEF BeginUpdate
  <1>2. /\ misc \in BootloaderControl /\ misc.magic = "vab"
        /\ active \in Slots /\ Running = active
        /\ Other(active) \in Slots /\ Other(active) # active
        /\ \A t \in Slots : t # active => t = Other(active)
        /\ active = ActiveIn(misc) /\ status = StatusIn(misc)
        /\ status \in [Slots -> Statuses] /\ osOk \in [Slots -> BOOLEAN]
        /\ \A t \in Slots : status[t] = "proven" <=> misc.slot[t].successful_boot
        /\ misc.slot[active].tries_remaining # 0 /\ Migrated(misc) = misc
    BY <1>1, AtKernel
  <1> DEFINE o == Other(ActiveIn(misc))
             new == [misc EXCEPT !.slot[o] = Unbootable]
  <1>3. misc' = new
    BY <1>2 DEF BeginUpdate, Unbootable
  <1>4. misc.slot[ActiveIn(misc)].successful_boot
    BY <1>1, <1>2
  <1>5. /\ new \in BootloaderControl /\ new.magic = "vab" /\ new.firstboot = misc.firstboot
        /\ ActiveIn(new) = ActiveIn(misc)
        /\ StatusIn(new) = [StatusIn(misc) EXCEPT ![o] = "empty"]
        /\ new.slot[ActiveIn(misc)] = misc.slot[ActiveIn(misc)]
    BY <1>2, <1>4, MappedDiscarded
  <1> HIDE DEF new
  <1>6. Migrated(new) = new
    BY <1>5, MappedValid
  <1>7. /\ active' = active /\ ~Fresh' /\ Migrated(misc)' = misc' /\ misc'.magic = "vab"
        /\ status' = [status EXCEPT ![Other(active)] = "empty"]
        /\ misc'.slot[active] = misc.slot[active]
    BY <1>1, <1>2, <1>3, <1>5, <1>6, NextMeta
  <1>8. /\ status[active] = "proven" /\ status'[active] = "proven"
        /\ status'[Other(active)] = "empty" /\ osOk'[active]
    BY <1>1, <1>2, <1>7
  <1>9. PromiseStep
    BY <1>7, <1>8 DEF PromiseStep, Discards
  <1>10. Base'
    <2>1. ASSUME NEW t \in Slots, status'[t] = "proven" PROVE t = active
      BY <1>2, <1>8, <2>1
    <2>2. ProvenWorks'
      BY <1>2, <1>7, <1>8, <2>1 DEF ProvenWorks
    <2> QED BY <1>2, <1>7, <1>8, <2>2 DEF Base, SomeProven, First
  <1> QED BY <1>1, <1>7, <1>8, <1>9, <1>10, RunsOn

\* A complete update is made active, on trial, and its bootloader is asked for.
LEMMA FinishUpdatePromise ==
    ASSUME AllInv, FinishUpdate
    PROVE  PromiseStep /\ PromiseInv'
  <1>1. /\ pc = "kernel" /\ pc' = "rom" /\ mode' = "normal" /\ env' = DefaultEnv
        /\ rb' = rb /\ job' = job /\ osOk[Running]
        /\ misc.slot[Running].successful_boot /\ ~misc.firstboot
        /\ \E works : osOk' = [osOk EXCEPT ![Other(Running)] = works]
    BY DEF FinishUpdate, Leave
  <1>2. /\ misc \in BootloaderControl /\ misc.magic = "vab"
        /\ active \in Slots /\ Running = active
        /\ Other(active) \in Slots /\ Other(active) # active
        /\ \A t \in Slots : t # active => t = Other(active)
        /\ active = ActiveIn(misc) /\ status = StatusIn(misc)
        /\ status \in [Slots -> Statuses] /\ osOk \in [Slots -> BOOLEAN]
        /\ \A t \in Slots : status[t] = "proven" <=> misc.slot[t].successful_boot
        /\ misc.slot[active].tries_remaining # 0 /\ Migrated(misc) = misc
        /\ ExpectKnown /\ LoadedEnv \in Env
    BY <1>1, AtKernel
  <1> DEFINE t == Other(ActiveIn(misc))
             mid == boot_info_set_active_slot(misc, t)
             new == [mid EXCEPT !.slot[t] = Unproved(mid.slot[t]),
                                !.roll_flag = FALSE, !.merge_flag = TRUE]
  <1>3. misc' = new
    BY <1>2 DEF FinishUpdate
  <1>4. t \in Slots /\ misc \in BootloaderControl /\ misc.magic = "vab"
    BY <1>2
  <1> HIDE DEF t
  <1>5. /\ new \in BootloaderControl /\ new.magic = "vab" /\ new.firstboot = misc.firstboot
        /\ ActiveIn(new) = t
        /\ StatusIn(new) = [StatusIn(misc) EXCEPT ![t] = "trial"]
        /\ \A s \in Slots : s # t => new.slot[s].tries_remaining = misc.slot[s].tries_remaining
    BY <1>4, MappedStarted
  <1> HIDE DEF new
  <1> USE DEF t
  <1>6. Migrated(new) = new
    BY <1>5, MappedValid
  <1>7. /\ active' = Other(active) /\ ~Fresh' /\ Migrated(misc)' = misc' /\ misc'.magic = "vab"
        /\ status' = [status EXCEPT ![Other(active)] = "trial"]
        /\ misc'.slot[active].tries_remaining = misc.slot[active].tries_remaining
    BY <1>1, <1>2, <1>3, <1>5, <1>6, NextMeta
  <1>8. /\ status[active] = "proven" /\ status'[active] = "proven"
        /\ status'[Other(active)] = "trial" /\ osOk'[active]
    BY <1>1, <1>2, <1>7
  <1>9. PromiseStep
    BY <1>7, <1>8 DEF PromiseStep, Activates
  <1>10. Base'
    <2>1. ASSUME NEW s \in Slots, status'[s] = "proven" PROVE s = active
      BY <1>2, <1>8, <2>1
    <2>2. ProvenWorks'
      BY <1>2, <1>7, <1>8, <2>1 DEF ProvenWorks
    <2> QED BY <1>2, <1>7, <1>8, <2>2 DEF Base, SomeProven, First
  <1>11. Point' = "rom" /\ ~EnvJob'
    BY <1>1 DEF Point, EnvJob
  <1>12. ExpectKnown'
    <2>1. Known(LoadedEnv') /\ Known(env')
      <3> DEFINE v == IF Gpt THEN [LoadedEnv EXCEPT !.write_boot = TRUE]
                      ELSE [LoadedEnv EXCEPT !.update_env = TRUE,
                                             !.reboot_status = "reboot_next",
                                             !.expect_index = 0]
      <3>1. flash' = [ok |-> TRUE, val |-> v]
        BY DEF FinishUpdate
      <3>2. Known(v)
        <4>1. Known(LoadedEnv) /\ LoadedEnv \in Env
          BY <1>2 DEF ExpectKnown
        <4>2. CASE Gpt
          <5>1. v.reboot_status = LoadedEnv.reboot_status
                /\ v.expect_index = LoadedEnv.expect_index
            BY <4>1, <4>2 DEF Env
          <5> QED BY <4>1, <5>1 DEF Known
        <4>3. CASE ~Gpt
          <5>1. v.expect_index = 0
            BY <4>1, <4>3 DEF Env
          <5> QED BY <5>1 DEF Known, NoIndex
        <4> QED BY <4>2, <4>3
      <3> HIDE DEF v
      <3>3. LoadedEnv' = v
        BY <3>1 DEF LoadedEnv
      <3> QED BY <1>1, <3>2, <3>3, DefaultAsksNothing
    <2> QED BY <1>11, <2>1 DEF ExpectKnown
  <1>13. Requested'
    BY <1>2, <1>7, <1>8 DEF Requested, OneOnTrial
  <1>14. /\ ~Before' /\ Point' \notin Quiet /\ Point' \notin Opening
         /\ Point' \notin Booting /\ Point' \notin Picked
    BY <1>11 DEF Before, Quiet, Opening, Booting, Picked
  <1> QED BY <1>1, <1>7, <1>9, <1>10, <1>12, <1>13, <1>14
          DEF PromiseInv, EnvInv, Valid, Settled, Agreed, Returning, Loaded, Chosen, Rescued

-----------------------------------------------------------------------------
(* The simulation.                                                         *)

\* A device that never held metadata of normal A/B starts with slot 0 active and proven.
LEMMA InitPromise ==
    ASSUME ~Legacy, Init, IInv
    PROVE  PromiseInv /\ Promise!Init
  <1>1. /\ misc \in {Uninitialised, boot_info_reset} /\ flash = [ok |-> TRUE, val |-> DefaultEnv]
        /\ pc = "rom" /\ env = DefaultEnv /\ mode = "normal" /\ rb = NoRollback /\ job = Idle
        /\ osOk = [s \in Slots |-> TRUE]
    BY DEF Init
  <1>2. misc.magic # "ab" /\ Migrated(misc) = boot_info_reset
    <2>1. CASE misc = boot_info_reset
      BY <2>1, ResetMeta, MappedValid
    <2>2. CASE misc = Uninitialised
      <3>1. misc.magic = "none"
        BY <2>2 DEF Uninitialised, boot_info_reset
      <3> QED BY <3>1, MigratedMeta
    <2> QED BY <1>1, <2>1, <2>2
  <1>3. Migrated(boot_info_reset) = boot_info_reset
    BY ResetMeta, MappedValid
  <1>4. active = ActiveIn(boot_info_reset) /\ status = StatusIn(boot_info_reset)
        /\ Fresh = boot_info_reset.firstboot
    BY <1>2, <1>3 DEF active, status, Fresh, ActiveIn, StatusIn
  <1>5. active = 0 /\ status[0] = "proven" /\ status[1] = "empty"
        /\ boot_info_reset.slot[0].tries_remaining # 0
    BY <1>4, ResetMeta
  <1>6. Base
    <2>1. \A s \in Slots : status[s] = "proven" => s = 0
      BY <1>5 DEF Slots
    <2> QED BY <1>1, <1>2, <1>5, <2>1 DEF Base, SomeProven, ProvenWorks, First, Slots
  <1>7. Promise!Init
    <2>1. active \in Slots /\ status \in [Slots -> Statuses]
      BY TypeFacts DEF IInv
    <2> QED BY <1>6, <2>1, PromiseInit DEF Base, SomeProven
  <1>8. Point = "rom" /\ ~EnvJob /\ LoadedEnv = DefaultEnv
    BY <1>1 DEF Point, EnvJob, LoadedEnv
  <1>9. /\ ~Under /\ ~Before /\ Point \notin Quiet /\ Point \notin Opening
        /\ Point \notin Booting /\ Point \notin Picked /\ Point \in Early
    BY <1>8 DEF Under, Updating, Before, Quiet, Opening, Booting, Picked, Early
  <1>10. ~AnyAsk /\ ExpectKnown
    BY <1>1, <1>8, DefaultAsksNothing DEF AnyAsk, ExpectKnown
  <1> QED BY <1>1, <1>2, <1>6, <1>7, <1>8, <1>9, <1>10
          DEF PromiseInv, EnvInv, Requested, Settled, Agreed, Valid, Returning, Loaded, Chosen,
              Rescued

\* Every step is one of SlotPromise's or is not seen, and keeps the invariant.
LEMMA StepPromise == ~LateCrash /\ AllInv /\ [Next]_vars => PromiseStep /\ PromiseInv'
  <1> SUFFICES ASSUME ~LateCrash, AllInv, [Next]_vars PROVE PromiseStep /\ PromiseInv'
    OBVIOUS
  <1>1. Unseen => PromiseStep
    BY DEF Unseen, PromiseStep
  <1>2. CASE \/ BootRom \/ BootRomFails \/ aml_update_env
             \/ GetValidSlotBoots \/ GetValidSlotRollsBack \/ GetValidSlotResets
    BY <1>1, <1>2, PowerOnPromise, GetValidSlotPromise
  <1>3. CASE \/ rollback_reason \/ check_bootloader \/ set_mergestatus_cancel
             \/ write_bootloader_back \/ set_roll_flag \/ boot0_env \/ RollbackEnv
    BY <1>1, <1>3, ReasonPromise, CommandPromise, AskPromise
  <1>4. CASE amlsecurecheck \/ ab_update_rollback \/ forfeit_reason \/ FinishWrite
    BY <1>1, <1>4, SecureCheckPromise, UpdateOrRollbackPromise, ForfeitReasonPromise,
       FinishWritePromise
  <1>5. CASE Onward
    BY <1>1, <1>5, OnwardPromise
  <1>6. CASE \/ Reboot \/ AndroidFails \/ UserReboot \/ RescueParty \/ Attended \/ PowerCut
    BY <1>1, <1>6, LeavePromise
  <1>7. CASE \/ set_active_slot \/ update_tries \/ forfeit
             \/ MarkBootSuccessful \/ BeginUpdate \/ FinishUpdate
    BY <1>7, SetActivePromise, TriesPromise, MarkPromise, BeginUpdatePromise,
       FinishUpdatePromise
  <1>8. CASE UNCHANGED vars
    <2>1. /\ misc' = misc /\ osOk' = osOk /\ flash' = flash /\ pc' = pc /\ env' = env
          /\ mode' = mode /\ rb' = rb /\ job' = job
      BY <1>8 DEF vars, storage, ram, world
    <2>2. Unseen
      BY <2>1, UnseenMeta
    <2>3. /\ Point' = Point /\ LoadedEnv' = LoadedEnv /\ EnvJob' = EnvJob
          /\ Before' = Before /\ Under' = Under /\ active' = active /\ status' = status
          /\ Fresh' = Fresh
      BY <2>1, <2>2 DEF Point, LoadedEnv, EnvJob, Before, Under, Unseen, Stutters
    <2>4. EnvInv'
      BY <2>1, <2>3 DEF AllInv, PromiseInv, EnvInv, ExpectKnown, Requested, AnyAsk, Settled,
                        Agreed, Later, Asking, Known, Within, OneOnTrial
    <2>5. PromiseInv'
      BY <2>1, <2>2, <2>3, <2>4
         DEF AllInv, PromiseInv, Valid, Returning, Loaded, Chosen, Rescued, Unseen
    <2> QED BY <1>1, <2>2, <2>5
  <1>9. Next => \/ BootRom \/ BootRomFails \/ aml_update_env
                \/ GetValidSlotBoots \/ GetValidSlotRollsBack \/ GetValidSlotResets
                \/ rollback_reason \/ check_bootloader \/ set_mergestatus_cancel
                \/ write_bootloader_back \/ set_roll_flag \/ boot0_env \/ RollbackEnv
                \/ amlsecurecheck \/ ab_update_rollback \/ forfeit_reason \/ FinishWrite
                \/ Onward
                \/ Reboot \/ AndroidFails \/ UserReboot \/ RescueParty \/ Attended \/ PowerCut
                \/ set_active_slot \/ update_tries \/ forfeit
                \/ MarkBootSuccessful \/ BeginUpdate \/ FinishUpdate
    BY Zenon DEF Next, UBoot, Outside, RollbackStep, UpdateStep, TriesStep, Onward
  <1> QED BY <1>2, <1>3, <1>4, <1>5, <1>6, <1>7, <1>8, <1>9

\* What U-Boot and Android do to the slots keeps the promise of SlotPromise, for every
\* number of tries, images and power cuts, with or without a GPT, a torn env, bad images
\* and unreadable partitions.  The device never held the metadata of normal A/B, and a
\* slot that has booted does not start to crash later.
THEOREM AbBootKeepsPromise == ~Legacy /\ ~LateCrash => (Spec => KeepsPromise)
  <1> SUFFICES ASSUME ~Legacy, ~LateCrash PROVE Spec => KeepsPromise
    OBVIOUS
  <1>1. Init => IInv /\ PromiseInv /\ Promise!Init
    BY InitIInv, InitPromise
  <1>2. IInv /\ PromiseInv /\ [Next]_vars
        => /\ (IInv /\ PromiseInv)'
           /\ [Promise!Next]_(Promise!slots)
    BY NextIInv, StepPromise, PromiseNext DEF AllInv
  <1> QED BY <1>1, <1>2, PTL DEF Spec, KeepsPromise, Promise!Spec

\* A slot that has booted, that get_valid_slot may pick, and whose system works.
AWorkingSlot == \E s \in Slots : /\ Migrated(misc).slot[s].successful_boot
                                 /\ Bootable(s)
                                 /\ osOk[s]

\* Whatever U-Boot, the updates and the power cuts do to the metadata, it names a slot
\* whose system works and has booted, and get_valid_slot may pick that slot: neither
\* update_tries, nor a rollback, nor a reset ever gives up the last good system.
THEOREM AlwaysAWorkingSlot == ~Legacy /\ ~LateCrash => (Spec => []AWorkingSlot)
  <1> SUFFICES ASSUME ~Legacy, ~LateCrash PROVE Spec => []AWorkingSlot
    OBVIOUS
  <1>1. Init => IInv /\ PromiseInv
    BY InitIInv, InitPromise
  <1>2. IInv /\ PromiseInv /\ [Next]_vars => (IInv /\ PromiseInv)'
    BY NextIInv, StepPromise DEF AllInv
  <1>3. IInv /\ PromiseInv => AWorkingSlot
    <2> SUFFICES ASSUME IInv, PromiseInv PROVE AWorkingSlot
      OBVIOUS
    <2>1. misc \in BootloaderControl /\ TypeOK
      BY TypeFacts DEF IInv
    <2>2. PICK s \in Slots : status[s] = "proven"
      BY DEF PromiseInv, Base, SomeProven
    <2>3. osOk[s] /\ Bootable(s)
      BY <2>1, <2>2, SomeBootable DEF PromiseInv, Base, ProvenWorks
    <2>4. Migrated(misc).slot[s].successful_boot
      BY <2>1, <2>2, Mapped DEF status
    <2> QED BY <2>3, <2>4 DEF AWorkingSlot
  <1> QED BY <1>1, <1>2, <1>3, PTL DEF Spec
=============================================================================
