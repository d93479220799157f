-------------------------- MODULE AbBootCopiesProofs --------------------------
(***************************************************************************)
(* The bootloader copies of AbBoot: while the power fails between any two  *)
(* writes and during those of the copies, boot0 or boot1 holds the         *)
(* bootloader of the slot that has booted, so that the ROM finds a copy it *)
(* accepts and a slot on trial can be gone back from.  Without a GPT that  *)
(* holds for a torn env and failing reads too.  Until the power fails,     *)
(* whatever images and failing reads there are: the counter of first boots *)
(* never wraps, the active slot runs on its own bootloader, and boot1      *)
(* holds what uboot_status says of it.                                     *)
(***************************************************************************)
EXTENDS AbBootPromiseProofs

\* What the proofs about the copies assume.  With a bad image, a torn env or a
\* bootloader partition that cannot be read TLC finds both copies unusable.
Benign == Gpt /\ ~BadImages /\ ~TornEnv /\ ~PartFails /\ ~Legacy /\ ~LateCrash

-----------------------------------------------------------------------------
(* The invariant.                                                          *)

\* The slots of which misc says that boot1 holds their bootloader, and the slot
\* that has booted and that a failure of the active one would go back to.
noted == {s \in Slots : Migrated(misc).slot[s].uboot_status = 2}
Trusted == IF status[active] = "proven" THEN active ELSE Other(active)

\* The bootloader of the trusted slot is where uboot_status says, whatever else
\* is being written; on a device that was never updated it is in boot0 too.
TrustedKept == IF Trusted \in noted THEN copies[2] = part[Trusted]
                                    ELSE copies[1] = part[Trusted]
FreshKept == Fresh => copies[1] = part[0]
NotedIsProven == \A s \in noted : status[s] = "proven"
PartsGood == \A s \in Slots : /\ status[s] # "empty" => part[s].good
                              /\ status[s] = "proven" => part[s].gen \in proven
Held == TrustedKept /\ FreshKept /\ NotedIsProven /\ PartsGood

\* Once boot0 has the new image, boot1 is known to have the old one, and a slot
\* on trial that works runs on its own bootloader.
Replaced == \/ pc \in {"update_gpt", "boot0_env"}
            \/ EnvJob /\ ~job.val.write_boot
            \/ ~flash.val.write_boot
TrialReady == status[active] # "proven" /\ Replaced =>
                  /\ Trusted \in noted
                  /\ osOk[active] => copies[1] = part[active]

\* A request is for a slot on trial; the next boot is expected of boot0 only
\* once boot0 is good; until the tries are counted RAM and flash agree.
Sure(e) == e.reboot_status = "reboot_next" =>
               e.expect_index = 1 /\ copies[1].good /\ ~e.write_boot
Same(e, f) == /\ e.write_boot = f.write_boot
              /\ e.reboot_status = f.reboot_status
              /\ e.expect_index = f.expect_index
EnvSaved == {"get_valid_slot", "ab_update_rollback", "check", "cancel", "reboot",
             "update_tries", "forfeit"}
EnvTrue == /\ flash.ok
           /\ flash.val.write_boot => status[active] # "proven"
           /\ Sure(flash.val)
           /\ EnvJob => /\ Point \in EnvSaved /\ Sure(job.val)
                        /\ job.val.write_boot => flash.val.write_boot
           /\ Point \in Opening => Same(env, flash.val) /\ (EnvJob => Same(job.val, flash.val))

\* An update backs up boot0 before it writes it, and keeps its request until then.
Writing0 == {"write_boot0", "update_gpt"}
UpdateOrder ==
    /\ Point \in {"check_boot1", "boot1_checked"} \cup Writing0 \/ pc = "boot0_env"
         => flash.val.write_boot
    /\ Point \in Writing0 \/ pc = "boot0_env" => Trusted \in noted
    /\ pc \in {"update_gpt", "boot0_env"} => copies[1] = part[active]
    /\ pc \in {"boot1_checked", "boot1_backed_up"} /\ Trusted \notin noted
         => copies[2] = copies[1]

\* What is being written, and where.
BootJob == pc = "writing" /\ job.op = "boot"
CopyOrder ==
    BootJob => \/ /\ job.then \in {"boot1_checked", "boot1_backed_up"}
                  /\ job.dst = 2 /\ job.img = copies[1] /\ Trusted \notin noted
               \/ job.then = "update_gpt" /\ job.dst = 1 /\ job.img = part[active]
               \/ /\ job.then = "env" \/ (job.then = "flag" /\ rb.kind = "rescueparty")
                  /\ job.dst = 1 /\ job.img = copies[2]

\* A rollback copies boot1, which is up to date, over boot0, and asks for boot0 to be
\* started only when that is done.
Rolling == {"reason", "check", "cancel", "flag", "active", "copy", "env"}
RollbackOrder ==
    Point \in Rolling =>
        /\ ~Asking(flash.val) /\ (EnvJob => ~Asking(job.val))
        /\ rb.kind \in {"valid_slot", "rescueparty"} /\ rb.src = 2 /\ rb.dst = 1
        /\ Trusted \in noted /\ ~env.write_boot
        /\ rb.kind = "valid_slot" /\ Point \in {"copy", "env"} => status[active] = "proven"
        /\ rb.kind = "rescueparty" /\ status[active] # "proven" => ~osOk[active]
        /\ pc = "env" => copies[1].good
        /\ pc \in {"flag", "active"} /\ rb.kind = "rescueparty" => copies[1].good

\* Rescue is asked for by a system that does not work, when nothing is pending.
RescueOrder == mode = "rescueparty" /\ Point \in Opening \cup {"rom"} =>
                   ~osOk[active] /\ ~Asking(flash.val)

\* The ROM starts boot0 when it is good: the user area holds no bootloader.
StartedFrom == /\ copies[0] = Torn
               /\ Point \in Opening \cup Quiet =>
                     idx \in {1, 2} /\ (idx = 1 <=> copies[1].good)

CopiesInv == /\ Held /\ TrialReady /\ EnvTrue /\ UpdateOrder /\ CopyOrder
             /\ RollbackOrder /\ RescueOrder /\ StartedFrom /\ NeverBricked

-----------------------------------------------------------------------------
(* What a step leaves as it was.                                           *)

\* Neither the slots, nor what is noted of them, nor their bootloaders change.
SlotsSame == /\ active' = active /\ status' = status /\ Fresh' = Fresh /\ noted' = noted
             /\ part' = part /\ osOk' = osOk /\ proven' = proven

LEMMA CopiesFacts ==
    ASSUME AllInv, CopiesInv
    PROVE  /\ active \in Slots /\ Other(active) \in Slots /\ Other(active) # active
           /\ Trusted \in Slots /\ status[Trusted] = "proven"
           /\ copies \in [Copies -> Images] /\ part \in [Slots -> Images]
           /\ part[Trusted].good /\ part[Trusted].gen \in proven
           /\ copies[1].good \/ copies[2].good
           /\ LoadedEnv = flash.val
  <1>1. /\ active \in Slots /\ Other(active) \in Slots /\ Other(active) # active
        /\ \A s \in Slots : s # active => s = Other(active)
        /\ copies \in [Copies -> Images] /\ part \in [Slots -> Images]
    BY TypeFacts DEF AllInv, IInv, TypeOK
  <1>2. Trusted \in Slots /\ status[Trusted] = "proven"
    BY <1>1 DEF AllInv, PromiseInv, Base, SomeProven, Trusted
  <1>3. part[Trusted].good /\ part[Trusted].gen \in proven
    BY <1>2 DEF CopiesInv, Held, PartsGood
  <1>4. copies[1].good \/ copies[2].good
    BY <1>3 DEF CopiesInv, Held, TrustedKept
  <1>5. LoadedEnv = flash.val
    BY DEF CopiesInv, EnvTrue, LoadedEnv
  <1> QED BY <1>1, <1>2, <1>3, <1>4, <1>5

\* uboot_status is seen through the migration of the metadata.
LEMMA NotedSame ==
    ASSUME AllInv,
           \/ misc' = misc
           \/ misc' = Migrated(misc)
           \/ misc' = [misc EXCEPT !.roll_flag = TRUE]
           \/ misc.magic = "vab" /\ \E m : misc' = CountFirstBoot(misc, m)
    PROVE  noted' = noted
  <1>1. misc \in BootloaderControl /\ misc.magic # "ab"
    BY DEF AllInv, IInv, TypeOK, PromiseInv, Valid
  <1>2. noted' = {s \in Slots : Migrated(misc').slot[s].uboot_status = 2}
    BY DEF noted, Migrated
  <1>3. ASSUME Migrated(misc').slot = Migrated(misc).slot PROVE noted' = noted
    BY <1>2, <1>3 DEF noted
  <1>4. CASE misc' = misc
    BY <1>3, <1>4
  <1>5. CASE misc' = Migrated(misc)
    BY <1>1, <1>3, <1>5, MigratedMeta
  <1>6. CASE misc' = [misc EXCEPT !.roll_flag = TRUE]
    <2>1. misc'.magic = misc.magic /\ misc'.slot = misc.slot
      BY <1>1, <1>6 DEF BootloaderControl
    <2>2. Migrated(misc').slot = Migrated(misc).slot
      BY <1>1, <2>1 DEF Migrated, boot_info_validate, boot_info_validate_normalAB
    <2> QED BY <1>3, <2>2
  <1>7. CASE misc.magic = "vab" /\ \E m : misc' = CountFirstBoot(misc, m)
    <2>1. misc'.magic = "vab" /\ misc'.slot = misc.slot
      BY <1>1, <1>7 DEF CountFirstBoot, BootloaderControl
    <2>2. Migrated(misc') = misc' /\ Migrated(misc) = misc
      BY <1>7, <2>1, MappedValid
    <2> QED BY <1>3, <2>1, <2>2
  <1> QED BY <1>4, <1>5, <1>6, <1>7

LEMMA SameSlots ==
    ASSUME AllInv, Unseen, part' = part, osOk' = osOk, proven' = proven,
           \/ misc' = misc
           \/ misc' = Migrated(misc)
           \/ misc' = [misc EXCEPT !.roll_flag = TRUE]
    PROVE  SlotsSame
  BY NotedSame DEF SlotsSame, Unseen, Stutters

LEMMA SameTrusted == active' = active /\ status' = status => Trusted' = Trusted
  BY DEF Trusted

LEMMA HeldSame ==
    ASSUME Held, SlotsSame,
           Trusted \in noted => copies'[2] = copies[2],
           Trusted \notin noted => copies'[1] = copies[1],
           Fresh => copies'[1] = copies[1]
    PROVE  Held'
  BY SameTrusted DEF Held, SlotsSame, TrustedKept, FreshKept, NotedIsProven, PartsGood

\* Away from writing, the point reached is pc and no write is in progress.
LEMMA NotWriting == pc # "writing" => Point = pc /\ ~EnvJob /\ ~BootJob
  BY DEF Point, EnvJob, BootJob

LEMMA NotWritingNext == pc' # "writing" => Point' = pc' /\ ~EnvJob' /\ ~BootJob'
  BY DEF Point, EnvJob, BootJob

\* What the commands test of uboot_status, in the terms of the invariant.
LEMMA Musts ==
    ASSUME AllInv, Gpt, Point \notin Early
    PROVE  /\ MustCheckBoot1
                <=> status[Other(active)] = "proven" /\ Other(active) \notin noted
           /\ MustBackup <=> status[active] = "proven" /\ active \notin noted /\ idx # 2
  <1>1. TypeOK /\ Valid
    BY DEF AllInv, IInv, PromiseInv
  <1>2. /\ Migrated(misc) = misc /\ active = get_active_slot(misc)
        /\ \A s \in Slots : status[s] = "proven" <=> misc.slot[s].successful_boot
    BY <1>1, ValidMeta
  <1>3. active \in Slots /\ Other(active) \in Slots
    BY <1>1, TypeFacts
  <1>4. \A s \in Slots : s \in noted <=> misc.slot[s].uboot_status = 2
    BY <1>2 DEF noted
  <1> HIDE DEF active, status, noted
  <1>5. MustCheckBoot1
          <=> status[Other(active)] = "proven" /\ Other(active) \notin noted
    BY <1>2, <1>3, <1>4 DEF MustCheckBoot1, BackupSlot
  <1>6. MustBackup <=> status[active] = "proven" /\ active \notin noted /\ idx # 2
    BY <1>2, <1>3, <1>4 DEF MustBackup
  <1> QED BY <1>5, <1>6

-----------------------------------------------------------------------------
(* Steps that write nothing.                                               *)

LEMMA EnvStays ==
    ASSUME EnvTrue, pc # "writing", pc' # "writing", flash' = flash, copies'[1] = copies[1],
           flash.val.write_boot => status'[active'] # "proven",
           pc' \in Opening => pc \in Opening /\ Same(env', env)
    PROVE  EnvTrue'
  <1>1. Point = pc /\ Point' = pc' /\ ~EnvJob /\ ~EnvJob'
    BY NotWriting, NotWritingNext
  <1> HIDE DEF active, status
  <1> QED BY <1>1 DEF EnvTrue, Sure, Same

LEMMA StartStays ==
    ASSUME StartedFrom, idx' = idx, copies'[0] = copies[0], copies'[1] = copies[1],
           Point' \in Opening \cup Quiet => Point \in Opening \cup Quiet
    PROVE  StartedFrom'
  BY DEF StartedFrom

\* The step only moves on to a point that needs no more than what holds.
LEMMA MovesOn ==
    ASSUME CopiesInv, SlotsSame, pc # "writing", pc' \notin {"writing", "bricked"},
           copies' = copies, flash' = flash, idx' = idx, mode' = mode,
           pc' \in Opening => pc \in Opening /\ Same(env', env),
           pc' \in Quiet => pc \in Opening \cup Quiet,
           pc' # "rom",
           pc' \in {"check_boot1", "boot1_checked", "boot0_env"} \cup Writing0
             => flash.val.write_boot,
           pc' \in Writing0 \cup {"boot0_env"} => Trusted \in noted,
           pc' \in {"update_gpt", "boot0_env"} => pc \in {"update_gpt", "boot0_env"},
           pc' \in {"boot1_checked", "boot1_backed_up"} /\ Trusted \notin noted
             => copies[2] = copies[1],
           RollbackOrder'
    PROVE  CopiesInv'
  <1>1. Point = pc /\ Point' = pc' /\ ~EnvJob /\ ~EnvJob' /\ ~BootJob'
    BY NotWriting, NotWritingNext
  <1>2. /\ Held /\ TrialReady /\ EnvTrue /\ UpdateOrder /\ RescueOrder /\ StartedFrom
    BY DEF CopiesInv
  <1>3. /\ active' = active /\ status' = status /\ noted' = noted /\ part' = part
        /\ osOk' = osOk /\ Trusted' = Trusted
    BY SameTrusted DEF SlotsSame
  <1> HIDE DEF active, status, noted, Trusted
  <1>4. Held'
    BY <1>2, HeldSame
  <1>5. EnvTrue'
    BY <1>2, <1>3, EnvStays DEF EnvTrue
  <1>6. TrialReady'
    BY <1>1, <1>2, <1>3 DEF TrialReady, Replaced
  <1>7. UpdateOrder'
    BY <1>1, <1>2, <1>3 DEF UpdateOrder
  <1>8. CopyOrder'
    BY <1>1 DEF CopyOrder
  <1>9. RescueOrder'
    BY <1>1, <1>2, <1>3 DEF RescueOrder
  <1>10. StartedFrom'
    BY <1>1, <1>2, StartStays
  <1> QED BY <1>4, <1>5, <1>6, <1>7, <1>8, <1>9, <1>10 DEF CopiesInv, NeverBricked

\* Nothing is asked for where the tries are counted and after.
LEMMA QuietFlash ==
    ASSUME AllInv, CopiesInv, pc \in Quiet
    PROVE  ~Asking(flash.val) /\ ~flash.val.write_boot
  <1>1. Point = pc /\ ~EnvJob
    BY NotWriting DEF Quiet
  <1>2. ~Asking(LoadedEnv)
    BY <1>1 DEF AllInv, PromiseInv, EnvInv, Settled, Later
  <1> QED BY <1>2, CopiesFacts DEF Asking

\* Then the trusted slot is noted unless it is the active one.
LEMMA QuietTrusted ==
    ASSUME AllInv, CopiesInv, pc \in Quiet, Trusted \notin noted
    PROVE  /\ Trusted = active /\ status[active] = "proven"
           /\ copies[1] = part[active] /\ copies[1].good /\ idx = 1
  <1>1. status[active] = "proven"
    <2>1. Replaced
      BY QuietFlash DEF Replaced
    <2> QED BY <2>1 DEF CopiesInv, TrialReady
  <1>2. Trusted = active
    BY <1>1 DEF Trusted
  <1>3. copies[1] = part[active] /\ copies[1].good
    BY <1>2, CopiesFacts DEF CopiesInv, Held, TrustedKept
  <1>4. Point \in Quiet
    BY NotWriting DEF Quiet
  <1> QED BY <1>1, <1>2, <1>3, <1>4 DEF CopiesInv, StartedFrom

\* Where an update is asked for, the trusted slot is the other one.
LEMMA PendingTrusted ==
    ASSUME CopiesInv, flash.val.write_boot
    PROVE  Trusted = Other(active) /\ status[active] # "proven"
  BY DEF CopiesInv, EnvTrue, Trusted

-----------------------------------------------------------------------------
(* Steps that begin to write a copy.                                       *)

LEMMA CopyStarts ==
    ASSUME AllInv, CopiesInv, SlotsSame, pc # "writing", idx' = idx, mode' = mode,
           NEW c \in {1, 2}, NEW img, NEW next, StartBootWrite(c, img, next),
           next \notin Opening \cup {"rom", "bricked"},
           next \in Quiet => pc \in Quiet /\ c = 2,
           c = 2 => Trusted \notin noted,
           c = 1 => /\ Trusted \in noted /\ ~Fresh
                    /\ flash.val.reboot_status # "reboot_next"
                    /\ \/ flash.val.write_boot \/ status[active] = "proven"
                       \/ ~osOk[active],
           next \in {"check_boot1", "boot1_checked"} \cup Writing0 => flash.val.write_boot,
           next \in Writing0 => Trusted \in noted,
           \/ next \in {"boot1_checked", "boot1_backed_up"} /\ c = 2 /\ img = copies[1]
           \/ next = "update_gpt" /\ c = 1 /\ img = part[active]
           \/ /\ next = "env" \/ (next = "flag" /\ rb'.kind = "rescueparty")
              /\ c = 1 /\ img = copies[2],
           RollbackOrder'
    PROVE  CopiesInv'
  <1>1. /\ pc' = "writing" /\ flash' = flash /\ env' = env
        /\ job'.op = "boot" /\ job'.dst = c /\ job'.img = img /\ job'.then = next
        /\ copies' = [copies EXCEPT ![c] = Torn]
    BY DEF StartBootWrite, Idle
  <1>2. copies \in [Copies -> Images]
    BY CopiesFacts
  <1>3. \A d \in Copies : d # c => copies'[d] = copies[d]
    BY <1>1, <1>2
  <1>4. copies'[0] = copies[0] /\ (c = 2 => copies'[1] = copies[1])
        /\ (c = 1 => copies'[2] = copies[2])
    BY <1>3 DEF Copies
  <1>5. Point' = next /\ ~EnvJob' /\ Point = pc /\ ~EnvJob
    BY <1>1, NotWriting DEF Point, EnvJob
  <1>6. /\ Held /\ TrialReady /\ EnvTrue /\ UpdateOrder /\ RescueOrder /\ StartedFrom
    BY DEF CopiesInv
  <1>7. /\ active' = active /\ status' = status /\ noted' = noted /\ part' = part
        /\ osOk' = osOk /\ Trusted' = Trusted
    BY SameTrusted DEF SlotsSame
  <1>8. Held'
    BY <1>4, <1>6, HeldSame
  <1> HIDE DEF active, status, noted, Trusted, Fresh
  <1>9. TrialReady'
    BY <1>1, <1>4, <1>5, <1>6, <1>7 DEF TrialReady, Replaced
  <1>10. EnvTrue'
    BY <1>1, <1>4, <1>5, <1>6, <1>7 DEF EnvTrue, Sure
  <1>11. UpdateOrder'
    BY <1>1, <1>5, <1>7 DEF UpdateOrder, Writing0
  <1>12. CopyOrder'
    BY <1>1, <1>4, <1>7 DEF CopyOrder
  <1>13. RescueOrder'
    BY <1>5 DEF RescueOrder
  <1>14. StartedFrom'
    BY <1>4, <1>5, <1>6 DEF StartedFrom
  <1> QED BY <1>1, <1>8, <1>9, <1>10, <1>11, <1>12, <1>13, <1>14 DEF CopiesInv, NeverBricked

-----------------------------------------------------------------------------
(* Steps that begin to save the env.                                       *)

\* With an env that no power cut tears, nothing in flash changes yet.
LEMMA SaveStarts ==
    ASSUME EnvTrue, ~TornEnv, TypeOK, NEW e, NEW val, NEW next,
           StartEnvWrite(e, val, next) \/ update_env_part(e, val, next)
    PROVE  /\ pc' = "writing" /\ Point' = next /\ EnvJob' /\ ~BootJob' /\ job'.val = val
           /\ env' = e /\ flash' = flash /\ copies' = copies
  <1>1. flash.ok /\ flash \in [ok : BOOLEAN, val : Env]
    BY TypeFacts DEF EnvTrue
  <1>2. StartEnvWrite(e, val, next)
    BY <1>1 DEF update_env_part
  <1>3. flash' = [flash EXCEPT !.ok = flash.ok /\ ~TornEnv]
    BY <1>2 DEF StartEnvWrite
  <1>4. flash' = flash
    BY <1>1, <1>3
  <1>5. /\ pc' = "writing" /\ env' = e /\ copies' = copies
        /\ job'.op = "env" /\ job'.then = next /\ job'.val = val
    BY <1>2 DEF StartEnvWrite, Idle
  <1> QED BY <1>4, <1>5 DEF Point, EnvJob, BootJob

LEMMA EnvStarts ==
    ASSUME AllInv, CopiesInv, ~TornEnv, SlotsSame, pc # "writing", idx' = idx, mode' = mode,
           NEW e, NEW val, NEW next,
           StartEnvWrite(e, val, next) \/ update_env_part(e, val, next),
           next \in EnvSaved,
           Sure(val),
           val.write_boot => flash.val.write_boot,
           flash.val.write_boot /\ ~val.write_boot => pc \in {"boot0_env", "update_gpt"},
           next \in Opening => pc \in Opening /\ Same(e, flash.val) /\ Same(val, flash.val),
           next \in Quiet => pc \in Opening \cup Quiet,
           RollbackOrder'
    PROVE  CopiesInv'
  <1>1. /\ Held /\ TrialReady /\ EnvTrue /\ UpdateOrder /\ RescueOrder /\ StartedFrom
        /\ TypeOK
    BY DEF CopiesInv, AllInv, IInv
  <1>2. /\ pc' = "writing" /\ Point' = next /\ EnvJob' /\ ~BootJob' /\ job'.val = val
        /\ env' = e /\ flash' = flash /\ copies' = copies
    BY <1>1, SaveStarts
  <1>3. Point = pc /\ ~EnvJob
    BY NotWriting
  <1>4. /\ active' = active /\ status' = status /\ noted' = noted /\ part' = part
        /\ osOk' = osOk /\ Trusted' = Trusted
    BY SameTrusted DEF SlotsSame
  <1>5. Held'
    BY <1>1, <1>2, HeldSame
  <1> HIDE DEF active, status, noted, Trusted
  <1>6. TrialReady'
    BY <1>1, <1>2, <1>3, <1>4 DEF TrialReady, Replaced, EnvSaved
  <1>7. EnvTrue'
    BY <1>1, <1>2, <1>3, <1>4 DEF EnvTrue, Sure, Same
  <1>8. UpdateOrder'
    BY <1>2, <1>4 DEF UpdateOrder, EnvSaved, Writing0
  <1>9. CopyOrder'
    BY <1>2 DEF CopyOrder
  <1>10. RescueOrder'
    BY <1>1, <1>2, <1>3, <1>4 DEF RescueOrder, EnvSaved
  <1>11. StartedFrom'
    BY <1>1, <1>2, <1>3 DEF StartedFrom, EnvSaved
  <1> QED BY <1>2, <1>5, <1>6, <1>7, <1>8, <1>9, <1>10, <1>11 DEF CopiesInv, NeverBricked

-----------------------------------------------------------------------------
(* Power-on, and the end of a run.                                         *)

LEMMA NotRolling == Point' \notin Rolling => RollbackOrder'
  BY DEF RollbackOrder

\* What the commands of a rollback leave.
LEMMA RollsOn ==
    ASSUME CopiesInv, SlotsSame, pc \in Rolling \ {"env"}, rb' = rb, env' = env,
           flash' = flash, EnvJob' => job'.val = flash.val,
           rb.kind = "valid_slot" /\ Point' \in {"copy", "env"} => pc = "copy",
           pc' = "env" => copies'[1].good,
           pc' \in {"flag", "active"} /\ rb.kind = "rescueparty" => copies'[1].good
    PROVE  RollbackOrder'
  <1>1. Point = pc
    BY NotWriting DEF Rolling
  <1>2. Trusted' = Trusted /\ noted' = noted /\ active' = active /\ status' = status
        /\ osOk' = osOk
    BY SameTrusted DEF SlotsSame
  <1>3. RollbackOrder /\ Point \in Rolling
    BY <1>1 DEF CopiesInv
  <1> HIDE DEF active, status, noted, Trusted
  <1> QED BY <1>1, <1>2, <1>3 DEF RollbackOrder

\* However a run ends, the flash stays as it is, but for a note of insufficient space.
LEMMA PowersOff ==
    ASSUME CopiesInv, SlotsSame, copies' = copies, pc' = "rom",
           flash'.ok, Same(flash'.val, flash.val),
           mode' = "rescueparty" => ~osOk[active] /\ ~Asking(flash.val)
    PROVE  CopiesInv'
  <1>1. Point' = "rom" /\ ~EnvJob' /\ ~BootJob'
    BY NotWritingNext
  <1>2. /\ Held /\ TrialReady /\ EnvTrue /\ StartedFrom
    BY DEF CopiesInv
  <1>3. /\ active' = active /\ status' = status /\ noted' = noted /\ part' = part
        /\ osOk' = osOk /\ Trusted' = Trusted
    BY SameTrusted DEF SlotsSame
  <1>4. Held'
    BY <1>2, HeldSame
  <1> HIDE DEF active, status, noted, Trusted
  <1>5. TrialReady'
    BY <1>1, <1>2, <1>3 DEF TrialReady, Replaced, Same
  <1>6. EnvTrue'
    BY <1>1, <1>2, <1>3 DEF EnvTrue, Sure, Same, Opening
  <1>7. UpdateOrder' /\ CopyOrder' /\ RollbackOrder'
    BY <1>1 DEF UpdateOrder, CopyOrder, RollbackOrder, Writing0, Rolling
  <1>8. RescueOrder'
    BY <1>3 DEF RescueOrder, Asking, Same
  <1>9. StartedFrom'
    BY <1>1, <1>2 DEF StartedFrom, Opening, Quiet
  <1> QED BY <1>4, <1>5, <1>6, <1>7, <1>8, <1>9 DEF CopiesInv, NeverBricked

LEMMA LeaveCopies ==
    ASSUME AllInv, CopiesInv, ~LateCrash,
           \/ Reboot \/ AndroidFails \/ UserReboot \/ RescueParty \/ Attended \/ PowerCut
    PROVE  CopiesInv'
  <1>1. /\ misc' = misc /\ osOk' = osOk /\ part' = part /\ proven' = proven
        /\ copies' = copies /\ pc' = "rom"
        /\ mode' = "rescueparty" => RescueParty
    BY DEF Reboot, AndroidFails, UserReboot, RescueParty, Attended, PowerCut, Leave, storage,
           world
  <1>2. SlotsSame
    BY <1>1, LeavePromise, SameSlots
  <1>3. flash'.ok /\ Same(flash'.val, flash.val)
    <2>1. CASE flash' = flash
      BY <2>1 DEF CopiesInv, EnvTrue, Same
    <2>2. CASE flash' = [ok |-> TRUE, val |-> [LoadedEnv EXCEPT !.insufficient_data = TRUE]]
      <3>1. flash'.ok /\ flash'.val = [LoadedEnv EXCEPT !.insufficient_data = TRUE]
        BY <2>2
      <3>2. LoadedEnv \in Env /\ LoadedEnv = flash.val
        BY TypeFacts, CopiesFacts DEF AllInv, IInv
      <3> QED BY <3>1, <3>2, AsksSame DEF Same
    <2> QED BY <2>1, <2>2 DEF Reboot, AndroidFails, UserReboot, RescueParty, Attended, PowerCut,
                              storage
  <1>4. RescueParty => ~osOk[active] /\ ~Asking(flash.val)
    <2> SUFFICES ASSUME RescueParty PROVE ~osOk[active] /\ ~Asking(flash.val)
      OBVIOUS
    <2>1. pc = "kernel" /\ ~osOk[Running]
      BY DEF RescueParty
    <2> QED BY <2>1, AtKernel, QuietFlash DEF Quiet
  <1> QED BY <1>1, <1>2, <1>3, <1>4, PowersOff

LEMMA PowerOnCopies ==
    ASSUME AllInv, CopiesInv, ~TornEnv, BootRom \/ BootRomFails \/ aml_update_env
    PROVE  CopiesInv'
  <1>1. SlotsSame
    <2>1. misc' = misc /\ part' = part /\ osOk' = osOk /\ proven' = proven
      BY DEF BootRom, BootRomFails, aml_update_env, storage, world
    <2> QED BY <2>1, PowerOnPromise, SameSlots
  <1>2. env \in Env /\ TypeOK
    BY TypeFacts DEF AllInv, IInv
  <1>3. CASE BootRom
    <2>1. PICK c \in Copies : /\ copies[c].good
                              /\ \A d \in Copies : d < c => ~copies[d].good
                              /\ idx' = c
      BY <1>3 DEF BootRom
    <2>2. /\ pc = "rom" /\ pc' = "aml_update_env" /\ env' = LoadedEnv /\ flash' = flash
          /\ copies' = copies /\ mode' = mode
      BY <1>3 DEF BootRom, storage
    <2>3. c \in {1, 2} /\ (c = 1 <=> copies[1].good)
      <3>1. ~copies[0].good
        BY DEF CopiesInv, StartedFrom, Torn
      <3> QED BY <2>1, <3>1 DEF Copies
    <2>4. /\ Point' = "aml_update_env" /\ ~EnvJob' /\ ~BootJob' /\ Point = "rom"
      BY <2>2, NotWriting, NotWritingNext
    <2>5. /\ active' = active /\ status' = status /\ noted' = noted /\ part' = part
          /\ osOk' = osOk /\ Trusted' = Trusted
      BY <1>1, SameTrusted DEF SlotsSame
    <2>6. LoadedEnv = flash.val
      BY CopiesFacts
    <2>7. /\ Held /\ TrialReady /\ EnvTrue /\ RescueOrder /\ StartedFrom
      BY DEF CopiesInv
    <2>8. Held'
      BY <1>1, <2>2, <2>7, HeldSame
    <2> HIDE DEF active, status, noted, Trusted, LoadedEnv
    <2>9. TrialReady'
      BY <2>2, <2>4, <2>5, <2>7 DEF TrialReady, Replaced
    <2>10. EnvTrue'
      BY <2>2, <2>4, <2>5, <2>6, <2>7 DEF EnvTrue, Sure, Same
    <2>11. UpdateOrder' /\ CopyOrder' /\ RollbackOrder'
      BY <2>2, <2>4 DEF UpdateOrder, CopyOrder, RollbackOrder, Writing0, Rolling
    <2>12. RescueOrder'
      BY <2>2, <2>4, <2>5, <2>7 DEF RescueOrder
    <2>13. StartedFrom'
      BY <2>1, <2>2, <2>3, <2>7 DEF StartedFrom
    <2> QED BY <2>2, <2>8, <2>9, <2>10, <2>11, <2>12, <2>13 DEF CopiesInv, NeverBricked
  <1>4. CASE BootRomFails
    BY <1>4, CopiesFacts DEF BootRomFails, Copies
  <1>5. CASE aml_update_env
    <2>1. /\ pc = "aml_update_env" /\ Point = "aml_update_env" /\ idx' = idx /\ mode' = mode
      BY <1>5, NotWriting DEF aml_update_env
    <2>2. Same(env, flash.val) /\ Sure(flash.val)
      BY <2>1 DEF CopiesInv, EnvTrue, Opening
    <2>3. CASE env.update_env /\ ~env.write_boot
      <3> DEFINE e == defenv_reserv(env)
      <3>1. StartEnvWrite(e, e, "get_valid_slot")
        BY <1>5, <2>3 DEF aml_update_env, saveenv
      <3>2. /\ e.write_boot = FALSE /\ e.reboot_status = env.reboot_status
            /\ e.expect_index = env.expect_index
        BY DEF defenv_reserv, DefaultEnv
      <3>3. env.write_boot \in BOOLEAN
        BY <1>2 DEF Env
      <3> HIDE DEF e
      <3>4. Same(e, flash.val) /\ Sure(e)
        BY <2>2, <2>3, <3>2, <3>3 DEF Same, Sure
      <3>5. e.write_boot = flash.val.write_boot
        BY <3>4 DEF Same
      <3>6. Point' = "get_valid_slot"
        BY <3>1, EnvBegun, <1>2
      <3>7. RollbackOrder'
        BY <3>6, NotRolling DEF Rolling
      <3> QED BY <1>1, <2>1, <3>1, <3>4, <3>5, <3>7, EnvStarts DEF Opening, Quiet, Writing0, EnvSaved
    <2>4. CASE ~(env.update_env /\ ~env.write_boot)
      <3>1. pc' = "get_valid_slot" /\ UNCHANGED <<flash, copies, env, job>>
        BY <1>5, <2>4 DEF aml_update_env
      <3>2. RollbackOrder'
        BY <3>1, NotWritingNext, NotRolling DEF Rolling
      <3> QED BY <1>1, <2>1, <3>1, <3>2, MovesOn DEF Opening, Quiet, Writing0, Same
    <2> QED BY <2>3, <2>4
  <1> QED BY <1>3, <1>4, <1>5

-----------------------------------------------------------------------------
(* The slot selection and the checks before the tries are counted.         *)

\* With a GPT every rollback that is planned copies boot1 over boot0.
LEMMA PlanCopies ==
    ASSUME Gpt, NEW kind, NEW s
    PROVE  /\ RollbackFrom(kind, s).kind = kind
           /\ RollbackFrom(kind, s).src = 2 /\ RollbackFrom(kind, s).dst = 1
  BY DEF RollbackFrom

\* A slot that cannot be tried is neither proven nor on trial.
LEMMA NotBootable ==
    ASSUME AllInv, ~Bootable(active)
    PROVE  status[active] = "empty"
  <1>1. Valid /\ Base /\ TypeOK
    BY DEF AllInv, IInv, PromiseInv
  <1>2. Bootable(active) <=> Migrated(misc).slot[active].tries_remaining # 0
    BY <1>1 DEF Valid, Bootable, boot_info_validate_normalAB, slot_is_bootable
  <1>3. active \in Slots /\ status[active] \in Statuses
    BY <1>1, TypeFacts
  <1>4. status[active] # "trial" /\ status[active] # "proven"
    BY <1>1, <1>2, <1>3, TypeFacts DEF Base, ProvenWorks
  <1> QED BY <1>3, <1>4 DEF Statuses

LEMMA GetValidSlotCopies ==
    ASSUME AllInv, CopiesInv, Gpt,
           GetValidSlotBoots \/ GetValidSlotRollsBack \/ GetValidSlotResets
    PROVE  CopiesInv'
  <1>1. /\ pc \in {"get_valid_slot", "bcb_cmd"} /\ part' = part /\ osOk' = osOk
        /\ proven' = proven /\ copies' = copies /\ flash' = flash /\ idx' = idx
        /\ mode' = mode
    BY DEF GetValidSlotBoots, GetValidSlotRollsBack, GetValidSlotResets, ram, world
  <1>2. Unseen /\ active = get_active_slot(Migrated(misc)) /\ env \in Env
    BY GetValidSlotPromise, TypeFacts DEF active, ActiveIn, AllInv, IInv
  <1>3. CASE GetValidSlotBoots
    <2>1. /\ misc' = Migrated(misc) /\ pc' = AfterGetValidSlot
          /\ env' = [env EXCEPT !.slot_suffixes = active]
      BY <1>2, <1>3 DEF GetValidSlotBoots, boot_info_save
    <2>2. SlotsSame
      BY <1>1, <1>2, <2>1, SameSlots
    <2>3. pc' = IF pc = "get_valid_slot" THEN "amlsecurecheck" ELSE "switch_bootmode"
      BY <2>1 DEF AfterGetValidSlot
    <2>4. Same(env', env)
      BY <1>2, <2>1, AsksSame DEF Same
    <2>5. RollbackOrder'
      BY <2>3, NotWritingNext, NotRolling DEF Rolling
    <2> HIDE DEF active, SlotsSame
    <2> QED BY <1>1, <2>2, <2>3, <2>4, <2>5, MovesOn DEF Opening, Quiet, Writing0
  <1>4. CASE GetValidSlotRollsBack
    <2>1. /\ misc' = Migrated(misc) /\ pc' = "reason" /\ env' = env
          /\ rb' = RollbackFrom("valid_slot", active) /\ ~Bootable(active)
      BY <1>2, <1>4 DEF GetValidSlotRollsBack, boot_info_save
    <2>2. SlotsSame
      BY <1>1, <1>2, <2>1, SameSlots
    <2>3. status[active] = "empty"
      BY <2>1, NotBootable
    <2>4. ~Asking(flash.val) /\ ~Asking(env)
      BY <2>3, CopiesFacts DEF AllInv, PromiseInv, EnvInv, Requested, AnyAsk
    <2>5. Trusted \in noted
      BY <2>3, <2>4 DEF CopiesInv, TrialReady, Replaced, Asking
    <2>6. Point' = "reason" /\ ~EnvJob' /\ pc' = "reason" /\ pc # "writing"
      BY <1>1, <2>1, NotWritingNext
    <2>7. rb'.kind = "valid_slot" /\ rb'.src = 2 /\ rb'.dst = 1
      BY <2>1, PlanCopies
    <2>8. Trusted' = Trusted /\ noted' = noted
      BY <2>2, SameTrusted DEF SlotsSame
    <2>9. RollbackOrder'
      BY <1>1, <2>1, <2>4, <2>5, <2>6, <2>7, <2>8 DEF RollbackOrder, Asking
    <2> HIDE DEF SlotsSame
    <2> QED BY <1>1, <2>2, <2>6, <2>9, MovesOn DEF Opening, Quiet, Writing0
  <1>5. CASE GetValidSlotResets
    <2>1. \E s \in Slots : Bootable(s)
      BY SomeBootable DEF AllInv, IInv, PromiseInv
    <2> QED BY <1>5, <2>1 DEF GetValidSlotResets
  <1> QED BY <1>3, <1>4, <1>5

LEMMA SecureCheckCopies ==
    ASSUME AllInv, CopiesInv, ~TornEnv, amlsecurecheck
    PROVE  CopiesInv'
  <1> DEFINE e == [env EXCEPT !.bootloaderIndex = idx]
             v == [flash.val EXCEPT !.bootloaderIndex = idx]
  <1>1. /\ pc = "amlsecurecheck" /\ misc' = misc /\ part' = part /\ osOk' = osOk
        /\ proven' = proven /\ idx' = idx /\ mode' = mode
    BY DEF amlsecurecheck, world
  <1>2. SlotsSame
    BY <1>1, SecureCheckPromise, SameSlots
  <1>3. env \in Env /\ flash.val \in Env /\ Point = "amlsecurecheck"
    BY <1>1, TypeFacts, NotWriting DEF AllInv, IInv
  <1>4. Same(env, flash.val) /\ Sure(flash.val)
    BY <1>3 DEF CopiesInv, EnvTrue, Opening
  <1>5. Same(e, flash.val) /\ Same(v, flash.val) /\ Same(e, env)
    BY <1>3, <1>4, AsksSame DEF Same
  <1>6. Sure(v) /\ v.write_boot = flash.val.write_boot
    BY <1>4, <1>5 DEF Sure, Same
  <1>7. \/ /\ env' = e /\ pc' = "ab_update_rollback"
           /\ UNCHANGED <<flash, copies, job>>
        \/ update_env_part(e, v, "ab_update_rollback")
    BY DEF amlsecurecheck
  <1> HIDE DEF e, v, SlotsSame
  <1>8. CASE /\ env' = e /\ pc' = "ab_update_rollback"
             /\ UNCHANGED <<flash, copies, job>>
    <2>1. RollbackOrder'
      BY <1>8, NotWritingNext, NotRolling DEF Rolling
    <2> QED BY <1>1, <1>2, <1>5, <1>8, <2>1, MovesOn DEF Opening, Quiet, Writing0
  <1>9. CASE update_env_part(e, v, "ab_update_rollback")
    <2>1. Point' = "ab_update_rollback"
      BY <1>9, EnvPartBegun DEF AllInv, IInv
    <2>2. RollbackOrder'
      BY <2>1, NotRolling DEF Rolling
    <2> QED BY <1>1, <1>2, <1>5, <1>6, <1>9, <2>2, EnvStarts DEF Opening, Quiet, Writing0, EnvSaved
  <1> QED BY <1>7, <1>8, <1>9

\* The expected copy was started, so that no mismatch is found.
LEMMA NoMismatch ==
    ASSUME CopiesInv, pc = "ab_update_rollback", env.reboot_status = "reboot_next"
    PROVE  env.expect_index = idx
  <1>1. Point = "ab_update_rollback"
    BY NotWriting
  <1>2. Same(env, flash.val) /\ Sure(flash.val) /\ (idx = 1 <=> copies[1].good)
    BY <1>1 DEF CopiesInv, EnvTrue, StartedFrom, Opening
  <1> QED BY <1>2 DEF Same, Sure

LEMMA UpdateOrRollbackCopies ==
    ASSUME AllInv, CopiesInv, Gpt, ~TornEnv, ab_update_rollback
    PROVE  CopiesInv'
  <1>1. /\ pc = "ab_update_rollback" /\ misc' = misc /\ part' = part /\ osOk' = osOk
        /\ proven' = proven /\ idx' = idx /\ mode' = mode
    BY DEF ab_update_rollback, world
  <1>2. SlotsSame
    BY <1>1, UpdateOrRollbackPromise, SameSlots
  <1>3. env \in Env /\ flash.val \in Env /\ Point = "ab_update_rollback" /\ TypeOK
    BY <1>1, TypeFacts, NotWriting DEF AllInv, IInv
  <1>4. Same(env, flash.val) /\ Sure(flash.val) /\ env.write_boot = flash.val.write_boot
    BY <1>3 DEF CopiesInv, EnvTrue, Opening, Same
  <1> HIDE DEF SlotsSame
  <1>5. ASSUME pc' \in {"check_boot1", "update_tries"}, UNCHANGED <<flash, copies, env>>,
               pc' = "check_boot1" => env.write_boot
        PROVE  CopiesInv'
    <2>1. RollbackOrder'
      BY <1>5, NotWritingNext, NotRolling DEF Rolling
    <2> QED BY <1>1, <1>2, <1>4, <1>5, <2>1, MovesOn DEF Opening, Quiet, Writing0
  <1>6. ASSUME ~env.write_boot, mode = "rescueparty", UNCHANGED <<flash, copies, env>>,
               rb' = RollbackFrom("rescueparty", CurrentSlot), pc' = "reason"
        PROVE  CopiesInv'
    <2>1. ~osOk[active] /\ ~Asking(flash.val)
      BY <1>3, <1>6 DEF CopiesInv, RescueOrder, Opening
    <2>2. status[active] # "proven"
      BY <1>3, <1>6 DEF AllInv, PromiseInv, Rescued, Opening
    <2>3. Trusted \in noted
      BY <2>1, <2>2 DEF CopiesInv, TrialReady, Replaced, Asking
    <2>4. Point' = "reason" /\ ~EnvJob' /\ pc' = "reason"
      BY <1>6, NotWritingNext
    <2>5. rb'.kind = "rescueparty" /\ rb'.src = 2 /\ rb'.dst = 1
      BY <1>6, PlanCopies
    <2>6. Trusted' = Trusted /\ noted' = noted /\ active' = active /\ osOk' = osOk
      BY <1>2, SameTrusted DEF SlotsSame
    <2>7. RollbackOrder'
      BY <1>6, <2>1, <2>3, <2>4, <2>5, <2>6 DEF RollbackOrder
    <2> QED BY <1>1, <1>2, <1>6, <2>4, <2>7, MovesOn DEF Opening, Quiet, Writing0
  <1>7. ASSUME NEW next \in AfterExpectedCopy,
               update_env_part([env EXCEPT !.reboot_status = "reboot_init"],
                               [flash.val EXCEPT !.reboot_status = "reboot_init"],
                               next)
        PROVE  CopiesInv'
    <2>0. next \in {"update_tries", "reboot"}
      BY DEF AfterExpectedCopy
    <2> DEFINE e == [env EXCEPT !.reboot_status = "reboot_init"]
               v == [flash.val EXCEPT !.reboot_status = "reboot_init"]
    <2>1. v.reboot_status = "reboot_init" /\ v.write_boot = flash.val.write_boot
      BY <1>3 DEF Env
    <2>2. update_env_part(e, v, next)
      BY <1>7
    <2> HIDE DEF e, v
    <2>3. Sure(v)
      BY <2>1 DEF Sure
    <2>4. Point' = next
      BY <1>3, <2>2, EnvPartBegun
    <2>5. RollbackOrder'
      BY <2>0, <2>4, NotRolling DEF Rolling
    <2> QED BY <2>0, <1>1, <1>2, <2>1, <2>2, <2>3, <2>5, EnvStarts DEF Opening, Quiet, Writing0, EnvSaved
  <1>8. \/ pc' = "check_boot1" /\ env.write_boot /\ UNCHANGED <<flash, copies, env>>
        \/ pc' = "update_tries" /\ UNCHANGED <<flash, copies, env>>
        \/ /\ ~env.write_boot /\ mode = "rescueparty" /\ UNCHANGED <<flash, copies, env>>
           /\ rb' = RollbackFrom("rescueparty", CurrentSlot) /\ pc' = "reason"
        \/ \E next \in AfterExpectedCopy :
              update_env_part([env EXCEPT !.reboot_status = "reboot_init"],
                              [flash.val EXCEPT !.reboot_status = "reboot_init"], next)
        \/ Mismatch
    BY DEF ab_update_rollback
  <1>9. ~Mismatch
    BY <1>1, NoMismatch DEF Mismatch
  <1> QED BY <1>5, <1>6, <1>7, <1>8, <1>9

-----------------------------------------------------------------------------
(* The commands of a rollback.                                             *)

LEMMA RollingFacts ==
    ASSUME AllInv, CopiesInv, pc \in Rolling
    PROVE  /\ Point = pc /\ ~EnvJob /\ ~Asking(flash.val) /\ ~flash.val.write_boot
           /\ flash.val.reboot_status # "reboot_next"
           /\ rb.kind \in {"valid_slot", "rescueparty"} /\ rb.src = 2 /\ rb.dst = 1
           /\ Trusted \in noted /\ ~env.write_boot /\ copies[2] = part[Trusted]
           /\ rb.kind = "valid_slot" /\ pc \in {"copy", "env"} => status[active] = "proven"
           /\ rb.kind = "rescueparty" /\ status[active] # "proven" => ~osOk[active]
  <1>1. Point = pc /\ ~EnvJob
    BY NotWriting DEF Rolling
  <1> QED BY <1>1 DEF CopiesInv, RollbackOrder, Asking, Held, TrustedKept

\* The way of the two kinds of rollback that can happen.
LEMMA RollingWays ==
    ASSUME AllInv, CopiesInv, pc \in Rolling \ {"env"}
    PROVE  /\ pc = "reason" => Following \in {"check", "cancel"}
           /\ pc = "check" => rb.kind = "valid_slot" /\ Following = "flag"
           /\ pc = "cancel" => rb.kind = "rescueparty" /\ Following = "copy"
           /\ pc = "copy" => \/ rb.kind = "valid_slot" /\ Following = "env"
                             \/ rb.kind = "rescueparty" /\ Following = "flag"
           /\ pc = "flag" => Following = "active"
           /\ pc = "active" => \/ rb.kind = "valid_slot" /\ Following = "copy"
                               \/ rb.kind = "rescueparty" /\ Following = "env"
  <1>1. rb.kind \in {"valid_slot", "rescueparty"} /\ PlanAt(pc)
    BY RollingFacts DEF AllInv, IInv, PlanOK
  <1>2. CASE pc = "reason"
    BY <1>2, Ways DEF AllInv
  <1>3. CASE pc = "check"
    BY <1>1, <1>3 DEF Following, PlanAt
  <1>4. CASE pc = "cancel"
    BY <1>1, <1>4 DEF Following, PlanAt
  <1>5. CASE pc = "copy"
    BY <1>1, <1>5 DEF Following
  <1>6. CASE pc = "flag"
    BY <1>1, <1>6 DEF Following
  <1>7. CASE pc = "active"
    BY <1>1, <1>7 DEF Following
  <1> QED BY <1>2, <1>3, <1>4, <1>5, <1>6, <1>7 DEF Rolling

\* Until the slot is changed, the slot gone back to is the trusted one.
LEMMA RollingTo ==
    ASSUME AllInv, CopiesInv, pc \in {"reason", "check", "cancel", "flag", "active"}
    PROVE  rb.to = Trusted /\ rb.to = Other(active) /\ status[active] # "proven" /\ ~Fresh
  <1>1. Point = pc /\ rb.kind \in {"valid_slot", "rescueparty"}
    BY RollingFacts DEF Rolling
  <1>2. rb.to = Other(active) /\ status[active] # "proven"
    BY <1>1 DEF AllInv, PromiseInv, Returning, Before
  <1>3. ~Fresh
    BY <1>2 DEF AllInv, PromiseInv, Base, First
  <1> QED BY <1>2, <1>3 DEF Trusted

LEMMA ReasonCopies ==
    ASSUME AllInv, CopiesInv, ~TornEnv, rollback_reason
    PROVE  CopiesInv'
  <1>1. /\ pc = "reason" /\ misc' = misc /\ part' = part /\ osOk' = osOk
        /\ proven' = proven /\ idx' = idx /\ mode' = mode /\ rb' = rb
    BY DEF rollback_reason, world
  <1>2. SlotsSame
    BY <1>1, ReasonPromise, SameSlots
  <1>3. Following \in {"check", "cancel"} /\ TypeOK /\ EnvTrue
    BY <1>1, RollingWays DEF Rolling, AllInv, IInv, CopiesInv
  <1>4. ~flash.val.write_boot /\ Sure(flash.val) /\ flash.ok
    BY <1>1, RollingFacts DEF Rolling, CopiesInv, EnvTrue
  <1> HIDE DEF SlotsSame
  <1>5. CASE update_env_part(env, flash.val, Following)
    <2>1. /\ env' = env /\ flash' = flash /\ copies' = copies /\ pc' = "writing"
          /\ job'.val = flash.val /\ Point' \in {"check", "cancel"}
      BY <1>3, <1>5, SaveStarts
    <2>2. RollbackOrder'
      BY <1>1, <1>2, <2>1, RollsOn DEF Rolling
    <2> QED BY <1>1, <1>2, <1>3, <1>4, <1>5, <2>2, EnvStarts DEF Opening, Quiet, Writing0, EnvSaved
  <1>6. CASE pc' = Following /\ UNCHANGED <<flash, copies, env, job>>
    <2>1. Point' = Following /\ ~EnvJob'
      BY <1>3, <1>6, NotWritingNext
    <2>2. RollbackOrder'
      BY <1>1, <1>2, <1>3, <1>6, <2>1, RollsOn DEF Rolling
    <2> QED BY <1>1, <1>2, <1>3, <1>6, <2>2, MovesOn DEF Opening, Quiet, Writing0
  <1> QED BY <1>5, <1>6 DEF rollback_reason, SaveUnread

\* boot1 is what check_bootloader wants it to be; only the copy to boot0 is written.
LEMMA CommandCopies ==
    ASSUME AllInv, CopiesInv, \/ check_bootloader \/ set_mergestatus_cancel
                              \/ write_bootloader_back \/ set_roll_flag
    PROVE  CopiesInv'
  <1>1. /\ pc \in {"check", "cancel", "copy", "flag"} /\ part' = part /\ osOk' = osOk
        /\ proven' = proven /\ idx' = idx /\ mode' = mode /\ rb' = rb
        /\ misc' = misc \/ misc' = [misc EXCEPT !.roll_flag = TRUE]
    BY DEF check_bootloader, set_mergestatus_cancel, write_bootloader_back, set_roll_flag,
           boot_info_save, storage, ram, world
  <1>2. SlotsSame
    BY <1>1, CommandPromise, SameSlots
  <1>3. /\ Point = pc /\ pc \in Rolling \ {"env"}
        /\ rb.src = 2 /\ rb.dst = 1 /\ Trusted \in noted
        /\ flash.val.reboot_status # "reboot_next"
        /\ copies[2] = part[Trusted] /\ part[Trusted].good
        /\ rb.kind = "valid_slot" /\ pc = "copy" => status[active] = "proven"
        /\ rb.kind = "rescueparty" /\ status[active] # "proven" => ~osOk[active]
    BY <1>1, RollingFacts, CopiesFacts DEF Rolling
  <1> HIDE DEF SlotsSame
  <1>4. ASSUME pc # "copy", pc' = Following, UNCHANGED <<flash, copies, env>>
        PROVE  CopiesInv'
    <2>1. pc' \in {"flag", "copy", "active"} /\ (pc' = "copy" => rb.kind = "rescueparty")
          /\ (pc' = "active" => pc = "flag")
          /\ (pc' = "flag" => rb.kind = "valid_slot")
      BY <1>1, <1>3, <1>4, RollingWays
    <2>2. Point' = pc' /\ ~EnvJob'
      BY <2>1, NotWritingNext
    <2>3. pc = "flag" /\ rb.kind = "rescueparty" => copies[1].good
      BY <1>3 DEF CopiesInv, RollbackOrder
    <2>4. copies'[1] = copies[1]
      BY <1>4
    <2>5. RollbackOrder'
      BY <1>1, <1>2, <1>3, <1>4, <2>1, <2>2, <2>3, <2>4, RollsOn
    <2> QED BY <1>1, <1>2, <1>3, <1>4, <2>1, <2>5, MovesOn DEF Opening, Quiet, Writing0
  <1>5. CASE check_bootloader
    <2>1. rb.to = Trusted /\ pc = "check"
      BY <1>5, RollingTo DEF check_bootloader
    <2>2. pc' = Following /\ UNCHANGED <<flash, copies, env>>
      BY <1>3, <1>5, <2>1 DEF check_bootloader
    <2> QED BY <1>4, <2>1, <2>2
  <1>6. CASE set_mergestatus_cancel \/ set_roll_flag
    BY <1>4, <1>6 DEF set_mergestatus_cancel, set_roll_flag, boot_info_save, storage, ram
  <1>7. CASE write_bootloader_back
    <2>1. pc = "copy" /\ StartBootWrite(1, copies[2], Following)
      BY <1>3, <1>7 DEF write_bootloader_back
    <2>2. \/ rb.kind = "valid_slot" /\ Following = "env"
          \/ rb.kind = "rescueparty" /\ Following = "flag"
      BY <1>3, <2>1, RollingWays
    <2>3. ~Fresh
      <3>1. CASE rb.kind = "valid_slot"
        BY <1>3, <2>1, <3>1 DEF AllInv, PromiseInv, EnvInv, Requested, Under
      <3>2. CASE rb.kind = "rescueparty"
        BY <1>3, <2>1, <3>2 DEF AllInv, PromiseInv, Returning, Before, Base, First
      <3> QED BY <2>2, <3>1, <3>2
    <2>4. flash' = flash /\ env' = env /\ ~EnvJob' /\ Point' = Following /\ pc' = "writing"
      BY <2>1, CopyBegun DEF StartBootWrite
    <2>5. RollbackOrder'
      BY <1>1, <1>2, <1>3, <2>1, <2>4, RollsOn
    <2>6. flash.val.write_boot \/ status[active] = "proven" \/ ~osOk[active]
      BY <1>3, <2>1, <2>2
    <2> QED BY <1>1, <1>2, <1>3, <2>1, <2>2, <2>3, <2>5, <2>6, CopyStarts
            DEF Opening, Quiet, Writing0
  <1> QED BY <1>5, <1>6, <1>7

\* Making a slot active leaves uboot_status alone.
LEMMA NotedSetActive ==
    ASSUME NEW info \in BootloaderControl, NEW s \in Slots, NEW t \in Slots
    PROVE  boot_info_set_active_slot(info, s).slot[t].uboot_status
             = info.slot[t].uboot_status
  <1> DEFINE raised == [info.slot[t] EXCEPT !.priority = kActivePriority,
                                            !.tries_remaining = kActiveTries]
             lowered == [info.slot[t] EXCEPT !.priority = Lowered(info.slot[t].priority)]
             f == [u \in Slots |->
                     IF u = s
                     THEN [info.slot[u] EXCEPT !.priority = kActivePriority,
                                               !.tries_remaining = kActiveTries]
                     ELSE [info.slot[u] EXCEPT !.priority = Lowered(info.slot[u].priority)]]
  <1>1. info.slot[t] \in SlotMeta
    BY DEF BootloaderControl
  <1>2. raised.uboot_status = info.slot[t].uboot_status
        /\ lowered.uboot_status = info.slot[t].uboot_status
    BY <1>1 DEF SlotMeta
  <1>3. f[t] = IF t = s THEN raised ELSE lowered
    OBVIOUS
  <1>4. boot_info_set_active_slot(info, s).slot = f
    BY DEF boot_info_set_active_slot, BootloaderControl
  <1> HIDE DEF raised, lowered, f
  <1> QED BY <1>2, <1>3, <1>4

LEMMA SetActiveCopies ==
    ASSUME AllInv, CopiesInv, set_active_slot
    PROVE  CopiesInv'
  <1>1. /\ pc = "active" /\ pc' = Following /\ rb' = rb /\ mode' = mode /\ flash' = flash
        /\ copies' = copies /\ part' = part /\ osOk' = osOk /\ proven' = proven
        /\ idx' = idx
    BY DEF set_active_slot, boot_info_save, world
  <1>2. /\ rb.to = Trusted /\ rb.to = Other(active) /\ status[active] # "proven" /\ ~Fresh
    BY <1>1, RollingTo
  <1>3. /\ Point = pc /\ ~EnvJob /\ ~Asking(flash.val) /\ ~flash.val.write_boot
        /\ flash.val.reboot_status # "reboot_next"
        /\ rb.kind \in {"valid_slot", "rescueparty"} /\ rb.src = 2 /\ rb.dst = 1
        /\ Trusted \in noted /\ ~env.write_boot
    BY <1>1, RollingFacts DEF Rolling
  <1>4. \/ rb.kind = "valid_slot" /\ pc' = "copy"
        \/ rb.kind = "rescueparty" /\ pc' = "env"
    BY <1>1, RollingWays DEF Rolling
  <1>5. /\ misc \in BootloaderControl /\ env \in Env /\ active \in Slots
        /\ Trusted \in Slots /\ status[Trusted] = "proven" /\ status \in [Slots -> Statuses]
        /\ \A t \in Slots : t # active => t = Other(active)
        /\ TypeOK /\ Valid
    BY TypeFacts, CopiesFacts DEF AllInv, IInv, PromiseInv
  <1>6. misc.magic = "vab" /\ Migrated(misc) = misc /\ Validated(misc) = misc
    BY <1>1, <1>3, <1>5, ValidMeta DEF Early
  <1> DEFINE s == Trusted
             new == boot_info_set_active_slot(misc, s)
  <1>7. misc' = new /\ env' = [env EXCEPT !.slot_suffixes = s]
    BY <1>2, <1>5, <1>6 DEF set_active_slot, boot_info_save
  <1>8. s \in Slots
    BY <1>5
  <1> HIDE DEF s
  <1>9. /\ new.magic = "vab" /\ new.firstboot = misc.firstboot /\ ActiveIn(new) = s
        /\ StatusIn(new)[s] = IF StatusIn(misc)[s] = "proven" THEN "proven" ELSE "trial"
        /\ \A t \in Slots : t # s => StatusIn(new)[t] = StatusIn(misc)[t]
        /\ new \in BootloaderControl
    BY <1>5, <1>6, <1>8, MappedSetActive
  <1>10. \A t \in Slots : new.slot[t].uboot_status = misc.slot[t].uboot_status
    BY <1>5, <1>8, NotedSetActive
  <1> HIDE DEF new
  <1>11. Migrated(new) = new
    BY <1>9, MappedValid
  <1>12. /\ active' = s /\ ~Fresh' /\ status' = StatusIn(new)
         /\ noted' = {t \in Slots : misc'.slot[t].uboot_status = 2}
    BY <1>2, <1>6, <1>7, <1>9, <1>11, NextMeta DEF Fresh, noted
  <1>13. noted' = noted
    BY <1>6, <1>7, <1>10, <1>12 DEF noted
  <1>14. status' = status
    <2>1. status'[s] = "proven" /\ status[s] = "proven"
      BY <1>5, <1>9, <1>12 DEF status, s
    <2>2. \A t \in Slots : status'[t] = status[t]
      BY <1>9, <1>12, <2>1 DEF status
    <2>3. status' \in [Slots -> Statuses]
      BY <1>9, <1>12, Mapped
    <2> QED BY <1>5, <2>2, <2>3
  <1>15. status'[active'] = "proven" /\ Trusted' = Trusted
    BY <1>5, <1>12, <1>14 DEF Trusted, s
  <1>16. env'.write_boot = env.write_boot
    BY <1>5, <1>7, AsksSame
  <1>17. Point' = pc' /\ ~EnvJob' /\ ~BootJob'
    BY <1>4, NotWritingNext
  <1>18. pc' = "env" => copies[1].good
    BY <1>1, <1>3, <1>4 DEF CopiesInv, RollbackOrder, Rolling
  <1> HIDE DEF active, status, noted, Trusted, Fresh
  <1>19. Held'
    BY <1>1, <1>12, <1>13, <1>14, <1>15
       DEF CopiesInv, Held, TrustedKept, FreshKept, NotedIsProven, PartsGood
  <1>20. TrialReady'
    BY <1>15 DEF TrialReady
  <1>21. EnvTrue'
    BY <1>1, <1>3, <1>4, <1>17, EnvStays DEF CopiesInv, Opening
  <1>22. UpdateOrder' /\ CopyOrder'
    BY <1>4, <1>17 DEF UpdateOrder, CopyOrder, Writing0
  <1>23. RollbackOrder'
    BY <1>1, <1>3, <1>4, <1>13, <1>15, <1>16, <1>17, <1>18 DEF RollbackOrder
  <1>24. RescueOrder'
    BY <1>4, <1>17 DEF RescueOrder, Opening
  <1>25. StartedFrom'
    BY <1>1, <1>4, <1>17, StartStays DEF CopiesInv, Opening, Quiet
  <1>26. NeverBricked'
    BY <1>4 DEF NeverBricked
  <1> QED BY <1>19, <1>20, <1>21, <1>22, <1>23, <1>24, <1>25, <1>26 DEF CopiesInv

\* The env that asks for the next copy, after an update and after a rollback.
LEMMA AskCopies ==
    ASSUME AllInv, CopiesInv, ~TornEnv, boot0_env \/ RollbackEnv
    PROVE  CopiesInv'
  <1>1. /\ pc \in {"boot0_env", "env"} /\ misc' = misc /\ part' = part /\ osOk' = osOk
        /\ proven' = proven /\ idx' = idx /\ mode' = mode
    BY DEF boot0_env, RollbackEnv, world
  <1>2. SlotsSame
    BY <1>1, AskPromise, SameSlots
  <1>3. env \in Env /\ Point = pc /\ TypeOK
    BY <1>1, TypeFacts, NotWriting DEF AllInv, IInv
  <1>4. PICK e : /\ StartEnvWrite(e, e, "reboot")
                 /\ e.expect_index = 1 /\ ~e.write_boot
    <2>1. CASE boot0_env
      <3>1. Boot0Written(env).expect_index = 1 /\ ~Boot0Written(env).write_boot
        BY <1>3 DEF Boot0Written, Env
      <3> QED BY <2>1, <3>1 DEF boot0_env, saveenv
    <2>2. CASE RollbackEnv
      <3> DEFINE e == [env EXCEPT !.update_env = TRUE, !.reboot_status = "reboot_next",
                                  !.expect_index = rb.dst]
      <3>1. rb.dst = 1 /\ ~env.write_boot
        BY <2>2, RollingFacts DEF RollbackEnv, Rolling
      <3>2. e.expect_index = rb.dst /\ e.write_boot = env.write_boot
        BY <1>3 DEF Env
      <3>3. StartEnvWrite(e, e, "reboot")
        BY <2>2 DEF RollbackEnv, saveenv
      <3> QED BY <3>1, <3>2, <3>3
    <2> QED BY <2>1, <2>2
  <1>5. copies[1].good
    <2>1. CASE pc = "boot0_env"
      <3>1. copies[1] = part[active] /\ status[active] # "empty"
        BY <1>3, <2>1 DEF CopiesInv, UpdateOrder, AllInv, PromiseInv, EnvInv, Requested, Under,
                          Updating
      <3> QED BY <3>1, CopiesFacts DEF CopiesInv, Held, PartsGood
    <2>2. CASE pc = "env"
      BY <1>3, <2>2 DEF CopiesInv, RollbackOrder, Rolling
    <2> QED BY <1>1, <2>1, <2>2
  <1>6. Sure(e)
    BY <1>4, <1>5 DEF Sure
  <1>7. pc = "env" => ~flash.val.write_boot
    BY RollingFacts DEF Rolling
  <1>8. RollbackOrder'
    BY <1>3, <1>4, EnvBegun, NotRolling DEF Rolling
  <1> HIDE DEF SlotsSame
  <1> QED BY <1>1, <1>2, <1>4, <1>6, <1>7, <1>8, EnvStarts DEF Opening, Quiet, Writing0, EnvSaved

-----------------------------------------------------------------------------
(* The update of boot0, the backup, and the end of preboot.                *)

LEMMA OnwardSlots ==
    ASSUME AllInv, Onward, part' = part, osOk' = osOk, proven' = proven, misc' = misc
    PROVE  SlotsSame
  BY OnwardUnseen, SameSlots

LEMMA NoteTaken ==
    ASSUME NEW info \in BootloaderControl, info.magic = "vab", NEW s \in Slots
    PROVE  LET new == [info EXCEPT !.slot[s].uboot_status = 2]
           IN  {t \in Slots : Migrated(new).slot[t].uboot_status = 2}
                 = {t \in Slots : Migrated(info).slot[t].uboot_status = 2} \cup {s}
  <1> DEFINE new == [info EXCEPT !.slot[s].uboot_status = 2]
  <1>1. new.magic = "vab" /\ new.slot[s].uboot_status = 2
        /\ \A t \in Slots : t # s => new.slot[t] = info.slot[t]
    BY DEF BootloaderControl, SlotMeta
  <1> HIDE DEF new
  <1>2. Migrated(new) = new /\ Migrated(info) = info
    BY <1>1, MappedValid
  <1>3. {t \in Slots : new.slot[t].uboot_status = 2}
          = {t \in Slots : info.slot[t].uboot_status = 2} \cup {s}
    BY <1>1
  <1> QED BY <1>2, <1>3 DEF new

\* boot1 is noted to hold the bootloader of the trusted slot once it does.
LEMMA NotedCopies ==
    ASSUME AllInv, CopiesInv, Gpt, boot1_checked \/ boot1_backed_up
    PROVE  CopiesInv'
  <1>1. /\ pc \in {"boot1_checked", "boot1_backed_up"} /\ part' = part /\ osOk' = osOk
        /\ proven' = proven /\ copies' = copies /\ flash' = flash /\ env' = env
        /\ idx' = idx /\ mode' = mode
        /\ pc = "boot1_checked" => pc' = "write_boot0"
        /\ pc = "boot1_backed_up" => pc' = "tries_check"
    BY DEF boot1_checked, boot1_backed_up, boot_info_save, ram, world
  <1>2. Point = pc /\ ~EnvJob /\ Point' = pc' /\ ~EnvJob' /\ ~BootJob'
    BY <1>1, NotWriting, NotWritingNext
  <1>3. Unseen /\ active' = active /\ status' = status /\ Fresh' = Fresh
    BY OnwardUnseen DEF Onward, Unseen, Stutters
  <1>4. /\ misc \in BootloaderControl /\ misc.magic = "vab" /\ TypeOK
        /\ active = get_active_slot(misc)
    BY <1>1, <1>2, ValidMeta DEF Early, AllInv, IInv, TypeOK, PromiseInv
  <1>5. /\ MustCheckBoot1
              <=> status[Other(active)] = "proven" /\ Other(active) \notin noted
        /\ MustBackup <=> status[active] = "proven" /\ active \notin noted /\ idx # 2
    BY <1>1, <1>2, Musts DEF Early
  <1>6. Trusted \in Slots /\ status[Trusted] = "proven" /\ Trusted' = Trusted
    BY <1>3, CopiesFacts, SameTrusted
  <1>7. pc = "boot1_checked" => flash.val.write_boot /\ Trusted = Other(active)
    BY <1>2, PendingTrusted DEF CopiesInv, UpdateOrder
  <1>8. pc = "boot1_backed_up" /\ Trusted \notin noted
          => Trusted = active /\ status[active] = "proven" /\ idx = 1
    BY QuietTrusted DEF Quiet
  <1>9. \/ misc' = [misc EXCEPT !.slot[Trusted].uboot_status = 2]
        \/ misc' = misc /\ Trusted \in noted
    <2>1. CASE boot1_checked
      <3>1. misc' = IF MustCheckBoot1
                    THEN [misc EXCEPT !.slot[Other(active)].uboot_status = 2] ELSE misc
        BY <1>4, <2>1 DEF boot1_checked, boot_info_save, BackupSlot
      <3>2. Trusted = Other(active) /\ (MustCheckBoot1 \/ Trusted \in noted)
        BY <1>5, <1>6, <1>7, <2>1 DEF boot1_checked
      <3> QED BY <3>1, <3>2
    <2>2. CASE boot1_backed_up
      <3>1. misc' = IF MustBackup
                    THEN [misc EXCEPT !.slot[active].uboot_status = 2] ELSE misc
        BY <1>4, <2>2 DEF boot1_backed_up, boot_info_save
      <3>2. \/ MustBackup /\ Trusted = active
            \/ ~MustBackup /\ Trusted \in noted
        <4>1. pc = "boot1_backed_up"
          BY <2>2 DEF boot1_backed_up
        <4>2. MustBackup => Trusted = active
          BY <1>5 DEF Trusted
        <4> QED BY <1>5, <1>8, <4>1, <4>2
      <3> QED BY <3>1, <3>2
    <2> QED BY <2>1, <2>2
  <1>10. noted' = noted \cup {Trusted}
    <2>1. noted' = {t \in Slots : Migrated(misc').slot[t].uboot_status = 2}
      BY DEF noted, Migrated
    <2>2. CASE misc' = misc /\ Trusted \in noted
      BY <2>1, <2>2 DEF noted
    <2>3. CASE misc' = [misc EXCEPT !.slot[Trusted].uboot_status = 2]
      <3> DEFINE s == Trusted
      <3>1. s \in Slots
        BY <1>6
      <3> HIDE DEF s
      <3>2. {t \in Slots : Migrated([misc EXCEPT !.slot[s].uboot_status = 2]).slot[t].uboot_status = 2}
              = {t \in Slots : Migrated(misc).slot[t].uboot_status = 2} \cup {s}
        BY <1>4, <3>1, NoteTaken
      <3> QED BY <2>1, <2>3, <3>2 DEF s, noted
    <2> QED BY <1>9, <2>2, <2>3
  <1>11. copies[2] = part[Trusted]
    <2>1. Trusted \in noted => copies[2] = part[Trusted]
      BY DEF CopiesInv, Held, TrustedKept
    <2>2. Trusted \notin noted => copies[1] = part[Trusted] /\ copies[2] = copies[1]
      BY <1>1 DEF CopiesInv, Held, TrustedKept, UpdateOrder
    <2> QED BY <2>1, <2>2
  <1>12. /\ Held /\ TrialReady /\ EnvTrue /\ UpdateOrder /\ RescueOrder /\ StartedFrom
    BY DEF CopiesInv
  <1> HIDE DEF active, status, noted, Trusted, Fresh
  <1>13. Held'
    BY <1>1, <1>3, <1>6, <1>10, <1>11, <1>12
       DEF Held, TrustedKept, FreshKept, NotedIsProven, PartsGood
  <1>14. TrialReady'
    BY <1>1, <1>2, <1>3, <1>6, <1>10, <1>12 DEF TrialReady, Replaced
  <1>15. EnvTrue'
    BY <1>1, <1>3, <1>12, EnvStays DEF EnvTrue, Opening
  <1>16. UpdateOrder'
    BY <1>1, <1>2, <1>6, <1>7, <1>10 DEF UpdateOrder, Writing0
  <1>17. CopyOrder' /\ RollbackOrder' /\ RescueOrder' /\ NeverBricked'
    BY <1>1, <1>2 DEF CopyOrder, RollbackOrder, RescueOrder, NeverBricked, Opening, Rolling
  <1>18. StartedFrom'
    BY <1>1, <1>2, <1>12, StartStays DEF Opening, Quiet
  <1> QED BY <1>13, <1>14, <1>15, <1>16, <1>17, <1>18 DEF CopiesInv

\* boot0 and boot1 are written only when the other one is known to be good.
LEMMA WriteCopies ==
    ASSUME AllInv, CopiesInv, Gpt, check_boot1 \/ write_boot0 \/ backup_boot1
    PROVE  CopiesInv'
  <1>1. /\ pc \in {"check_boot1", "write_boot0", "backup_boot1"} /\ misc' = misc
        /\ part' = part /\ osOk' = osOk /\ proven' = proven /\ idx' = idx /\ mode' = mode
    BY DEF check_boot1, write_boot0, backup_boot1, world
  <1>2. SlotsSame
    BY <1>1, OnwardSlots DEF Onward
  <1>3. Point = pc
    BY <1>1, NotWriting
  <1>4. /\ MustCheckBoot1
              <=> status[Other(active)] = "proven" /\ Other(active) \notin noted
        /\ MustBackup <=> status[active] = "proven" /\ active \notin noted /\ idx # 2
    BY <1>1, <1>3, Musts DEF Early
  <1>5. Trusted \in Slots /\ status[Trusted] = "proven"
    BY CopiesFacts
  <1> HIDE DEF SlotsSame
  <1>6. CASE check_boot1
    <2>1. pc = "check_boot1" /\ flash.val.write_boot /\ Trusted = Other(active)
      BY <1>3, <1>6, PendingTrusted DEF check_boot1, CopiesInv, UpdateOrder
    <2>2. MustCheckBoot1 <=> Trusted \notin noted
      BY <1>4, <1>5, <2>1
    <2>3. CASE MustCheckBoot1 /\ ~BootSame(1, 2)
      <3>1. StartBootWrite(2, copies[1], "boot1_checked")
        BY <1>6, <2>3 DEF check_boot1
      <3>2. RollbackOrder'
        BY <3>1, CopyBegun, NotRolling DEF Rolling
      <3> QED BY <1>1, <1>2, <2>1, <2>2, <2>3, <3>1, <3>2, CopyStarts
              DEF Opening, Quiet, Writing0
    <2>4. CASE ~(MustCheckBoot1 /\ ~BootSame(1, 2))
      <3>1. pc' = "boot1_checked" /\ UNCHANGED <<flash, copies, env, job>>
        BY <1>6, <2>4 DEF check_boot1
      <3>2. Trusted \notin noted => copies[2] = copies[1]
        BY <2>2, <2>4 DEF BootSame
      <3>3. RollbackOrder'
        BY <3>1, NotWritingNext, NotRolling DEF Rolling
      <3> QED BY <1>1, <1>2, <2>1, <3>1, <3>2, <3>3, MovesOn DEF Opening, Quiet, Writing0
    <2> QED BY <2>3, <2>4
  <1>7. CASE write_boot0
    <2>1. pc = "write_boot0" /\ StartBootWrite(1, part[env.slot_suffixes], "update_gpt")
      BY <1>7 DEF write_boot0
    <2>2. env.slot_suffixes = active /\ ~Fresh
      BY <1>3, <2>1 DEF AllInv, PromiseInv, Chosen, Picked, EnvInv, Requested, Under, Updating
    <2>3. flash.val.write_boot /\ Trusted \in noted
      BY <1>3, <2>1 DEF CopiesInv, UpdateOrder, Writing0
    <2>4. flash.val.reboot_status # "reboot_next"
      BY <2>3 DEF CopiesInv, EnvTrue, Sure
    <2>5. RollbackOrder'
      BY <2>1, CopyBegun, NotRolling DEF Rolling
    <2> QED BY <1>1, <1>2, <2>1, <2>2, <2>3, <2>4, <2>5, CopyStarts
            DEF Opening, Quiet, Writing0
  <1>8. CASE backup_boot1
    <2>1. pc = "backup_boot1" /\ pc \in Quiet
      BY <1>8 DEF backup_boot1, Quiet
    <2>2. CASE MustBackup /\ ~BootSame(1, 2)
      <3>1. StartBootWrite(2, copies[1], "boot1_backed_up")
        BY <1>8, <2>2 DEF backup_boot1
      <3>2. Trusted \notin noted
        BY <1>4, <2>2 DEF Trusted
      <3>3. RollbackOrder'
        BY <3>1, CopyBegun, NotRolling DEF Rolling
      <3> QED BY <1>1, <1>2, <2>1, <3>1, <3>2, <3>3, CopyStarts DEF Opening, Quiet, Writing0
    <2>3. CASE ~(MustBackup /\ ~BootSame(1, 2))
      <3>1. pc' = "boot1_backed_up" /\ UNCHANGED <<flash, copies, env, job>>
        BY <1>8, <2>3 DEF backup_boot1
      <3>2. Trusted \notin noted => MustBackup
        BY <1>4, <2>1, QuietTrusted
      <3>3. Trusted \notin noted => copies[2] = copies[1]
        BY <2>3, <3>2 DEF BootSame
      <3>4. RollbackOrder'
        BY <3>1, NotWritingNext, NotRolling DEF Rolling
      <3> QED BY <1>1, <1>2, <2>1, <3>1, <3>3, <3>4, MovesOn DEF Opening, Quiet, Writing0
    <2> QED BY <2>2, <2>3
  <1> QED BY <1>6, <1>7, <1>8

LEMMA OnCopies ==
    ASSUME AllInv, CopiesInv, ~PartFails,
           \/ write_boot0_fails \/ update_gpt \/ switch_bootmode \/ storeboot \/ check_ab
    PROVE  CopiesInv'
  <1>1. /\ pc \in {"write_boot0", "update_gpt", "switch_bootmode", "storeboot", "check_ab"}
        /\ part' = part /\ osOk' = osOk /\ proven' = proven /\ idx' = idx /\ mode' = mode
        /\ copies' = copies /\ flash' = flash /\ env' = env
    BY DEF write_boot0_fails, update_gpt, switch_bootmode, storeboot, check_ab, storage, ram,
           world
  <1>2. Point = pc
    BY <1>1, NotWriting
  <1>3. Validated(misc) = misc
    BY <1>1, <1>2, ValidMeta DEF Early, AllInv, IInv, PromiseInv
  <1>4. misc' = misc
    BY <1>3 DEF write_boot0_fails, update_gpt, switch_bootmode, storeboot, check_ab,
                boot_info_save, storage
  <1>5. SlotsSame
    BY <1>1, <1>4, OnwardSlots DEF Onward
  <1>6. CASE write_boot0_fails
    <2>1. pc = "write_boot0" /\ env.slot_suffixes \notin Slots
      BY <1>6 DEF write_boot0_fails
    <2>2. env.slot_suffixes = active
      BY <1>2, <2>1 DEF AllInv, PromiseInv, Chosen, Picked
    <2> QED BY <2>1, <2>2, CopiesFacts
  <1> HIDE DEF SlotsSame
  <1>7. CASE update_gpt
    <2>1. pc = "update_gpt" /\ pc' = "boot0_env"
      BY <1>7 DEF update_gpt
    <2>2. flash.val.write_boot /\ Trusted \in noted
      BY <1>2, <2>1 DEF CopiesInv, UpdateOrder, Writing0
    <2>3. RollbackOrder'
      BY <2>1, NotWritingNext, NotRolling DEF Rolling
    <2> QED BY <1>1, <1>5, <2>1, <2>2, <2>3, MovesOn DEF Opening, Quiet, Writing0
  <1>8. CASE switch_bootmode \/ storeboot \/ check_ab
    <2>1. /\ pc \in Quiet
          /\ pc' \in {"fastboot", "recovery", "storeboot", "kernel", "check_ab", "reboot"}
      <3>1. CASE switch_bootmode
        BY <3>1 DEF switch_bootmode, Quiet
      <3>2. CASE storeboot
        BY <3>2 DEF storeboot, Quiet
      <3>3. CASE check_ab
        BY <3>3 DEF check_ab, boot_info_save, Quiet
      <3> QED BY <1>8, <3>1, <3>2, <3>3
    <2>2. RollbackOrder'
      BY <2>1, NotWritingNext, NotRolling DEF Rolling
    <2> QED BY <1>1, <1>5, <2>1, <2>2, MovesOn DEF Opening, Quiet, Writing0
  <1> QED BY <1>6, <1>7, <1>8

\* Charging a try leaves uboot_status, and what has booted, alone.
LEMMA ChargedNotes ==
    ASSUME NEW info \in BootloaderControl, info.magic = "vab", NEW new,
           (\E m : new = CountTry(info, m)) \/ new = ForfeitTries(info)
    PROVE  \A t \in Slots : new.slot[t].uboot_status = info.slot[t].uboot_status
  <1> DEFINE a == get_active_slot(info)
  <1>1. a \in Slots
    BY ActiveSlotType
  <1>2. \/ new = info
        \/ new = [info EXCEPT !.slot[a].tries_remaining = @ - 1]
        \/ new = [info EXCEPT !.slot[a].tries_remaining = 0]
    BY DEF CountTry, ForfeitTries
  <1> HIDE DEF a
  <1>3. CASE new = info
    BY <1>3
  <1>4. CASE new = [info EXCEPT !.slot[a].tries_remaining = @ - 1]
    BY <1>1, <1>4 DEF BootloaderControl, SlotMeta
  <1>5. CASE new = [info EXCEPT !.slot[a].tries_remaining = 0]
    BY <1>1, <1>5 DEF BootloaderControl, SlotMeta
  <1> QED BY <1>2, <1>3, <1>4, <1>5

LEMMA ChargedSlots ==
    ASSUME AllInv, update_tries \/ forfeit
    PROVE  /\ active' = active /\ Fresh' = Fresh /\ noted' = noted
           /\ \A t \in Slots : /\ status'[t] = "proven" <=> status[t] = "proven"
                               /\ status'[t] # "empty" => status[t] # "empty"
  <1>1. /\ misc \in BootloaderControl /\ TypeOK
        /\ active \in Slots /\ status \in [Slots -> Statuses]
    BY TypeFacts DEF AllInv, IInv
  <1>2. pc \in {"update_tries", "forfeit"} /\ Point = pc
    BY NotWriting DEF update_tries, forfeit
  <1>3. misc.magic = "vab" /\ Migrated(misc) = misc
    BY <1>1, <1>2, ValidMeta DEF Early, AllInv, PromiseInv
  <1>4. PICK mid : /\ (\E m : mid = CountTry(misc, m)) \/ mid = ForfeitTries(misc)
                   /\ misc' = mid \/ \E m : misc' = CountFirstBoot(mid, m)
    BY DEF update_tries, forfeit, boot_info_save
  <1>5. /\ mid \in BootloaderControl /\ mid.magic = "vab"
        /\ mid.firstboot = misc.firstboot
        /\ ActiveIn(mid) = active
        /\ \A t \in Slots : t # active \/ status[t] = "proven" => StatusIn(mid)[t] = status[t]
        /\ \/ StatusIn(mid)[active] = status[active]
           \/ status[active] = "trial" /\ StatusIn(mid)[active] = "empty"
        /\ \A t \in Slots : mid.slot[t].uboot_status = misc.slot[t].uboot_status
    BY <1>1, <1>3, <1>4, MappedCharged, ChargedNotes DEF active, status
  <1>6. /\ misc'.magic = "vab" /\ misc'.firstboot = mid.firstboot /\ misc'.slot = mid.slot
        /\ ActiveIn(misc') = ActiveIn(mid) /\ StatusIn(misc') = StatusIn(mid)
    <2>1. misc'.slot = mid.slot
      BY <1>4, <1>5 DEF CountFirstBoot, BootloaderControl
    <2> QED BY <1>4, <1>5, <2>1, MappedNotes
  <1>7. Migrated(misc)' = misc' /\ Migrated(misc') = misc'
    BY <1>6, NextMeta, MappedValid
  <1>8. active' = active /\ Fresh' = Fresh /\ status' = StatusIn(mid)
    BY <1>3, <1>5, <1>6, <1>7, NextMeta DEF Fresh
  <1>9. noted' = {t \in Slots : misc'.slot[t].uboot_status = 2}
    BY <1>7 DEF noted
  <1>10. noted' = noted
    BY <1>3, <1>5, <1>6, <1>9 DEF noted
  <1>11. \A t \in Slots : /\ status'[t] = "proven" <=> status[t] = "proven"
                          /\ status'[t] # "empty" => status[t] # "empty"
    BY <1>1, <1>5, <1>8
  <1> QED BY <1>8, <1>10, <1>11

\* The tries and the first boots are counted.
LEMMA CountCopies ==
    ASSUME AllInv, CopiesInv, update_tries \/ forfeit
    PROVE  CopiesInv'
  <1>1. /\ pc \in {"update_tries", "forfeit"}
        /\ pc' \in {"forfeit_reason", "backup_boot1", "reboot"}
        /\ part' = part /\ osOk' = osOk /\ proven' = proven /\ copies' = copies
        /\ flash' = flash /\ env' = env /\ idx' = idx /\ mode' = mode
    BY DEF update_tries, forfeit, boot_info_save, ram, world
  <1>2. Point = pc /\ ~EnvJob /\ Point' = pc' /\ ~EnvJob' /\ ~BootJob'
    BY <1>1, NotWriting, NotWritingNext
  <1>3. /\ active' = active /\ Fresh' = Fresh /\ noted' = noted /\ active \in Slots
        /\ \A t \in Slots : /\ status'[t] = "proven" <=> status[t] = "proven"
                            /\ status'[t] # "empty" => status[t] # "empty"
    BY ChargedSlots, CopiesFacts
  <1>4. Trusted' = Trusted /\ Trusted \in Slots /\ noted \subseteq Slots
    BY <1>3, CopiesFacts DEF Trusted, noted
  <1>5. ~flash.val.write_boot
    BY <1>1, QuietFlash DEF Quiet
  <1>6. /\ Held /\ TrialReady /\ EnvTrue /\ UpdateOrder /\ StartedFrom
    BY DEF CopiesInv
  <1> HIDE DEF active, status, noted, Trusted, Fresh
  <1>7. Held'
    BY <1>1, <1>3, <1>4, <1>6 DEF Held, TrustedKept, FreshKept, NotedIsProven, PartsGood
  <1>8. TrialReady'
    BY <1>1, <1>3, <1>4, <1>5, <1>6 DEF TrialReady, Replaced
  <1>9. EnvTrue'
    BY <1>1, <1>5, <1>6, EnvStays DEF Opening
  <1>10. UpdateOrder' /\ CopyOrder' /\ RollbackOrder' /\ RescueOrder' /\ NeverBricked'
    BY <1>1, <1>2 DEF UpdateOrder, CopyOrder, RollbackOrder, RescueOrder, NeverBricked,
                      Opening, Rolling, Writing0
  <1>11. StartedFrom'
    BY <1>1, <1>2, <1>6, StartStays DEF Quiet
  <1> QED BY <1>7, <1>8, <1>9, <1>10, <1>11 DEF CopiesInv

LEMMA ForfeitReasonCopies ==
    ASSUME AllInv, CopiesInv, ~TornEnv, forfeit_reason
    PROVE  CopiesInv'
  <1> DEFINE e == IF NoSpace THEN [env EXCEPT !.insufficient_data = FALSE] ELSE env
             v == IF NoSpace THEN [flash.val EXCEPT !.insufficient_data = FALSE] ELSE flash.val
  <1>1. /\ pc = "forfeit_reason" /\ misc' = misc /\ part' = part /\ osOk' = osOk
        /\ proven' = proven /\ idx' = idx /\ mode' = mode
        /\ \/ update_env_part(e, v, "forfeit")
           \/ pc' = "forfeit" /\ UNCHANGED <<flash, copies, env, job>>
    BY DEF forfeit_reason, SaveUnread, world
  <1>2. SlotsSame
    BY <1>1, ForfeitReasonPromise, SameSlots
  <1>3. flash.val \in Env /\ TypeOK
    BY TypeFacts DEF AllInv, IInv
  <1>4. Same(v, flash.val)
    BY <1>3, AsksSame DEF Same
  <1>5. Sure(v) /\ v.write_boot = flash.val.write_boot
    BY <1>4 DEF Sure, Same, CopiesInv, EnvTrue
  <1> HIDE DEF e, v, SlotsSame
  <1>6. CASE update_env_part(e, v, "forfeit")
    <2>1. RollbackOrder'
      BY <1>3, <1>6, EnvPartBegun, NotRolling DEF Rolling
    <2> QED BY <1>1, <1>2, <1>5, <1>6, <2>1, EnvStarts DEF Opening, Quiet, Writing0, EnvSaved
  <1>7. CASE pc' = "forfeit" /\ UNCHANGED <<flash, copies, env, job>>
    <2>1. RollbackOrder'
      BY <1>7, NotWritingNext, NotRolling DEF Rolling
    <2> QED BY <1>1, <1>2, <1>7, <2>1, MovesOn DEF Opening, Quiet, Writing0
  <1> QED BY <1>1, <1>6, <1>7

\* A reset on a device that was never updated forgets that boot1 is up to date.
LEMMA TriesCheckCopies ==
    ASSUME AllInv, CopiesInv, tries_check
    PROVE  CopiesInv'
  <1>1. /\ pc = "tries_check" /\ pc' \in {"fastboot", "bcb_cmd"}
        /\ part' = part /\ osOk' = osOk /\ proven' = proven /\ copies' = copies
        /\ flash' = flash /\ env' = env /\ idx' = idx /\ mode' = mode
    BY DEF tries_check, boot_info_save, ram, world
  <1>2. Point = pc /\ ~EnvJob /\ Point' = pc' /\ ~EnvJob' /\ ~BootJob'
    BY <1>1, NotWriting, NotWritingNext
  <1>3. active' = active /\ status' = status /\ Fresh' = Fresh
    BY OnwardUnseen DEF Onward, Unseen, Stutters
  <1>4. RollbackOrder'
    BY <1>1, <1>2, NotRolling DEF Rolling
  <1>5. CASE misc' = misc
    <2>1. SlotsSame
      BY <1>1, <1>5, OnwardSlots DEF Onward
    <2> HIDE DEF SlotsSame
    <2> QED BY <1>1, <1>4, <2>1, MovesOn DEF Opening, Quiet, Writing0
  <1>6. CASE misc' = boot_info_reset /\ Exhausted(misc)
    <2>1. Valid /\ Base /\ TypeOK
      BY DEF AllInv, IInv, PromiseInv
    <2>2. Fresh
      <3>1. Migrated(misc) = misc /\ Fresh = misc.firstboot
        BY <1>1, <1>2, <2>1, ValidMeta DEF Early
      <3>2. ~NoneBootable(misc)
        <4>1. \E s \in Slots : misc.slot[s].tries_remaining # 0
          BY <2>1, <3>1 DEF Base, SomeProven, ProvenWorks
        <4> QED BY <4>1 DEF NoneBootable, slot_is_bootable
      <3> QED BY <1>6, <3>1, <3>2 DEF Exhausted
    <2>3. active = 0 /\ status[active] = "proven"
      BY <2>1, <2>2 DEF Base, First
    <2>4. Trusted = 0 /\ Trusted' = 0
      BY <1>3, <2>3 DEF Trusted
    <2>5. noted' = {}
      <3>1. noted' = {s \in Slots : Migrated(misc').slot[s].uboot_status = 2}
        BY DEF noted, Migrated
      <3>2. Migrated(misc') = boot_info_reset
        BY <1>6, ResetMeta, MappedValid
      <3>3. \A s \in Slots : boot_info_reset.slot[s].uboot_status # 2
        BY DEF boot_info_reset
      <3> QED BY <3>1, <3>2, <3>3
    <2>6. copies[1] = part[0]
      BY <2>2 DEF CopiesInv, Held, FreshKept
    <2>7. ~flash.val.write_boot
      BY <1>1, QuietFlash DEF Quiet
    <2>8. /\ Held /\ EnvTrue /\ StartedFrom
      BY DEF CopiesInv
    <2> HIDE DEF active, status, noted, Trusted, Fresh
    <2>9. Held'
      BY <1>1, <1>3, <2>4, <2>5, <2>6, <2>8
         DEF Held, TrustedKept, FreshKept, NotedIsProven, PartsGood
    <2>10. TrialReady'
      BY <1>3, <2>3 DEF TrialReady
    <2>11. EnvTrue'
      BY <1>1, <2>7, <2>8, EnvStays DEF Opening
    <2>12. UpdateOrder' /\ CopyOrder' /\ RescueOrder' /\ NeverBricked'
      BY <1>1, <1>2 DEF UpdateOrder, CopyOrder, RescueOrder, NeverBricked, Opening, Writing0
    <2>13. StartedFrom'
      BY <1>1, <1>2, <2>8, StartStays DEF Quiet
    <2> QED BY <1>4, <2>9, <2>10, <2>11, <2>12, <2>13 DEF CopiesInv
  <1> QED BY <1>5, <1>6 DEF tries_check, boot_info_save

-----------------------------------------------------------------------------
(* The end of a write.                                                     *)

\* What a boot copy is written with when it is done.
LEMMA CopyDone ==
    ASSUME AllInv, CopiesInv, BootJob
    PROVE  \/ /\ Point \in {"boot1_checked", "boot1_backed_up"}
              /\ job.dst = 2 /\ job.img = copies[1] /\ Trusted \notin noted
           \/ /\ Point = "update_gpt" /\ job.dst = 1 /\ job.img = part[active]
              /\ job.img.good /\ Trusted \in noted /\ ~Fresh
           \/ /\ Point \in {"flag", "env"} /\ job.dst = 1 /\ job.img = copies[2]
              /\ job.img.good /\ Trusted \in noted /\ ~Fresh
              /\ status[active] = "proven" \/ ~osOk[active]
              /\ rb.kind = "valid_slot" => Point = "env" /\ status[active] = "proven"
  <1>1. Point = job.then /\ CopyOrder /\ UpdateOrder /\ RollbackOrder /\ Held
        /\ PromiseInv /\ IInv
    BY DEF BootJob, Point, CopiesInv, AllInv
  <1>2. part[Trusted].good /\ \A s \in Slots : status[s] # "empty" => part[s].good
    BY CopiesFacts DEF CopiesInv, Held, PartsGood
  <1>3. active \in Slots
    BY CopiesFacts
  <1>4. Point \in Updating => status[active] # "empty" /\ ~Fresh
    BY <1>1 DEF PromiseInv, EnvInv, Requested, Under
  <1>5. Before /\ rb.kind = "rescueparty" => status[active] # "proven"
    BY <1>1 DEF PromiseInv, Returning
  <1>6. status[active] # "proven" => ~Fresh
    BY <1>1 DEF PromiseInv, Base, First
  <1>7. Trusted \in noted => copies[2] = part[Trusted]
    BY <1>1 DEF Held, TrustedKept
  <1> HIDE DEF active, status, noted, Trusted, Fresh
  <1>8. CASE job.then \in {"boot1_checked", "boot1_backed_up"}
    BY <1>1, <1>8 DEF CopyOrder
  <1>9. CASE job.then = "update_gpt"
    BY <1>1, <1>2, <1>3, <1>4, <1>9 DEF CopyOrder, UpdateOrder, Writing0, Updating
  <1>10. CASE job.then = "env"
    BY <1>1, <1>2, <1>4, <1>7, <1>10 DEF CopyOrder, RollbackOrder, Rolling, Updating
  <1>11. CASE job.then = "flag" /\ rb.kind = "rescueparty"
    BY <1>1, <1>2, <1>5, <1>6, <1>7, <1>11 DEF CopyOrder, RollbackOrder, Rolling, Before
  <1> QED BY <1>1, <1>8, <1>9, <1>10, <1>11 DEF CopyOrder

LEMMA FinishWriteCopies ==
    ASSUME AllInv, CopiesInv, FinishWrite
    PROVE  CopiesInv'
  <1>1. /\ pc = "writing" /\ pc' = job.then /\ job.then # "writing"
        /\ misc' = misc /\ osOk' = osOk /\ part' = part /\ proven' = proven
        /\ idx' = idx /\ mode' = mode /\ rb' = rb /\ env' = env
    BY DEF FinishWrite, world, AllInv, IInv, PlanOK
  <1>2. SlotsSame
    BY <1>1, FinishWritePromise, SameSlots
  <1>3. Point' = pc' /\ Point = pc' /\ ~EnvJob' /\ ~BootJob'
    BY <1>1, NotWritingNext DEF Point
  <1>4. /\ active' = active /\ status' = status /\ noted' = noted /\ Trusted' = Trusted
        /\ Fresh' = Fresh
    BY <1>2, SameTrusted DEF SlotsSame
  <1>5. /\ Held /\ TrialReady /\ EnvTrue /\ UpdateOrder /\ RollbackOrder /\ RescueOrder
        /\ StartedFrom
    BY DEF CopiesInv
  <1>6. copies \in [Copies -> Images]
    BY CopiesFacts
  <1>7. CASE job.op = "boot"
    <2>1. BootJob /\ ~EnvJob /\ flash' = flash
          /\ copies' = [copies EXCEPT ![job.dst] = job.img]
      BY <1>1, <1>7 DEF FinishWrite, BootJob, EnvJob
    <2>2. CASE /\ Point \in {"boot1_checked", "boot1_backed_up"}
               /\ job.dst = 2 /\ job.img = copies[1] /\ Trusted \notin noted
      <3>1. copies'[0] = copies[0] /\ copies'[1] = copies[1] /\ copies'[2] = copies[1]
        BY <1>6, <2>1, <2>2 DEF Copies
      <3>2. Held'
        BY <1>2, <1>5, <2>2, <3>1, HeldSame
      <3> HIDE DEF active, status, noted, Trusted, Fresh
      <3>3. TrialReady'
        BY <1>1, <1>3, <1>4, <1>5, <2>1, <2>2, <3>1 DEF TrialReady, Replaced
      <3>4. EnvTrue'
        BY <1>1, <1>3, <1>4, <1>5, <2>1, <2>2, <3>1 DEF EnvTrue, Sure, Opening
      <3>5. UpdateOrder'
        BY <1>1, <1>3, <1>4, <1>5, <2>1, <2>2, <3>1 DEF UpdateOrder, Writing0
      <3>6. CopyOrder' /\ RollbackOrder' /\ RescueOrder' /\ NeverBricked'
        BY <1>3, <2>2 DEF CopyOrder, RollbackOrder, Rolling, RescueOrder, Opening,
                          NeverBricked
      <3>7. StartedFrom'
        BY <1>1, <1>3, <1>5, <3>1, StartStays
      <3> QED BY <3>2, <3>3, <3>4, <3>5, <3>6, <3>7 DEF CopiesInv
    <2>3. CASE /\ Point = "update_gpt" /\ job.dst = 1 /\ job.img = part[active]
               /\ job.img.good /\ Trusted \in noted /\ ~Fresh
      <3>1. copies'[0] = copies[0] /\ copies'[2] = copies[2] /\ copies'[1] = part[active]
            /\ copies'[1].good
        BY <1>6, <2>1, <2>3 DEF Copies
      <3>2. Held'
        BY <1>2, <1>5, <2>3, <3>1, HeldSame
      <3> HIDE DEF active, status, noted, Trusted, Fresh
      <3>3. TrialReady'
        BY <1>1, <1>4, <2>3, <3>1 DEF TrialReady
      <3>4. EnvTrue'
        BY <1>1, <1>3, <1>4, <1>5, <2>1, <2>3, <3>1 DEF EnvTrue, Sure, Opening
      <3>5. UpdateOrder'
        BY <1>1, <1>3, <1>4, <1>5, <2>1, <2>3, <3>1 DEF UpdateOrder, Writing0
      <3>6. CopyOrder' /\ RollbackOrder' /\ RescueOrder' /\ NeverBricked'
        BY <1>3, <2>3 DEF CopyOrder, RollbackOrder, Rolling, RescueOrder, Opening,
                          NeverBricked
      <3>7. StartedFrom'
        BY <1>3, <1>5, <2>3, <3>1 DEF StartedFrom, Opening, Quiet
      <3> QED BY <3>2, <3>3, <3>4, <3>5, <3>6, <3>7 DEF CopiesInv
    <2>4. CASE /\ Point \in {"flag", "env"} /\ job.dst = 1 /\ job.img = copies[2]
               /\ job.img.good /\ Trusted \in noted /\ ~Fresh
               /\ status[active] = "proven" \/ ~osOk[active]
               /\ rb.kind = "valid_slot" => Point = "env" /\ status[active] = "proven"
      <3>1. copies'[0] = copies[0] /\ copies'[2] = copies[2] /\ copies'[1].good
        BY <1>6, <2>1, <2>4 DEF Copies
      <3>2. Held'
        BY <1>2, <1>5, <2>4, <3>1, HeldSame
      <3> HIDE DEF active, status, noted, Trusted, Fresh
      <3>3. TrialReady'
        BY <1>1, <1>4, <2>4 DEF TrialReady
      <3>4. EnvTrue'
        BY <1>1, <1>3, <1>4, <1>5, <2>1, <2>4, <3>1 DEF EnvTrue, Sure, Opening
      <3>5. UpdateOrder' /\ CopyOrder' /\ RescueOrder' /\ NeverBricked'
        BY <1>3, <2>4 DEF UpdateOrder, Writing0, CopyOrder, RescueOrder, Opening, NeverBricked
      <3>6. RollbackOrder'
        BY <1>1, <1>3, <1>4, <1>5, <2>1, <2>4, <3>1 DEF RollbackOrder
      <3>7. StartedFrom'
        BY <1>3, <1>5, <2>4, <3>1 DEF StartedFrom, Opening, Quiet
      <3> QED BY <3>2, <3>3, <3>4, <3>5, <3>6, <3>7 DEF CopiesInv
    <2> QED BY <2>1, <2>2, <2>3, <2>4, CopyDone
  <1>8. CASE job.op # "boot"
    <2>1. EnvJob /\ flash' = [ok |-> TRUE, val |-> job.val] /\ copies' = copies
      BY <1>1, <1>8 DEF FinishWrite, EnvJob
    <2>2. flash'.ok /\ flash'.val = job.val /\ Point \in EnvSaved
      BY <1>5, <2>1 DEF EnvTrue
    <2>3. Held'
      BY <1>2, <1>5, <2>1, HeldSame
    <2> HIDE DEF active, status, noted, Trusted, Fresh
    <2>4. TrialReady'
      BY <1>1, <1>3, <1>4, <1>5, <2>1, <2>2 DEF TrialReady, Replaced, EnvSaved
    <2>5. EnvTrue'
      BY <1>1, <1>3, <1>4, <1>5, <2>1, <2>2 DEF EnvTrue, Sure, Same
    <2>6. UpdateOrder' /\ CopyOrder' /\ NeverBricked'
      BY <1>3, <2>2 DEF UpdateOrder, Writing0, CopyOrder, NeverBricked, EnvSaved
    <2>7. RollbackOrder'
      BY <1>1, <1>3, <1>4, <1>5, <2>1, <2>2 DEF RollbackOrder, EnvSaved
    <2>8. RescueOrder'
      BY <1>1, <1>3, <1>4, <1>5, <2>1, <2>2 DEF RescueOrder, EnvTrue, EnvSaved, Asking, Same,
                                                Opening
    <2>9. StartedFrom'
      BY <1>1, <1>3, <1>5, <2>1, StartStays
    <2> QED BY <2>3, <2>4, <2>5, <2>6, <2>7, <2>8, <2>9 DEF CopiesInv
  <1> QED BY <1>7, <1>8

-----------------------------------------------------------------------------
(* What the running system does to the slots.                              *)

\* What a system that goes on running leaves as it was.
LEMMA RunsOnCopies ==
    ASSUME AllInv, CopiesInv, pc = "kernel", pc' = pc, UNCHANGED <<flash, copies, idx>>,
           Held', status'[active'] = "proven"
    PROVE  CopiesInv'
  <1>1. Point = "kernel" /\ ~EnvJob /\ Point' = "kernel" /\ ~EnvJob' /\ ~BootJob'
    BY NotWriting, NotWritingNext
  <1>2. ~flash.val.write_boot /\ EnvTrue /\ StartedFrom
    BY QuietFlash DEF Quiet, CopiesInv
  <1>3. EnvTrue'
    BY <1>1, <1>2, EnvStays DEF Opening
  <1>4. TrialReady'
    BY DEF TrialReady
  <1>5. UpdateOrder' /\ CopyOrder' /\ RollbackOrder' /\ RescueOrder' /\ NeverBricked'
    BY <1>1 DEF UpdateOrder, CopyOrder, RollbackOrder, RescueOrder, NeverBricked, Opening,
                Rolling, Writing0
  <1>6. StartedFrom'
    BY <1>1, <1>2, StartStays
  <1> QED BY <1>3, <1>4, <1>5, <1>6 DEF CopiesInv

\* The slots and what is noted of them, when the running slot is marked.
LEMMA MarkSlots ==
    ASSUME AllInv, MarkBootSuccessful
    PROVE  /\ active' = active /\ ~Fresh' /\ status'[active] = "proven"
           /\ \A t \in Slots : t # active => status'[t] = status[t]
           /\ noted \subseteq Slots /\ noted' \subseteq Slots
           /\ active \in noted' <=> active \in noted /\ status[active] = "proven"
           /\ \A t \in Slots : t # active => (t \in noted' <=> t \in noted)
  <1>1. pc = "kernel"
    BY DEF MarkBootSuccessful
  <1>2. /\ misc \in BootloaderControl /\ misc.magic = "vab"
        /\ active \in Slots /\ Running = active
        /\ active = ActiveIn(misc) /\ status = StatusIn(misc)
        /\ status \in [Slots -> Statuses]
        /\ \A t \in Slots : status[t] = "proven" <=> misc.slot[t].successful_boot
        /\ Migrated(misc) = misc
    BY <1>1, AtKernel
  <1> DEFINE a == active
             new == [misc EXCEPT !.slot[a] = Proved(misc.slot[a]),
                                 !.merge_flag = FALSE, !.firstboot = FALSE]
  <1>3. misc' = new
    BY <1>2 DEF MarkBootSuccessful
  <1>4. a \in Slots
    BY <1>2
  <1> HIDE DEF a
  <1>5. /\ new \in BootloaderControl /\ new.magic = "vab" /\ ~new.firstboot
        /\ new.slot[a].successful_boot
        /\ \A t \in Slots : t # a => new.slot[t] = misc.slot[t]
        /\ \A t \in Slots : /\ new.slot[t].priority = misc.slot[t].priority
                            /\ new.slot[t].tries_remaining = misc.slot[t].tries_remaining
    BY <1>2, <1>4, MarkChanged
  <1>6. new.slot[a].uboot_status
          = IF misc.slot[a].successful_boot THEN misc.slot[a].uboot_status ELSE 1
    <2> DEFINE d == Proved(misc.slot[a])
    <2>1. misc.slot[a] \in SlotMeta /\ misc.slot \in [Slots -> SlotMeta]
      BY <1>2, <1>4 DEF BootloaderControl
    <2>2. d.uboot_status
            = IF misc.slot[a].successful_boot THEN misc.slot[a].uboot_status ELSE 1
      BY <2>1 DEF Proved, SlotMeta
    <2>3. new.slot[a] = d
      BY <1>2, <1>4, <2>1 DEF BootloaderControl
    <2> HIDE DEF d
    <2> QED BY <2>2, <2>3
  <1> HIDE DEF new
  <1>7. a = ActiveIn(misc)
    BY <1>2 DEF a
  <1>8. ActiveIn(new) = a /\ StatusIn(new) = [StatusIn(misc) EXCEPT ![a] = "proven"]
        /\ Migrated(new) = new
    BY <1>2, <1>4, <1>5, <1>7, MappedMarked, MappedValid
  <1>9. /\ active' = active /\ ~Fresh'
        /\ status' = [status EXCEPT ![active] = "proven"]
        /\ noted' = {t \in Slots : new.slot[t].uboot_status = 2}
    BY <1>2, <1>3, <1>5, <1>8, NextMeta DEF a, noted
  <1>10. /\ status'[active] = "proven"
         /\ \A t \in Slots : t # active => status'[t] = status[t]
    BY <1>2, <1>9
  <1>11. noted = {t \in Slots : misc.slot[t].uboot_status = 2}
    BY <1>2 DEF noted
  <1>12. active \in noted' <=> active \in noted /\ status[active] = "proven"
    BY <1>2, <1>6, <1>9, <1>11 DEF a
  <1>13. \A t \in Slots : t # active => (t \in noted' <=> t \in noted)
    BY <1>2, <1>5, <1>9, <1>11 DEF a
  <1>14. noted \subseteq Slots /\ noted' \subseteq Slots
    BY <1>9, <1>11
  <1> QED BY <1>9, <1>10, <1>12, <1>13, <1>14

\* boot0 is what was running when the slot is marked, and is its bootloader.
LEMMA MarkCopies ==
    ASSUME AllInv, CopiesInv, MarkBootSuccessful
    PROVE  CopiesInv'
  <1>1. /\ pc = "kernel" /\ pc' = pc /\ flash' = flash /\ copies' = copies /\ idx' = idx
        /\ part' = part /\ proven' = proven \cup {copies[idx].gen} /\ osOk[Running]
    BY DEF MarkBootSuccessful, ram
  <1>2. /\ misc \in BootloaderControl /\ misc.magic = "vab"
        /\ active \in Slots /\ Running = active
        /\ active = ActiveIn(misc) /\ status = StatusIn(misc)
        /\ status \in [Slots -> Statuses] /\ status[active] # "empty"
        /\ \A t \in Slots : status[t] = "proven" <=> misc.slot[t].successful_boot
        /\ Migrated(misc) = misc /\ Point = "kernel"
    BY <1>1, AtKernel
  <1>9. active' = active /\ ~Fresh' /\ noted \subseteq Slots
    BY MarkSlots
  <1>10. /\ status'[active] = "proven"
         /\ \A t \in Slots : t # active => status'[t] = status[t]
    BY MarkSlots
  <1>12. \A t \in noted : status[t] = "proven"
    BY DEF CopiesInv, Held, NotedIsProven
  <1>13. noted' = noted
    <2>1. noted' \subseteq Slots /\ noted \subseteq Slots
      BY MarkSlots
    <2>2. \A t \in Slots : t \in noted' <=> t \in noted
      BY <1>12, MarkSlots
    <2> QED BY <2>1, <2>2
  <1>14. /\ active \notin noted => copies[1] = part[active]
         /\ active \in noted => copies[2] = part[active]
         /\ status[active] # "proven" => copies[1] = part[active]
    <2>1. CASE status[active] = "proven"
      <3>1. Trusted = active
        BY <2>1 DEF Trusted
      <3> QED BY <2>1, <3>1 DEF CopiesInv, Held, TrustedKept
    <2>2. CASE status[active] # "proven"
      <3>1. Replaced
        BY <1>1, QuietFlash DEF Quiet, Replaced
      <3>2. copies[1] = part[active]
        BY <1>1, <1>2, <2>2, <3>1 DEF CopiesInv, TrialReady
      <3> QED BY <1>12, <2>2, <3>2
    <2> QED BY <2>1, <2>2
  <1>15. \A t \in Slots : /\ status[t] # "empty" => part[t].good
                          /\ status[t] = "proven" => part[t].gen \in proven
    BY DEF CopiesInv, Held, PartsGood
  <1>16. part[active].good /\ part[active].gen \in proven'
    <2>1. part[active].good
      BY <1>2, <1>15
    <2>2. CASE status[active] = "proven"
      BY <1>1, <1>2, <1>15, <2>2
    <2>3. CASE status[active] # "proven"
      <3>1. copies[1] = part[active] /\ copies[1].good
        BY <1>14, <2>1, <2>3
      <3>2. idx = 1
        BY <1>2, <3>1 DEF CopiesInv, StartedFrom, Quiet
      <3> QED BY <1>1, <2>1, <3>1, <3>2
    <2> QED BY <2>1, <2>2, <2>3
  <1>17. Trusted' = active
    BY <1>9, <1>10 DEF Trusted
  <1> HIDE DEF active, status, noted, Trusted, Fresh
  <1>18. Held'
    <2>1. TrustedKept'
      BY <1>1, <1>13, <1>14, <1>17 DEF TrustedKept
    <2>2. FreshKept'
      BY <1>9 DEF FreshKept
    <2>3. NotedIsProven'
      <3>1. \A t \in noted : t \in Slots
        BY <1>9
      <3> QED BY <1>10, <1>12, <1>13, <3>1 DEF NotedIsProven
    <2>4. PartsGood'
      <3> SUFFICES ASSUME NEW t \in Slots
                   PROVE  /\ status'[t] # "empty" => part'[t].good
                          /\ status'[t] = "proven" => part'[t].gen \in proven'
        BY DEF PartsGood
      <3>1. CASE t = active
        BY <1>1, <1>16, <3>1
      <3>2. CASE t # active
        BY <1>1, <1>10, <1>15, <3>2
      <3> QED BY <3>1, <3>2
    <2> QED BY <2>1, <2>2, <2>3, <2>4 DEF Held
  <1>19. status'[active'] = "proven"
    BY <1>9, <1>10
  <1> QED BY <1>1, <1>18, <1>19, RunsOnCopies

\* The slots when the update engine gives up the one that does not run.
LEMMA BeginSlots ==
    ASSUME AllInv, BeginUpdate
    PROVE  /\ active' = active /\ ~Fresh'
           /\ status[active] = "proven" /\ status'[active] = "proven"
           /\ status'[Other(active)] = "empty"
           /\ Trusted = active /\ Trusted' = active
           /\ active \in noted' <=> active \in noted
           /\ \A t \in noted' : t = active
  <1>1. /\ pc = "kernel" /\ misc.slot[Running].successful_boot /\ ~misc.firstboot
    BY DEF BeginUpdate
  <1>2. /\ misc \in BootloaderControl /\ misc.magic = "vab"
        /\ active \in Slots /\ Running = active
        /\ Other(active) \in Slots /\ Other(active) # active
        /\ \A t \in Slots : t # active => t = Other(active)
        /\ active = ActiveIn(misc) /\ status = StatusIn(misc)
        /\ status \in [Slots -> Statuses]
        /\ \A t \in Slots : status[t] = "proven" <=> misc.slot[t].successful_boot
        /\ Migrated(misc) = misc
    BY <1>1, AtKernel
  <1> DEFINE o == Other(ActiveIn(misc))
             new == [misc EXCEPT !.slot[o] = Unbootable]
  <1>3. misc' = new
    BY <1>2 DEF BeginUpdate, Unbootable
  <1>4. misc.slot[ActiveIn(misc)].successful_boot /\ o = Other(active) /\ o \in Slots
    BY <1>1, <1>2
  <1>5. /\ new \in BootloaderControl /\ new.magic = "vab" /\ new.firstboot = misc.firstboot
        /\ ActiveIn(new) = ActiveIn(misc)
        /\ StatusIn(new) = [StatusIn(misc) EXCEPT ![o] = "empty"]
        /\ new.slot[ActiveIn(misc)] = misc.slot[ActiveIn(misc)]
    BY <1>2, <1>4, MappedDiscarded
  <1> HIDE DEF o
  <1>6. new.slot[o].uboot_status = 0
    BY <1>2, <1>4 DEF BootloaderControl, Unbootable
  <1> HIDE DEF new
  <1>7. Migrated(new) = new
    BY <1>5, MappedValid
  <1>8. /\ active' = active /\ ~Fresh'
        /\ status' = [status EXCEPT ![Other(active)] = "empty"]
        /\ noted' = {t \in Slots : new.slot[t].uboot_status = 2}
        /\ new.slot[active] = misc.slot[active]
    BY <1>1, <1>2, <1>3, <1>4, <1>5, <1>7, NextMeta DEF noted
  <1>9. noted = {t \in Slots : misc.slot[t].uboot_status = 2}
    BY <1>2 DEF noted
  <1>10. /\ status[active] = "proven" /\ status'[active] = "proven"
         /\ status'[Other(active)] = "empty"
    BY <1>1, <1>2, <1>8
  <1>11. Trusted = active /\ Trusted' = active
    BY <1>8, <1>10 DEF Trusted
  <1>12. (active \in noted' <=> active \in noted) /\ \A t \in noted' : t = active
    BY <1>2, <1>4, <1>6, <1>8, <1>9
  <1> QED BY <1>8, <1>10, <1>11, <1>12

\* The slot that the update engine gives up is neither trusted nor noted any more.
LEMMA BeginUpdateCopies ==
    ASSUME AllInv, CopiesInv, BeginUpdate
    PROVE  CopiesInv'
  <1>1. /\ pc = "kernel" /\ pc' = pc /\ flash' = flash /\ copies' = copies /\ idx' = idx
        /\ part' = [part EXCEPT ![Other(Running)] = Torn] /\ proven' = proven
        /\ misc.slot[Running].successful_boot /\ ~misc.firstboot
    BY DEF BeginUpdate, ram
  <1>2. /\ active \in Slots /\ Running = active
        /\ Other(active) \in Slots /\ Other(active) # active
        /\ \A t \in Slots : t # active => t = Other(active)
    BY <1>1, AtKernel
  <1>8. active' = active /\ ~Fresh'
    BY BeginSlots
  <1>10. /\ status[active] = "proven" /\ status'[active] = "proven"
         /\ status'[Other(active)] = "empty"
    BY BeginSlots
  <1>11. Trusted = active /\ Trusted' = active
    BY BeginSlots
  <1>12. (active \in noted' <=> active \in noted) /\ \A t \in noted' : t = active
    BY BeginSlots
  <1>13. part \in [Slots -> Images] /\ Held
    BY CopiesFacts DEF CopiesInv
  <1>14. part'[active] = part[active]
    BY <1>1, <1>2, <1>13
  <1> HIDE DEF active, status, noted, Trusted, Fresh
  <1>15. Held'
    <2>1. TrustedKept'
      BY <1>1, <1>11, <1>12, <1>13, <1>14 DEF Held, TrustedKept
    <2>2. FreshKept' /\ NotedIsProven'
      BY <1>8, <1>10, <1>12 DEF FreshKept, NotedIsProven
    <2>3. PartsGood'
      <3> SUFFICES ASSUME NEW t \in Slots, status'[t] # "empty"
                   PROVE  part'[t].good /\ part'[t].gen \in proven'
        BY DEF PartsGood
      <3>1. t = active
        BY <1>2, <1>10
      <3> QED BY <1>1, <1>2, <1>10, <1>13, <1>14, <3>1 DEF Held, PartsGood
    <2> QED BY <2>1, <2>2, <2>3 DEF Held
  <1>16. status'[active'] = "proven"
    BY <1>8, <1>10
  <1> QED BY <1>1, <1>15, <1>16, RunsOnCopies

\* The slots when an update is made active.
LEMMA StartSlots ==
    ASSUME AllInv, FinishUpdate
    PROVE  /\ active' = Other(active) /\ ~Fresh'
           /\ status[active] = "proven" /\ status'[active] = "proven"
           /\ status'[active'] = "trial"
           /\ Trusted = active /\ Trusted' = active
           /\ active \in noted' <=> active \in noted
           /\ \A s \in noted' : s = active
  <1>1. /\ pc = "kernel" /\ misc.slot[Running].successful_boot /\ ~misc.firstboot
    BY DEF FinishUpdate
  <1>3. /\ misc \in BootloaderControl /\ misc.magic = "vab"
        /\ active \in Slots /\ Running = active
        /\ Other(active) \in Slots /\ Other(active) # active
        /\ \A t \in Slots : t # active => t = Other(active)
        /\ active = ActiveIn(misc) /\ status = StatusIn(misc)
        /\ status \in [Slots -> Statuses]
        /\ \A t \in Slots : status[t] = "proven" <=> misc.slot[t].successful_boot
        /\ Migrated(misc) = misc /\ LoadedEnv \in Env /\ ~Asking(LoadedEnv)
    BY <1>1, AtKernel
  <1> DEFINE t == Other(ActiveIn(misc))
             mid == boot_info_set_active_slot(misc, t)
             new == [mid EXCEPT !.slot[t] = Unproved(mid.slot[t]),
                                !.roll_flag = FALSE, !.merge_flag = TRUE]
  <1>4. misc' = new
    BY <1>3 DEF FinishUpdate
  <1>5. t \in Slots /\ misc \in BootloaderControl /\ misc.magic = "vab"
    BY <1>3
  <1> HIDE DEF t
  <1>6. /\ new \in BootloaderControl /\ new.magic = "vab" /\ new.firstboot = misc.firstboot
        /\ ActiveIn(new) = t
        /\ StatusIn(new) = [StatusIn(misc) EXCEPT ![t] = "trial"]
        /\ \A s \in Slots : s # t => new.slot[s].tries_remaining = misc.slot[s].tries_remaining
    BY <1>5, MappedStarted
  <1>7. /\ new.slot[t].uboot_status = 0
        /\ \A s \in Slots : s # t => new.slot[s].uboot_status = misc.slot[s].uboot_status
    <2>1. \A s \in Slots : mid.slot[s].uboot_status = misc.slot[s].uboot_status
      BY <1>3, <1>5, NotedSetActive
    <2>2. mid \in BootloaderControl
      BY <1>3, <1>5, MappedSetActive
    <2> HIDE DEF mid
    <2>3. mid.slot[t] \in SlotMeta /\ mid.slot \in [Slots -> SlotMeta]
      BY <1>5, <2>2 DEF BootloaderControl
    <2> DEFINE d == Unproved(mid.slot[t])
    <2>4. d.uboot_status = 0
      BY <2>3 DEF Unproved, SlotMeta
    <2>5. new.slot[t] = d /\ \A s \in Slots : s # t => new.slot[s] = mid.slot[s]
      BY <1>5, <2>2, <2>3 DEF BootloaderControl
    <2> HIDE DEF d, new
    <2> QED BY <2>1, <2>4, <2>5
  <1> HIDE DEF new
  <1> USE DEF t
  <1>8. Migrated(new) = new
    BY <1>6, MappedValid
  <1>9. /\ active' = Other(active) /\ ~Fresh'
        /\ status' = [status EXCEPT ![Other(active)] = "trial"]
        /\ noted' = {s \in Slots : new.slot[s].uboot_status = 2}
    BY <1>1, <1>3, <1>4, <1>6, <1>8, NextMeta DEF noted
  <1>10. noted = {s \in Slots : misc.slot[s].uboot_status = 2}
    BY <1>3 DEF noted
  <1>11. /\ status[active] = "proven" /\ status'[active] = "proven"
         /\ status'[active'] = "trial"
    BY <1>1, <1>3, <1>9
  <1>12. Trusted = active /\ Trusted' = active
    BY <1>3, <1>9, <1>11, TypeFacts DEF Trusted, AllInv, IInv
  <1>13. (active \in noted' <=> active \in noted) /\ \A s \in noted' : s = active
    BY <1>3, <1>5, <1>7, <1>9, <1>10
  <1> QED BY <1>9, <1>11, <1>12, <1>13

\* An update that is made active leaves what it replaces trusted, and boot0 alone.
LEMMA FinishUpdateCopies ==
    ASSUME AllInv, CopiesInv, Gpt, ~BadImages, FinishUpdate
    PROVE  CopiesInv'
  <1>1. /\ pc = "kernel" /\ pc' = "rom" /\ mode' = "normal" /\ idx' = idx
        /\ copies' = copies /\ proven' = proven
        /\ misc.slot[Running].successful_boot /\ ~misc.firstboot
    BY DEF FinishUpdate, Leave
  <1>2. PICK img \in [gen : {gen + 1}, good : {TRUE}] :
            part' = [part EXCEPT ![Other(Running)] = img]
    <2>1. PICK good \in {TRUE, ~BadImages} :
              part' = [part EXCEPT ![Other(Running)] = [gen |-> gen + 1, good |-> good]]
      BY DEF FinishUpdate
    <2>2. good = TRUE
      BY <2>1
    <2> QED BY <2>1, <2>2
  <1>3. /\ active \in Slots /\ Running = active
        /\ Other(active) \in Slots /\ Other(active) # active
        /\ \A t \in Slots : t # active => t = Other(active)
        /\ LoadedEnv \in Env /\ ~Asking(LoadedEnv)
    BY <1>1, AtKernel
  <1>9. active' = Other(active) /\ ~Fresh'
    BY StartSlots
  <1>11. /\ status[active] = "proven" /\ status'[active] = "proven"
         /\ status'[active'] = "trial"
    BY StartSlots
  <1>12. Trusted = active /\ Trusted' = active
    BY StartSlots
  <1>13. (active \in noted' <=> active \in noted) /\ \A s \in noted' : s = active
    BY StartSlots
  <1>14. part \in [Slots -> Images] /\ Held /\ LoadedEnv = flash.val
    BY CopiesFacts DEF CopiesInv
  <1>15. part'[active] = part[active] /\ part'[Other(active)] = img /\ img.good
    BY <1>2, <1>3, <1>14
  <1>16. flash'.ok /\ flash'.val.write_boot /\ flash'.val.reboot_status # "reboot_next"
    <2> DEFINE e == [LoadedEnv EXCEPT !.write_boot = TRUE]
    <2>1. flash' = [ok |-> TRUE, val |-> e]
      BY DEF FinishUpdate
    <2>2. e.write_boot /\ e.reboot_status = LoadedEnv.reboot_status
      BY <1>3 DEF Env
    <2> HIDE DEF e
    <2>3. flash'.ok /\ flash'.val = e
      BY <2>1
    <2> QED BY <1>3, <2>2, <2>3 DEF Asking
  <1>17. Point' = "rom" /\ ~EnvJob' /\ ~BootJob'
    BY <1>1, NotWritingNext
  <1>18. StartedFrom
    BY DEF CopiesInv
  <1> HIDE DEF active, status, noted, Trusted, Fresh
  <1>19. Held'
    <2>1. TrustedKept'
      BY <1>1, <1>12, <1>13, <1>14, <1>15 DEF Held, TrustedKept
    <2>2. FreshKept' /\ NotedIsProven'
      BY <1>9, <1>11, <1>13 DEF FreshKept, NotedIsProven
    <2>3. PartsGood'
      <3> SUFFICES ASSUME NEW s \in Slots
                   PROVE  /\ status'[s] # "empty" => part'[s].good
                          /\ status'[s] = "proven" => part'[s].gen \in proven'
        BY DEF PartsGood
      <3>1. CASE s = active
        BY <1>1, <1>11, <1>14, <1>15, <3>1 DEF Held, PartsGood
      <3>2. CASE s # active
        BY <1>3, <1>9, <1>11, <1>15, <3>2
      <3> QED BY <3>1, <3>2
    <2> QED BY <2>1, <2>2, <2>3 DEF Held
  <1>20. TrialReady'
    BY <1>1, <1>16, <1>17 DEF TrialReady, Replaced
  <1>21. EnvTrue'
    BY <1>11, <1>16, <1>17 DEF EnvTrue, Sure, Opening
  <1>22. UpdateOrder' /\ CopyOrder' /\ RollbackOrder' /\ RescueOrder' /\ NeverBricked'
    BY <1>1, <1>17 DEF UpdateOrder, CopyOrder, RollbackOrder, RescueOrder, NeverBricked,
                       Rolling, Writing0
  <1>23. StartedFrom'
    BY <1>1, <1>17, <1>18 DEF StartedFrom, Opening, Quiet
  <1> QED BY <1>19, <1>20, <1>21, <1>22, <1>23 DEF CopiesInv

-----------------------------------------------------------------------------
(* The invariant holds.                                                    *)

\* A device leaves the factory with slot 0 active and proven, and nothing noted.
LEMMA FactorySlots ==
    ASSUME ~Legacy, Init
    PROVE  active = 0 /\ status[0] = "proven" /\ noted = {}
  <1>1. misc \in {Uninitialised, boot_info_reset}
    BY DEF Init
  <1>2. Migrated(misc) = boot_info_reset
    <2>1. CASE misc = boot_info_reset
      BY <2>1, ResetMeta, MappedValid
    <2>2. CASE misc = Uninitialised
      <3>1. misc.magic = "none"
        BY <2>2 DEF Uninitialised, boot_info_reset
      <3> QED BY <3>1, MigratedMeta
    <2> QED BY <1>1, <2>1, <2>2
  <1>3. Migrated(boot_info_reset) = boot_info_reset
    BY ResetMeta, MappedValid
  <1>4. active = ActiveIn(boot_info_reset) /\ status = StatusIn(boot_info_reset)
    BY <1>2, <1>3 DEF active, status, ActiveIn, StatusIn
  <1>5. active = 0 /\ status[0] = "proven"
    BY <1>4, ResetMeta
  <1>6. noted = {}
    <2>1. \A s \in Slots : boot_info_reset.slot[s].uboot_status # 2
      BY DEF boot_info_reset
    <2> QED BY <1>2, <2>1 DEF noted
  <1> QED BY <1>5, <1>6

LEMMA InitCopies ==
    ASSUME Gpt, ~Legacy, Init, IInv
    PROVE  CopiesInv
  <1>1. /\ flash = [ok |-> TRUE, val |-> DefaultEnv]
        /\ copies = [c \in Copies |-> IF Gpt /\ c = 0 THEN Torn ELSE FactoryImage]
        /\ part = [s \in Slots |-> FactoryImage]
        /\ pc = "rom" /\ mode = "normal" /\ job = Idle /\ proven = {1}
    BY DEF Init
  <1>5. active = 0 /\ status[0] = "proven"
    BY FactorySlots
  <1>6. noted = {}
    BY FactorySlots
  <1>7. /\ copies[0] = Torn /\ copies[1] = FactoryImage
        /\ \A s \in Slots : part[s] = FactoryImage
    BY <1>1 DEF Copies
  <1>8. FactoryImage.good /\ FactoryImage.gen \in proven
    BY <1>1 DEF FactoryImage
  <1>9. flash.ok /\ flash.val = DefaultEnv
    BY <1>1
  <1>10. Trusted = 0
    BY <1>5 DEF Trusted
  <1>11. Point = "rom" /\ ~EnvJob /\ ~BootJob
    BY <1>1, NotWriting
  <1> HIDE DEF active, status, noted, Trusted, Fresh
  <1>12. Held
    BY <1>6, <1>7, <1>8, <1>10 DEF Held, TrustedKept, FreshKept, NotedIsProven, PartsGood, Slots
  <1>13. TrialReady
    BY <1>5 DEF TrialReady
  <1>14. EnvTrue
    BY <1>9, <1>11 DEF EnvTrue, Sure, DefaultEnv, Opening
  <1>15. UpdateOrder /\ CopyOrder /\ RollbackOrder /\ RescueOrder /\ NeverBricked
    BY <1>1, <1>11 DEF UpdateOrder, CopyOrder, RollbackOrder, RescueOrder, NeverBricked,
                       Rolling, Writing0
  <1>16. StartedFrom
    BY <1>7, <1>11 DEF StartedFrom, Opening, Quiet
  <1> QED BY <1>12, <1>13, <1>14, <1>15, <1>16 DEF CopiesInv

LEMMA StepCopies == Benign /\ AllInv /\ CopiesInv /\ [Next]_vars => CopiesInv'
  <1> SUFFICES ASSUME Benign, AllInv, CopiesInv, [Next]_vars PROVE CopiesInv'
    OBVIOUS
  <1>1. Gpt /\ ~BadImages /\ ~TornEnv /\ ~PartFails /\ ~Legacy /\ ~LateCrash
    BY DEF Benign
  <1>2. CASE \/ BootRom \/ BootRomFails \/ aml_update_env
             \/ GetValidSlotBoots \/ GetValidSlotRollsBack \/ GetValidSlotResets
    BY <1>1, <1>2, PowerOnCopies, GetValidSlotCopies
  <1>3. CASE \/ rollback_reason \/ check_bootloader \/ set_mergestatus_cancel
             \/ write_bootloader_back \/ set_roll_flag \/ set_active_slot
             \/ boot0_env \/ RollbackEnv
    BY <1>1, <1>3, ReasonCopies, CommandCopies, SetActiveCopies, AskCopies
  <1>4. CASE amlsecurecheck \/ ab_update_rollback \/ FinishWrite
    BY <1>1, <1>4, SecureCheckCopies, UpdateOrRollbackCopies, FinishWriteCopies
  <1>5. CASE \/ check_boot1 \/ boot1_checked \/ write_boot0 \/ write_boot0_fails \/ update_gpt
             \/ backup_boot1 \/ boot1_backed_up
    BY <1>1, <1>5, NotedCopies, WriteCopies, OnCopies
  <1>6. CASE \/ update_tries \/ forfeit \/ forfeit_reason \/ tries_check
             \/ switch_bootmode \/ storeboot \/ check_ab
    BY <1>1, <1>6, CountCopies, ForfeitReasonCopies, TriesCheckCopies, OnCopies
  <1>7. CASE \/ Reboot \/ AndroidFails \/ UserReboot \/ RescueParty \/ Attended \/ PowerCut
    BY <1>1, <1>7, LeaveCopies
  <1>8. CASE MarkBootSuccessful \/ BeginUpdate \/ FinishUpdate
    BY <1>1, <1>8, MarkCopies, BeginUpdateCopies, FinishUpdateCopies
  <1>9. CASE UNCHANGED vars
    <2>1. /\ misc' = misc /\ osOk' = osOk /\ flash' = flash /\ pc' = pc /\ env' = env
          /\ mode' = mode /\ rb' = rb /\ job' = job /\ copies' = copies /\ part' = part
          /\ idx' = idx /\ proven' = proven
      BY <1>9 DEF vars, storage, ram, world
    <2>2. Unseen
      BY <2>1, UnseenMeta
    <2>3. SlotsSame /\ Held
      BY <2>1, <2>2, SameSlots DEF CopiesInv
    <2>4. /\ Point' = Point /\ EnvJob' = EnvJob /\ BootJob' = BootJob
          /\ active' = active /\ status' = status /\ noted' = noted /\ Trusted' = Trusted
      BY <2>1, <2>3, SameTrusted DEF Point, EnvJob, BootJob, SlotsSame
    <2>5. Held'
      BY <2>1, <2>3, HeldSame
    <2> HIDE DEF active, status, noted, Trusted, Fresh, Point, EnvJob, BootJob
    <2>6. TrialReady' /\ EnvTrue' /\ UpdateOrder'
      BY <2>1, <2>4 DEF CopiesInv, TrialReady, Replaced, EnvTrue, Sure, Same, UpdateOrder
    <2>7. CopyOrder' /\ RollbackOrder'
      BY <2>1, <2>4 DEF CopiesInv, CopyOrder, RollbackOrder, Asking
    <2>8. RescueOrder' /\ StartedFrom' /\ NeverBricked'
      BY <2>1, <2>4 DEF CopiesInv, RescueOrder, Asking, StartedFrom, NeverBricked
    <2> QED BY <2>5, <2>6, <2>7, <2>8 DEF CopiesInv
  <1>10. Next => \/ BootRom \/ BootRomFails \/ aml_update_env
                 \/ GetValidSlotBoots \/ GetValidSlotRollsBack \/ GetValidSlotResets
                 \/ rollback_reason \/ check_bootloader \/ set_mergestatus_cancel
                 \/ write_bootloader_back \/ set_roll_flag \/ set_active_slot
                 \/ boot0_env \/ RollbackEnv
                 \/ amlsecurecheck \/ ab_update_rollback \/ FinishWrite
                 \/ check_boot1 \/ boot1_checked \/ write_boot0 \/ write_boot0_fails
                 \/ update_gpt \/ backup_boot1 \/ boot1_backed_up
                 \/ update_tries \/ forfeit \/ forfeit_reason \/ tries_check
                 \/ switch_bootmode \/ storeboot \/ check_ab
                 \/ Reboot \/ AndroidFails \/ UserReboot \/ RescueParty \/ Attended \/ PowerCut
                 \/ MarkBootSuccessful \/ BeginUpdate \/ FinishUpdate
    BY Zenon DEF Next, UBoot, Outside, RollbackStep, UpdateStep, TriesStep
  <1> QED BY <1>2, <1>3, <1>4, <1>5, <1>6, <1>7, <1>8, <1>9, <1>10

-----------------------------------------------------------------------------
(* What the invariant shows.                                               *)

\* No write is in progress but where the program waits for one.
JobIdle == pc # "writing" => job.op = "idle"

LEMMA IdleStep == JobIdle /\ [Next]_vars => JobIdle'
  <1> SUFFICES ASSUME JobIdle, [Next]_vars, pc' # "writing" PROVE job'.op = "idle"
    BY DEF JobIdle
  <1>1. Idle.op = "idle"
    BY DEF Idle
  <1>2. ASSUME job' = Idle \/ (pc # "writing" /\ job' = job) PROVE job'.op = "idle"
    BY <1>1, <1>2 DEF JobIdle
  <1>3. CASE \/ BootRom \/ BootRomFails \/ aml_update_env
             \/ GetValidSlotBoots \/ GetValidSlotRollsBack \/ GetValidSlotResets
    BY <1>2, <1>3 DEF BootRom, BootRomFails, aml_update_env, GetValidSlotBoots,
       GetValidSlotRollsBack, GetValidSlotResets, saveenv, StartEnvWrite, ram
  <1>4. CASE RollbackStep \/ Reboot \/ amlsecurecheck \/ ab_update_rollback
    BY <1>2, <1>4 DEF RollbackStep, Reboot, amlsecurecheck, ab_update_rollback,
       rollback_reason, SaveUnread, check_bootloader, set_mergestatus_cancel, write_bootloader_back,
       set_roll_flag, set_active_slot, RollbackEnv, saveenv, update_env_part, StartEnvWrite,
       StartBootWrite, ram
  <1>5. CASE UpdateStep \/ TriesStep
    BY <1>2, <1>5 DEF UpdateStep, TriesStep, check_boot1, boot1_checked, write_boot0,
       write_boot0_fails, update_gpt, boot0_env, update_tries, forfeit_reason, SaveUnread, forfeit,
       backup_boot1, boot1_backed_up, tries_check, saveenv, update_env_part, StartEnvWrite,
       StartBootWrite, ram
  <1>6. CASE switch_bootmode \/ storeboot \/ check_ab \/ FinishWrite \/ Outside
    BY <1>2, <1>6 DEF switch_bootmode, storeboot, check_ab, FinishWrite, Outside,
       MarkBootSuccessful, BeginUpdate, FinishUpdate, AndroidFails, UserReboot, RescueParty,
       Attended, PowerCut, ram
  <1>7. CASE UNCHANGED vars
    BY <1>2, <1>7 DEF vars, ram
  <1> QED BY <1>3, <1>4, <1>5, <1>6, <1>7 DEF Next, UBoot

\* The writes of a copy: the functions that start one.
LEMMA CopyWriters ==
    ASSUME JobIdle, Next, pc # "writing", job'.op = "boot"
    PROVE  \/ check_bootloader \/ write_bootloader_back
           \/ check_boot1 \/ write_boot0 \/ backup_boot1
  <1>1. job' # job /\ job'.op # "idle" /\ job'.op # "env" /\ Idle.op = "idle"
    BY DEF JobIdle, Idle
  <1>2. ASSUME NEW e, NEW val, NEW next, StartEnvWrite(e, val, next) PROVE FALSE
    BY <1>1, <1>2 DEF StartEnvWrite, Idle
  <1>3. ASSUME NEW e, NEW val, NEW next, update_env_part(e, val, next) PROVE FALSE
    BY <1>2, <1>3 DEF update_env_part
  <1> SUFFICES ASSUME ~check_bootloader, ~write_bootloader_back, ~check_boot1,
                      ~write_boot0, ~backup_boot1
               PROVE  FALSE
    OBVIOUS
  <1>4. CASE \/ BootRom \/ BootRomFails \/ aml_update_env
             \/ GetValidSlotBoots \/ GetValidSlotRollsBack \/ GetValidSlotResets
    BY <1>1, <1>2, <1>4 DEF BootRom, BootRomFails, aml_update_env, GetValidSlotBoots,
       GetValidSlotRollsBack, GetValidSlotResets, saveenv, ram
  <1>5. CASE RollbackStep \/ Reboot \/ amlsecurecheck \/ ab_update_rollback
    BY <1>1, <1>2, <1>3, <1>5 DEF RollbackStep, Reboot, amlsecurecheck, ab_update_rollback,
       rollback_reason, SaveUnread, set_mergestatus_cancel, set_roll_flag, set_active_slot,
       RollbackEnv, saveenv, ram
  <1>6. CASE UpdateStep \/ TriesStep
    BY <1>1, <1>2, <1>3, <1>6 DEF UpdateStep, TriesStep, boot1_checked,
       write_boot0_fails, update_gpt, boot0_env, update_tries, forfeit_reason, SaveUnread, forfeit,
       boot1_backed_up, tries_check, saveenv, ram
  <1>7. CASE switch_bootmode \/ storeboot \/ check_ab \/ FinishWrite \/ Outside
    BY <1>1, <1>7 DEF switch_bootmode, storeboot, check_ab, FinishWrite, Outside,
       MarkBootSuccessful, BeginUpdate, FinishUpdate, AndroidFails, UserReboot,
       RescueParty, Attended, PowerCut, ram
  <1> QED BY <1>4, <1>5, <1>6, <1>7 DEF Next, UBoot

\* boot1 is written by check_uboot_state and update_tries only, from a boot0 that has
\* booted: check_bootloader finds it up to date, and a rollback writes boot0.
LEMMA BackupStep ==
    ASSUME AllInv, CopiesInv, Gpt, JobIdle, Next,
           pc # "writing", job'.op = "boot", job'.dst = 2
    PROVE  job'.img.gen \in proven
  <1>1. job' # job /\ job'.op # "idle" /\ job'.op # "env" /\ Idle.op = "idle"
    BY DEF JobIdle, Idle
  <1>2. ASSUME NEW c, NEW img, NEW next, StartBootWrite(c, img, next)
        PROVE  job'.dst = c /\ job'.img = img
    BY <1>2 DEF StartBootWrite, Idle
  <1>3. \/ check_bootloader \/ write_bootloader_back
        \/ check_boot1 \/ write_boot0 \/ backup_boot1
    BY CopyWriters
  <1>4. CASE check_bootloader
    <2>1. pc = "check"
      BY <1>4 DEF check_bootloader
    <2>2. rb.to = Trusted /\ copies[2] = part[Trusted]
      BY <2>1, RollingTo, RollingFacts DEF Rolling
    <2>3. job' = job
      BY <1>4, <2>2 DEF check_bootloader
    <2> QED BY <1>1, <2>3
  <1>5. CASE write_bootloader_back
    <2>1. pc = "copy" /\ StartBootWrite(rb.dst, copies[rb.src], Following)
      BY <1>5 DEF write_bootloader_back
    <2>2. rb.dst = 1
      BY <2>1, RollingFacts DEF Rolling
    <2> QED BY <1>2, <2>1, <2>2
  <1>6. CASE write_boot0
    BY <1>2, <1>6 DEF write_boot0
  <1>7. ASSUME job' # job, Trusted \notin noted,
               job'.img = copies[1]
        PROVE  job'.img.gen \in proven
    BY <1>7, CopiesFacts DEF CopiesInv, Held, TrustedKept
  <1>8. CASE check_boot1
    <2>1. pc = "check_boot1" /\ Point = pc /\ MustCheckBoot1
          /\ StartBootWrite(2, copies[1], "boot1_checked")
      BY <1>1, <1>8, NotWriting DEF check_boot1
    <2>2. Trusted = Other(active)
      BY <2>1, PendingTrusted DEF CopiesInv, UpdateOrder
    <2>3. Trusted \notin noted
      BY <2>1, <2>2, Musts DEF Early
    <2> QED BY <1>1, <1>2, <1>7, <2>1, <2>3
  <1>9. CASE backup_boot1
    <2>1. pc = "backup_boot1" /\ Point = pc /\ MustBackup
          /\ StartBootWrite(2, copies[1], "boot1_backed_up")
      BY <1>1, <1>9, NotWriting DEF backup_boot1
    <2>2. status[active] = "proven" /\ active \notin noted
      BY <2>1, Musts DEF Early
    <2>3. Trusted \notin noted
      BY <2>2 DEF Trusted
    <2> QED BY <1>1, <1>2, <1>7, <2>1, <2>3
  <1> QED BY <1>3, <1>4, <1>5, <1>6, <1>8, <1>9

\* The safety properties of the copies, and of a system that runs on them.
LEMMA CopiesSafe ==
    ASSUME AllInv, CopiesInv
    PROVE  NeverBricked /\ FallbackKept /\ Boot1UpToDate /\ RollbackToProven
  <1>1. NeverBricked
    BY DEF CopiesInv
  <1>2. copies[1] = part[Trusted] \/ copies[2] = part[Trusted]
    BY DEF CopiesInv, Held, TrustedKept
  <1>3. FallbackKept
    <2> SUFFICES ASSUME NEW s \in Slots, pc = "kernel", get_active_slot(misc) = s,
                        ~misc.slot[s].successful_boot
                 PROVE  \E c \in Copies : copies[c] = part[Other(s)]
      BY DEF FallbackKept
    <2>1. s = active /\ status[active] # "proven"
      BY AtKernel
    <2>2. Trusted = Other(s)
      BY <2>1 DEF Trusted
    <2> QED BY <1>2, <2>2 DEF Copies
  <1>4. Boot1UpToDate
    <2> SUFFICES ASSUME pc = "kernel", misc.slot[Running].uboot_status = 2
                 PROVE  copies[2] = part[Running]
      BY DEF Boot1UpToDate
    <2>1. Running = active /\ active \in noted
      BY AtKernel DEF noted
    <2>2. status[active] = "proven"
      BY <2>1 DEF CopiesInv, Held, NotedIsProven
    <2>3. Trusted = active
      BY <2>2 DEF Trusted
    <2> QED BY <2>1, <2>3 DEF CopiesInv, Held, TrustedKept
  <1>5. RollbackToProven
    <2> SUFFICES ASSUME pc = "active" PROVE misc.slot[rb.to].successful_boot
      BY DEF RollbackToProven
    <2>1. rb.to = Trusted /\ Trusted \in Slots /\ status[Trusted] = "proven"
      BY RollingTo, CopiesFacts
    <2>2. misc \in BootloaderControl /\ Point \notin Early
      BY TypeFacts, NotWriting DEF AllInv, IInv, Early
    <2>3. Migrated(misc) = misc
      BY <2>2, ValidMeta DEF AllInv, PromiseInv, IInv
    <2> QED BY <2>1, <2>2, <2>3, Mapped DEF status
  <1> QED BY <1>1, <1>3, <1>4, <1>5

LEMMA CopiesInductive ==
    ASSUME Benign
    PROVE  Spec => [](AllInv /\ CopiesInv /\ JobIdle)
  <1>1. Init => IInv /\ PromiseInv /\ CopiesInv /\ JobIdle
    BY InitIInv, InitPromise, InitCopies DEF Benign, JobIdle, Init, Idle
  <1>2. IInv /\ PromiseInv /\ CopiesInv /\ JobIdle /\ [Next]_vars
        => (IInv /\ PromiseInv /\ CopiesInv /\ JobIdle)'
    BY NextIInv, StepPromise, StepCopies, IdleStep DEF AllInv, Benign
  <1> QED BY <1>1, <1>2, PTL DEF Spec, AllInv

\* On a device with a GPT whose images the ROM accepts, whose partitions can be read and
\* whose env is saved at once, the ROM always finds a copy to start, whatever the number
\* of updates and of power cuts and wherever they fall.
THEOREM CopiesNeverBricked == Benign => (Spec => []NeverBricked)
  <1> SUFFICES ASSUME Benign PROVE Spec => []NeverBricked
    OBVIOUS
  <1>1. AllInv /\ CopiesInv => NeverBricked
    BY CopiesSafe
  <1> QED BY <1>1, CopiesInductive, PTL

\* Under the same assumptions the bootloader of the slot to go back to is kept while the
\* other one is on trial.
THEOREM CopiesFallbackKept == Benign => (Spec => []FallbackKept)
  <1> SUFFICES ASSUME Benign PROVE Spec => []FallbackKept
    OBVIOUS
  <1>1. AllInv /\ CopiesInv => FallbackKept
    BY CopiesSafe
  <1> QED BY <1>1, CopiesInductive, PTL

\* Under the same assumptions uboot_status 2 tells the truth about boot1.
THEOREM CopiesBoot1UpToDate == Benign => (Spec => []Boot1UpToDate)
  <1> SUFFICES ASSUME Benign PROVE Spec => []Boot1UpToDate
    OBVIOUS
  <1>1. AllInv /\ CopiesInv => Boot1UpToDate
    BY CopiesSafe
  <1> QED BY <1>1, CopiesInductive, PTL

\* Under the same assumptions every rollback, of whatever handler, makes a slot active
\* that has booted.
THEOREM CopiesRollbackToProven == Benign => (Spec => []RollbackToProven)
  <1> SUFFICES ASSUME Benign PROVE Spec => []RollbackToProven
    OBVIOUS
  <1>1. AllInv /\ CopiesInv => RollbackToProven
    BY CopiesSafe
  <1> QED BY <1>1, CopiesInductive, PTL

\* Under the same assumptions boot1 is only ever written with a bootloader that has booted.
THEOREM CopiesBackupProven == Benign => (Spec => BackupProven)
  <1> SUFFICES ASSUME Benign PROVE Spec => BackupProven
    OBVIOUS
  <1>1. AllInv /\ CopiesInv /\ JobIdle /\ [Next]_vars
        => [(pc # "writing" /\ job'.op = "boot" /\ job'.dst = 2)
              => job'.img.gen \in proven]_vars
    BY BackupStep DEF Benign
  <1> QED BY <1>1, CopiesInductive, PTL DEF Spec, BackupProven
-----------------------------------------------------------------------------
(* Without a GPT: boot0 and boot1 are the HAL's, one per slot.             *)

\* U-Boot writes the user area only, and never an update: the HAL has done that.
Unreached == {"check_boot1", "boot1_checked", "write_boot0", "update_gpt", "boot0_env",
              "bricked"}
Spares == /\ copies[1].good /\ copies[2].good
          /\ ~env.write_boot /\ ~flash.val.write_boot /\ ~job.val.write_boot
          /\ rb.kind # "update" /\ rb.dst = 0
          /\ job.op = "boot" => job.dst = 0
          /\ Point \notin Unreached

LEMMA SparesMove ==
    ASSUME Spares, UNCHANGED <<flash, copies, job>>, ~env'.write_boot,
           rb' = rb \/ (rb'.kind # "update" /\ rb'.dst = 0),
           pc' \notin Unreached \cup {"writing"}
    PROVE  Spares'
  <1>1. Point' = pc'
    BY DEF Point
  <1> QED BY <1>1 DEF Spares

LEMMA SparesSave ==
    ASSUME Spares, TypeOK, NEW e, NEW val, NEW next,
           StartEnvWrite(e, val, next) \/ update_env_part(e, val, next),
           ~e.write_boot, ~val.write_boot, rb' = rb, next \notin Unreached
    PROVE  Spares'
  <1>1. PICK v : StartEnvWrite(e, v, next) /\ ~v.write_boot
    BY DEF update_env_part
  <1>2. /\ pc' = "writing" /\ env' = e /\ copies' = copies
        /\ job'.op = "env" /\ job'.then = next /\ job'.val = v
    BY <1>1 DEF StartEnvWrite, Idle
  <1>3. flash'.val = flash.val
    BY <1>1, TypeFacts DEF StartEnvWrite
  <1> QED BY <1>1, <1>2, <1>3 DEF Spares, Point

LEMMA SparesCopy ==
    ASSUME Spares, TypeOK, NEW img, NEW next, StartBootWrite(0, img, next),
           rb' = rb, next \notin Unreached
    PROVE  Spares'
  <1>1. /\ pc' = "writing" /\ flash' = flash /\ env' = env
        /\ job'.op = "boot" /\ job'.dst = 0 /\ job'.then = next /\ ~job'.val.write_boot
        /\ copies' = [copies EXCEPT ![0] = Torn]
    BY DEF StartBootWrite, Idle, DefaultEnv
  <1>2. copies'[1] = copies[1] /\ copies'[2] = copies[2]
    BY <1>1 DEF TypeOK, Copies
  <1> QED BY <1>1, <1>2 DEF Spares, Point

\* A plan made without a GPT restores the user area.
LEMMA SparesPlan ==
    ASSUME ~Gpt, NEW kind, NEW s
    PROVE  /\ RollbackFrom(kind, s).kind = kind /\ RollbackFrom(kind, s).dst = 0
           /\ RollbackOnMismatch.kind = "mismatch" /\ RollbackOnMismatch.dst = 0
  BY DEF RollbackFrom, RollbackOnMismatch

LEMMA SparesFollow ==
    ASSUME IInv, Spares, pc \in {"reason", "check", "cancel", "copy", "flag", "active"}
    PROVE  Following \notin Unreached \cup {"writing"}
  BY Ways DEF Spares, Unreached

LEMMA SparesPowerOn ==
    ASSUME IInv, Spares, \/ BootRom \/ BootRomFails \/ aml_update_env
                         \/ GetValidSlotBoots \/ GetValidSlotRollsBack \/ GetValidSlotResets,
           ~Gpt
    PROVE  Spares'
  <1>1. TypeOK /\ env \in Env /\ LoadedEnv \in Env
    BY TypeFacts DEF IInv
  <1>2. CASE BootRom
    <2>1. ~LoadedEnv.write_boot
      BY DEF LoadedEnv, DefaultEnv, Spares
    <2>2. /\ UNCHANGED <<flash, copies, job>> /\ env' = LoadedEnv /\ rb' = rb
          /\ pc' = "aml_update_env"
      BY <1>2 DEF BootRom, storage
    <2> QED BY <2>1, <2>2, SparesMove DEF Unreached
  <1>3. CASE BootRomFails
    BY <1>3 DEF BootRomFails, Spares, Copies
  <1>4. CASE aml_update_env
    <2>1. rb' = rb
      BY <1>4 DEF aml_update_env
    <2>2. CASE env.update_env /\ ~env.write_boot
      <3> DEFINE e == defenv_reserv(env)
      <3>1. StartEnvWrite(e, e, "get_valid_slot")
        BY <1>4, <2>2 DEF aml_update_env, saveenv
      <3>2. ~e.write_boot
        BY DEF defenv_reserv, DefaultEnv
      <3> HIDE DEF e
      <3> QED BY <1>1, <2>1, <3>1, <3>2, SparesSave DEF Unreached
    <2>3. CASE ~(env.update_env /\ ~env.write_boot)
      <3>1. pc' = "get_valid_slot" /\ UNCHANGED <<flash, copies, env, job>>
        BY <1>4, <2>3 DEF aml_update_env
      <3> QED BY <2>1, <3>1, SparesMove DEF Unreached, Spares
    <2> QED BY <2>2, <2>3
  <1>5. CASE GetValidSlotBoots
    <2>1. /\ UNCHANGED <<flash, copies, job>> /\ rb' = rb
          /\ pc' \in {"amlsecurecheck", "switch_bootmode"}
          /\ \E s : env' = [env EXCEPT !.slot_suffixes = s]
      BY <1>5 DEF GetValidSlotBoots, boot_info_save, AfterGetValidSlot
    <2>2. ~env'.write_boot
      BY <1>1, <2>1, AsksSame DEF Spares
    <2> QED BY <2>1, <2>2, SparesMove DEF Unreached
  <1>6. CASE GetValidSlotRollsBack
    <2>1. /\ UNCHANGED <<flash, copies, job, env>> /\ pc' = "reason"
          /\ \E s : rb' = RollbackFrom("valid_slot", s)
      BY <1>6 DEF GetValidSlotRollsBack, boot_info_save
    <2>2. rb'.kind # "update" /\ rb'.dst = 0
      BY <2>1, SparesPlan
    <2> QED BY <2>1, <2>2, SparesMove DEF Unreached, Spares
  <1>7. CASE GetValidSlotResets
    <2>1. /\ UNCHANGED <<flash, copies, job, env, rb>>
          /\ pc' \in {"fastboot", "amlsecurecheck", "switch_bootmode"}
      BY <1>7 DEF GetValidSlotResets, boot_info_save, AfterGetValidSlot, ram
    <2> QED BY <2>1, SparesMove DEF Unreached, Spares
  <1> QED BY <1>2, <1>3, <1>4, <1>5, <1>6, <1>7

LEMMA SparesRollback ==
    ASSUME IInv, Spares, RollbackStep \/ Reboot, ~Gpt
    PROVE  Spares'
  <1>1. TypeOK /\ env \in Env
    BY TypeFacts DEF IInv
  <1>2. CASE rollback_reason
    <2>1. rb' = rb /\ Following \notin Unreached \cup {"writing"}
      BY <1>2, SparesFollow DEF rollback_reason
    <2>2. CASE update_env_part(env, flash.val, Following)
      BY <1>1, <2>1, <2>2, SparesSave DEF Spares
    <2>3. CASE pc' = Following /\ UNCHANGED <<flash, copies, env, job>>
      BY <2>1, <2>3, SparesMove DEF Spares
    <2> QED BY <1>2, <2>2, <2>3 DEF rollback_reason, SaveUnread
  <1>3. CASE check_bootloader \/ set_mergestatus_cancel \/ set_roll_flag
    <2>1. /\ rb' = rb /\ pc' = Following /\ UNCHANGED <<flash, copies, env, job>>
          /\ pc \in {"check", "cancel", "flag"}
      BY <1>3 DEF check_bootloader, set_mergestatus_cancel, set_roll_flag, boot_info_save,
                  storage, ram
    <2> QED BY <2>1, SparesFollow, SparesMove DEF Spares
  <1>4. CASE write_bootloader_back
    <2>1. pc = "copy" /\ rb' = rb /\ StartBootWrite(rb.dst, copies[rb.src], Following)
      BY <1>4 DEF write_bootloader_back
    <2>2. rb.dst = 0
      BY DEF Spares
    <2> QED BY <1>1, <2>1, <2>2, SparesFollow, SparesCopy
  <1>5. CASE set_active_slot
    <2> DEFINE s == rb.to
    <2>1. /\ pc = "active" /\ rb' = rb /\ pc' = Following /\ UNCHANGED <<flash, copies, job>>
          /\ \/ env' = env
             \/ env' = [env EXCEPT !.slot_suffixes = s]
      BY <1>5 DEF set_active_slot, boot_info_save
    <2>2. ~env'.write_boot
      <3> HIDE DEF s
      <3>1. CASE env' = env
        BY <3>1 DEF Spares
      <3>2. CASE env' = [env EXCEPT !.slot_suffixes = s]
        BY <1>1, <3>2, AsksSame DEF Spares
      <3> QED BY <2>1, <3>1, <3>2
    <2>3. Following \notin Unreached \cup {"writing"}
      BY <2>1, SparesFollow
    <2> HIDE DEF s
    <2> QED BY <2>1, <2>2, <2>3, SparesMove
  <1>6. CASE RollbackEnv
    <2> DEFINE e == [env EXCEPT !.update_env = TRUE, !.reboot_status = "reboot_next",
                                !.expect_index = rb.dst]
    <2>1. StartEnvWrite(e, e, "reboot") /\ rb' = rb
      BY <1>6 DEF RollbackEnv, saveenv
    <2>2. ~e.write_boot
      BY <1>1 DEF Spares, Env
    <2> HIDE DEF e
    <2> QED BY <1>1, <2>1, <2>2, SparesSave DEF Unreached
  <1>7. CASE Reboot
    BY <1>7, SparesMove DEF Reboot, Leave, Unreached, storage, DefaultEnv, NoRollback
  <1> QED BY <1>2, <1>3, <1>4, <1>5, <1>6, <1>7 DEF RollbackStep

LEMMA SparesCheck ==
    ASSUME IInv, Spares, amlsecurecheck \/ ab_update_rollback \/ forfeit_reason, ~Gpt
    PROVE  Spares'
  <1>1. TypeOK /\ env \in Env /\ flash.val \in Env /\ ~env.write_boot /\ ~flash.val.write_boot
    BY TypeFacts DEF IInv, Spares
  <1>2. CASE amlsecurecheck
    <2> DEFINE e == [env EXCEPT !.bootloaderIndex = idx]
               v == [flash.val EXCEPT !.bootloaderIndex = idx]
    <2>1. ~e.write_boot /\ ~v.write_boot
      BY <1>1, AsksSame
    <2>2. \/ /\ env' = e /\ pc' = "ab_update_rollback" /\ UNCHANGED <<flash, copies, job>>
          \/ update_env_part(e, v, "ab_update_rollback")
      BY <1>2 DEF amlsecurecheck
    <2>3. rb' = rb
      BY <1>2 DEF amlsecurecheck
    <2> HIDE DEF e, v
    <2>4. CASE update_env_part(e, v, "ab_update_rollback")
      BY <1>1, <2>1, <2>3, <2>4, SparesSave DEF Unreached
    <2>5. CASE env' = e /\ pc' = "ab_update_rollback" /\ UNCHANGED <<flash, copies, job>>
      BY <2>1, <2>3, <2>5, SparesMove DEF Unreached
    <2> QED BY <2>2, <2>4, <2>5
  <1>3. CASE ab_update_rollback
    <2> DEFINE e == [env EXCEPT !.reboot_status = "reboot_init"]
               v == [flash.val EXCEPT !.reboot_status = "reboot_init"]
    <2>1. ~e.write_boot /\ ~v.write_boot
      BY <1>1 DEF Env
    <2>2. \/ /\ UNCHANGED <<flash, copies, env, job>>
             /\ pc' \in {"reason", "copy", "update_tries"}
             /\ \/ rb' = rb \/ rb' = RollbackFrom("rescueparty", CurrentSlot)
                \/ rb' = RollbackOnMismatch
          \/ \E next \in AfterExpectedCopy : update_env_part(e, v, next) /\ rb' = rb
      BY <1>1, <1>3 DEF ab_update_rollback
    <2> HIDE DEF e, v
    <2>3. CASE \E next \in AfterExpectedCopy : update_env_part(e, v, next) /\ rb' = rb
      <3>1. PICK next \in AfterExpectedCopy : update_env_part(e, v, next) /\ rb' = rb
        BY <2>3
      <3>2. next \in {"update_tries", "reboot"}
        BY DEF AfterExpectedCopy
      <3> QED BY <1>1, <2>1, <3>1, <3>2, SparesSave DEF Unreached
    <2>4. CASE /\ UNCHANGED <<flash, copies, env, job>>
               /\ pc' \in {"reason", "copy", "update_tries"}
               /\ \/ rb' = rb \/ rb' = RollbackFrom("rescueparty", CurrentSlot)
                  \/ rb' = RollbackOnMismatch
      <3>1. rb' = rb \/ (rb'.kind # "update" /\ rb'.dst = 0)
        BY <2>4, SparesPlan
      <3> QED BY <1>1, <2>4, <3>1, SparesMove DEF Unreached
    <2> QED BY <2>2, <2>3, <2>4
  <1>4. CASE forfeit_reason
    <2> DEFINE e == IF NoSpace THEN [env EXCEPT !.insufficient_data = FALSE] ELSE env
               v == IF NoSpace THEN [flash.val EXCEPT !.insufficient_data = FALSE] ELSE flash.val
    <2>1. ~e.write_boot /\ ~v.write_boot
      BY <1>1, AsksSame
    <2>2. /\ rb' = rb
          /\ \/ update_env_part(e, v, "forfeit")
             \/ pc' = "forfeit" /\ UNCHANGED <<flash, copies, env, job>>
      BY <1>4 DEF forfeit_reason, SaveUnread
    <2> HIDE DEF e, v
    <2>3. CASE update_env_part(e, v, "forfeit")
      BY <1>1, <2>1, <2>2, <2>3, SparesSave DEF Unreached
    <2>4. CASE pc' = "forfeit" /\ UNCHANGED <<flash, copies, env, job>>
      BY <1>1, <2>2, <2>4, SparesMove DEF Unreached
    <2> QED BY <2>2, <2>3, <2>4
  <1> QED BY <1>2, <1>3, <1>4

LEMMA SparesPreboot ==
    ASSUME IInv, Spares, ~Gpt,
           \/ UpdateStep
           \/ update_tries \/ forfeit \/ backup_boot1 \/ boot1_backed_up \/ tries_check
           \/ switch_bootmode \/ storeboot \/ check_ab
    PROVE  Spares'
  <1>1. ~UpdateStep
    <2>1. pc # "writing" => pc \notin Unreached
      BY DEF Spares, Point
    <2> QED BY <2>1 DEF UpdateStep, check_boot1, boot1_checked, write_boot0, write_boot0_fails,
                        update_gpt, boot0_env, Unreached
  <1>2. ~MustBackup
    BY DEF MustBackup
  <1>3. /\ UNCHANGED <<flash, copies, env, job, rb>>
        /\ pc' \notin Unreached \cup {"writing"}
    BY <1>1, <1>2 DEF update_tries, forfeit, backup_boot1, boot1_backed_up, tries_check,
       switch_bootmode, storeboot, check_ab, boot_info_save, Unreached, storage, ram
  <1> QED BY <1>3, SparesMove DEF Spares

LEMMA SparesFinish ==
    ASSUME IInv, Spares, FinishWrite
    PROVE  Spares'
  <1>1. /\ pc = "writing" /\ pc' = job.then /\ job.then # "writing" /\ env' = env /\ rb' = rb
        /\ job' = Idle /\ TypeOK
    BY DEF FinishWrite, IInv, PlanOK
  <1>2. Point' = Point
    BY <1>1 DEF Point
  <1>3. job'.op = "idle" /\ ~job'.val.write_boot
    BY <1>1 DEF Idle, DefaultEnv
  <1>5. CASE job.op = "boot"
    <2>1. job.dst = 0 /\ flash' = flash /\ copies' = [copies EXCEPT ![job.dst] = job.img]
      BY <1>5 DEF Spares, FinishWrite
    <2>2. copies'[1] = copies[1] /\ copies'[2] = copies[2]
      BY <1>1, <2>1 DEF TypeOK, Copies
    <2> QED BY <1>1, <1>2, <1>3, <2>1, <2>2 DEF Spares
  <1>6. CASE job.op # "boot"
    <2>1. flash' = [ok |-> TRUE, val |-> job.val] /\ copies' = copies
      BY <1>6 DEF FinishWrite
    <2>2. flash'.val = job.val
      BY <2>1
    <2> QED BY <1>1, <1>2, <1>3, <2>1, <2>2 DEF Spares
  <1> QED BY <1>5, <1>6

LEMMA SparesOutside ==
    ASSUME IInv, Spares, ~Gpt, ~BadImages, Outside
    PROVE  Spares'
  <1>1. TypeOK /\ LoadedEnv \in Env /\ ~LoadedEnv.write_boot /\ ~DefaultEnv.write_boot
    BY TypeFacts DEF IInv, LoadedEnv, DefaultEnv, Spares
  <1>2. CASE MarkBootSuccessful \/ BeginUpdate
    BY <1>2, SparesMove DEF MarkBootSuccessful, BeginUpdate, Spares, Unreached, ram
  <1>3. CASE FinishUpdate
    <2> DEFINE e == [LoadedEnv EXCEPT !.update_env = TRUE, !.reboot_status = "reboot_next",
                                      !.expect_index = 0]
               t == Other(Running)
    <2>1. /\ flash' = [ok |-> TRUE, val |-> e] /\ env' = DefaultEnv /\ pc' = "rom"
          /\ rb' = rb /\ job' = job
          /\ \E img : img.good /\ copies' = [copies EXCEPT ![0] = img, ![1 + t] = img]
      <3>1. PICK good \in {TRUE, ~BadImages} :
              copies' = [copies EXCEPT ![0] = [gen |-> gen + 1, good |-> good],
                                       ![1 + t] = [gen |-> gen + 1, good |-> good]]
        BY <1>3 DEF FinishUpdate
      <3>2. [gen |-> gen + 1, good |-> good].good
        BY <3>1
      <3> QED BY <1>3, <3>1, <3>2 DEF FinishUpdate, Leave
    <2>2. ~e.write_boot
      BY <1>1 DEF Env
    <2> HIDE DEF e, t
    <2>3. flash'.val = e
      BY <2>1
    <2>4. copies'[1].good /\ copies'[2].good
      BY <1>1, <2>1 DEF TypeOK, Copies, Spares
    <2>5. Point' = "rom"
      BY <2>1 DEF Point
    <2> QED BY <1>1, <2>1, <2>2, <2>3, <2>4, <2>5 DEF Spares, Unreached
  <1>4. CASE AndroidFails
    <2>1. /\ env' = DefaultEnv /\ pc' = "rom" /\ rb' = rb /\ job' = job /\ copies' = copies
          /\ \/ flash' = flash
             \/ flash' = [ok |-> TRUE, val |-> [LoadedEnv EXCEPT !.insufficient_data = TRUE]]
      BY <1>4 DEF AndroidFails, Leave
    <2>2. ~flash'.val.write_boot
      <3>1. CASE flash' = flash
        BY <3>1 DEF Spares
      <3>2. CASE flash' = [ok |-> TRUE, val |-> [LoadedEnv EXCEPT !.insufficient_data = TRUE]]
        <4>1. flash'.val = [LoadedEnv EXCEPT !.insufficient_data = TRUE]
          BY <3>2
        <4> QED BY <1>1, <4>1, AsksSame
      <3> QED BY <2>1, <3>1, <3>2
    <2>3. Point' = "rom"
      BY <2>1 DEF Point
    <2> QED BY <1>1, <2>1, <2>2, <2>3 DEF Spares, Unreached
  <1>5. CASE UserReboot \/ RescueParty \/ Attended
    BY <1>1, <1>5, SparesMove DEF UserReboot, RescueParty, Attended, Leave, Unreached, storage
  <1>6. CASE PowerCut
    <2>1. /\ env' = DefaultEnv /\ pc' = "rom" /\ rb' = NoRollback /\ job' = Idle
          /\ copies' = copies /\ flash' = flash
      BY <1>6 DEF PowerCut, Leave, storage
    <2>2. Point' = "rom"
      BY <2>1 DEF Point
    <2> QED BY <1>1, <2>1, <2>2 DEF Spares, Unreached, NoRollback, Idle
  <1> QED BY <1>2, <1>3, <1>4, <1>5, <1>6 DEF Outside

LEMMA InitSpares ==
    ASSUME ~Gpt, Init
    PROVE  Spares
  <1>1. /\ copies[1] = FactoryImage /\ copies[2] = FactoryImage
        /\ flash.val = DefaultEnv /\ env = DefaultEnv /\ job = Idle /\ rb = NoRollback
        /\ pc = "rom"
    BY DEF Init, Copies
  <1> QED BY <1>1 DEF Spares, FactoryImage, DefaultEnv, Idle, NoRollback, Point,
                      Unreached

LEMMA StepSpares ==
    ASSUME ~Gpt, ~BadImages, IInv, Spares, [Next]_vars
    PROVE  Spares'
  <1>1. CASE UNCHANGED vars
    BY <1>1 DEF vars, storage, ram, Spares, Point
  <1>2. CASE RollbackStep \/ Reboot \/ FinishWrite
    BY <1>2, SparesRollback, SparesFinish
  <1>3. CASE amlsecurecheck \/ ab_update_rollback \/ forfeit_reason
    BY <1>3, SparesCheck
  <1>4. CASE \/ UpdateStep
             \/ update_tries \/ forfeit \/ backup_boot1 \/ boot1_backed_up \/ tries_check
             \/ switch_bootmode \/ storeboot \/ check_ab
    BY <1>4, SparesPreboot
  <1>5. CASE \/ BootRom \/ BootRomFails \/ aml_update_env
             \/ GetValidSlotBoots \/ GetValidSlotRollsBack \/ GetValidSlotResets
    BY <1>5, SparesPowerOn
  <1>6. CASE Outside
    BY <1>6, SparesOutside
  <1> QED BY <1>1, <1>2, <1>3, <1>4, <1>5, <1>6 DEF Next, UBoot, TriesStep

\* On a device without a GPT whose images the ROM accepts, the ROM always finds a copy to
\* start, whatever else fails: the power cuts, an env half written, the partitions.
THEOREM SparesNeverBricked == ~Gpt /\ ~BadImages => (Spec => []NeverBricked)
  <1> SUFFICES ASSUME ~Gpt, ~BadImages PROVE Spec => []NeverBricked
    OBVIOUS
  <1>1. Init => IInv /\ Spares
    BY InitIInv, InitSpares
  <1>2. IInv /\ Spares /\ [Next]_vars => (IInv /\ Spares)'
    BY NextIInv, StepSpares
  <1>3. Spares => NeverBricked
    BY DEF Spares, NeverBricked, Point, Unreached
  <1> QED BY <1>1, <1>2, <1>3, PTL DEF Spec

-----------------------------------------------------------------------------
(* The first boots, counted while no power cut comes between the decrement *)
(* and its test.                                                           *)

\* A device that was never updated waits for no merge, and no env reports that a merge
\* found no space: update_tries does not leave before tries_check tests the counter.
Roomy == ~env.insufficient_data /\ ~flash.val.insufficient_data /\ ~job.val.insufficient_data
NoneWaiting == Fresh => Roomy /\ ~Migrated(misc).merge_flag

\* The counter is zero only between its decrement and the test for zero.
Counting == {"backup_boot1", "boot1_backed_up", "tries_check"}
Bounded == misc.boot_tries_remaining <= BOOT_ATTEMPTS
Counted == Fresh /\ Point \notin Counting => Migrated(misc).boot_tries_remaining # 0

TriesInv == NoneWaiting /\ (crashes = 0 => Bounded /\ Counted)

\* What an env says of the space, after each change of it.
LEMMA SpaceSaid ==
    ASSUME NEW e \in Env
    PROVE  /\ \A s : [e EXCEPT !.slot_suffixes = s].insufficient_data = e.insufficient_data
           /\ \A i : [e EXCEPT !.bootloaderIndex = i].insufficient_data = e.insufficient_data
           /\ \A r : [e EXCEPT !.reboot_status = r].insufficient_data = e.insufficient_data
           /\ ~[e EXCEPT !.insufficient_data = FALSE].insufficient_data
           /\ [e EXCEPT !.write_boot = TRUE].insufficient_data = e.insufficient_data
           /\ Boot0Written(e).insufficient_data = e.insufficient_data
           /\ \A d : [e EXCEPT !.update_env = TRUE, !.reboot_status = "reboot_next",
                               !.expect_index = d].insufficient_data = e.insufficient_data
           /\ ~defenv_reserv(e).insufficient_data /\ ~DefaultEnv.insufficient_data
  <1>1. \A s : [e EXCEPT !.slot_suffixes = s].insufficient_data = e.insufficient_data
    BY DEF Env
  <1>2. \A i : [e EXCEPT !.bootloaderIndex = i].insufficient_data = e.insufficient_data
    BY DEF Env
  <1>3. \A r : [e EXCEPT !.reboot_status = r].insufficient_data = e.insufficient_data
    BY DEF Env
  <1>4. /\ ~[e EXCEPT !.insufficient_data = FALSE].insufficient_data
        /\ [e EXCEPT !.write_boot = TRUE].insufficient_data = e.insufficient_data
        /\ Boot0Written(e).insufficient_data = e.insufficient_data
    BY DEF Env, Boot0Written
  <1>5. \A d : [e EXCEPT !.update_env = TRUE, !.reboot_status = "reboot_next",
                         !.expect_index = d].insufficient_data = e.insufficient_data
    BY DEF Env
  <1>6. ~defenv_reserv(e).insufficient_data /\ ~DefaultEnv.insufficient_data
    BY DEF defenv_reserv, DefaultEnv
  <1> QED BY <1>1, <1>2, <1>3, <1>4, <1>5, <1>6

\* A write of the env, or of a copy, that says nothing of the space.
LEMMA RoomyWrites ==
    ASSUME TypeOK, Roomy
    PROVE  /\ \A e, val, next :
                StartEnvWrite(e, val, next)
                => (~e.insufficient_data /\ ~val.insufficient_data => Roomy')
           /\ \A e, val, next :
                update_env_part(e, val, next)
                => (~e.insufficient_data /\ ~val.insufficient_data => Roomy')
           /\ \A c, img, next : StartBootWrite(c, img, next) => Roomy'
  <1>1. ~Idle.val.insufficient_data
    BY DEF Idle, DefaultEnv
  <1>2. ASSUME NEW e, NEW val, NEW next, StartEnvWrite(e, val, next),
               ~e.insufficient_data, ~val.insufficient_data
        PROVE  Roomy'
    <2>1. env' = e /\ job'.val = val
      BY <1>2 DEF StartEnvWrite, Idle
    <2>2. flash'.val = flash.val
      BY <1>2, TypeFacts DEF StartEnvWrite
    <2> QED BY <1>2, <2>1, <2>2 DEF Roomy
  <1>3. ASSUME NEW e, NEW val, NEW next, update_env_part(e, val, next),
               ~e.insufficient_data, ~val.insufficient_data
        PROVE  Roomy'
    <2> DEFINE v == IF flash.ok THEN val ELSE e
    <2>1. StartEnvWrite(e, v, next)
      BY <1>3 DEF update_env_part
    <2>2. ~v.insufficient_data
      BY <1>3
    <2> HIDE DEF v
    <2> QED BY <1>2, <1>3, <2>1, <2>2
  <1>4. ASSUME NEW c, NEW img, NEW next, StartBootWrite(c, img, next)
        PROVE  Roomy'
    <2>1. env' = env /\ flash' = flash /\ job'.val = Idle.val
      BY <1>4 DEF StartBootWrite, Idle
    <2> QED BY <1>1, <2>1 DEF Roomy
  <1> QED BY <1>2, <1>3, <1>4

\* A step that leaves every env alone.
LEMMA RoomyStays == Roomy /\ env' = env /\ flash' = flash /\ job' = job => Roomy'
  BY DEF Roomy

\* No step of U-Boot makes an env report that there is no space.
LEMMA RoomyUBoot ==
    ASSUME IInv, Roomy, UBoot
    PROVE  Roomy'
  <1>1. TypeOK /\ env \in Env /\ flash.val \in Env /\ LoadedEnv \in Env
    BY TypeFacts DEF IInv
  <1>2. ~env.insufficient_data /\ ~flash.val.insufficient_data /\ ~LoadedEnv.insufficient_data
        /\ ~DefaultEnv.insufficient_data
    BY DEF Roomy, LoadedEnv, DefaultEnv
  <1>3. CASE BootRom \/ BootRomFails \/ Reboot
    <2>1. env' \in {env, LoadedEnv, DefaultEnv} /\ flash' = flash /\ job' = job
      BY <1>3 DEF BootRom, BootRomFails, Reboot, storage, ram
    <2> QED BY <1>2, <2>1 DEF Roomy
  <1>4. CASE GetValidSlotBoots \/ set_active_slot
    <2>1. flash' = flash /\ job' = job
          /\ \E s : env' \in {env, [env EXCEPT !.slot_suffixes = s]}
      BY <1>4 DEF GetValidSlotBoots, set_active_slot
    <2>2. PICK s : env' \in {env, [env EXCEPT !.slot_suffixes = s]}
      BY <2>1
    <2> DEFINE e == [env EXCEPT !.slot_suffixes = s]
    <2>3. e.insufficient_data = env.insufficient_data
      BY <1>1 DEF Env
    <2>4. env' \in {env, e}
      BY <2>2
    <2> HIDE DEF e
    <2>5. ~env'.insufficient_data
      BY <1>2, <2>3, <2>4
    <2> QED BY <2>1, <2>5 DEF Roomy
  <1>5. CASE aml_update_env
    <2>1. \/ StartEnvWrite(defenv_reserv(env), defenv_reserv(env), "get_valid_slot")
          \/ env' = env /\ flash' = flash /\ job' = job
      BY <1>5 DEF aml_update_env, saveenv
    <2> QED BY <1>1, <2>1, RoomyWrites, RoomyStays, SpaceSaid
  <1>6. CASE \/ GetValidSlotRollsBack \/ GetValidSlotResets
             \/ set_mergestatus_cancel \/ set_roll_flag
             \/ boot1_checked \/ write_boot0_fails \/ update_gpt
             \/ update_tries \/ forfeit \/ boot1_backed_up \/ tries_check
             \/ switch_bootmode \/ storeboot \/ check_ab
    <2>1. env' = env /\ flash' = flash /\ job' = job
      BY <1>6
       DEF GetValidSlotRollsBack, GetValidSlotResets, set_mergestatus_cancel, set_roll_flag,
           boot1_checked, write_boot0_fails, update_gpt, update_tries, forfeit,
           boot1_backed_up, tries_check, switch_bootmode, storeboot, check_ab, storage, ram
    <2> QED BY <2>1, RoomyStays
  <1>7. CASE \/ check_bootloader \/ write_bootloader_back \/ check_boot1 \/ write_boot0
             \/ backup_boot1
    <2>1. \/ \E c, img, next : StartBootWrite(c, img, next)
          \/ env' = env /\ flash' = flash /\ job' = job
      BY <1>7 DEF check_bootloader, write_bootloader_back, check_boot1, write_boot0,
                  backup_boot1
    <2> QED BY <1>1, <2>1, RoomyWrites, RoomyStays
  <1>8. CASE rollback_reason
    <2>1. \/ update_env_part(env, flash.val, Following)
          \/ env' = env /\ flash' = flash /\ job' = job
      BY <1>8 DEF rollback_reason, SaveUnread
    <2> QED BY <1>1, <1>2, <2>1, RoomyWrites, RoomyStays
  <1>9. CASE RollbackEnv
    <2> DEFINE e == [env EXCEPT !.update_env = TRUE, !.reboot_status = "reboot_next",
                                !.expect_index = rb.dst]
    <2>1. ~e.insufficient_data
      BY <1>1, <1>2, SpaceSaid
    <2>2. StartEnvWrite(e, e, "reboot")
      BY <1>9 DEF RollbackEnv, saveenv
    <2> HIDE DEF e
    <2> QED BY <1>1, <2>1, <2>2, RoomyWrites, RoomyStays
  <1>14. CASE boot0_env
    <2>1. StartEnvWrite(Boot0Written(env), Boot0Written(env), "reboot")
      BY <1>14 DEF boot0_env, saveenv
    <2> QED BY <1>1, <1>2, <2>1, SpaceSaid, RoomyWrites
  <1>10. CASE amlsecurecheck
    <2> DEFINE e == [env EXCEPT !.bootloaderIndex = idx]
               v == [flash.val EXCEPT !.bootloaderIndex = idx]
    <2>1. ~e.insufficient_data /\ ~v.insufficient_data
      BY <1>1, <1>2, SpaceSaid
    <2>2. \/ update_env_part(e, v, "ab_update_rollback")
          \/ env' = e /\ flash' = flash /\ job' = job
      BY <1>10 DEF amlsecurecheck
    <2> HIDE DEF e, v
    <2> QED BY <1>1, <2>1, <2>2, RoomyWrites DEF Roomy
  <1>11. CASE ab_update_rollback
    <2> DEFINE e == [env EXCEPT !.reboot_status = "reboot_init"]
               v == [flash.val EXCEPT !.reboot_status = "reboot_init"]
    <2>1. ~e.insufficient_data /\ ~v.insufficient_data
      BY <1>1, <1>2, SpaceSaid
    <2>2. \/ \E next : update_env_part(e, v, next)
          \/ env' = env /\ flash' = flash /\ job' = job
      BY <1>11 DEF ab_update_rollback
    <2> HIDE DEF e, v
    <2> QED BY <1>1, <2>1, <2>2, RoomyWrites, RoomyStays
  <1>13. CASE forfeit_reason
    <2> DEFINE e == IF NoSpace THEN [env EXCEPT !.insufficient_data = FALSE] ELSE env
               v == IF NoSpace THEN [flash.val EXCEPT !.insufficient_data = FALSE] ELSE flash.val
    <2>1. ~e.insufficient_data /\ ~v.insufficient_data
      BY <1>1, <1>2, SpaceSaid
    <2>2. \/ update_env_part(e, v, "forfeit")
          \/ env' = env /\ flash' = flash /\ job' = job
      BY <1>13 DEF forfeit_reason, SaveUnread
    <2> HIDE DEF e, v
    <2> QED BY <1>1, <2>1, <2>2, RoomyWrites, RoomyStays
  <1>12. CASE FinishWrite
    <2>1. env' = env /\ job' = Idle /\ (flash' = flash \/ flash' = [ok |-> TRUE, val |-> job.val])
      BY <1>12 DEF FinishWrite
    <2>2. flash'.val \in {flash.val, job.val} /\ ~Idle.val.insufficient_data
      BY <2>1 DEF Idle, DefaultEnv
    <2> QED BY <2>1, <2>2 DEF Roomy
  <1> QED BY <1>3, <1>4, <1>5, <1>6, <1>7, <1>8, <1>9, <1>10, <1>11, <1>12,
            <1>13, <1>14, Zenon
         DEF UBoot, RollbackStep, UpdateStep, TriesStep

\* What a step leaves of the counter and of what a first boot depends on.
Steady == /\ Fresh' = Fresh
          /\ Migrated(misc)'.merge_flag = Migrated(misc).merge_flag
          /\ Migrated(misc)'.boot_tries_remaining = Migrated(misc).boot_tries_remaining
          /\ misc'.boot_tries_remaining \in {misc.boot_tries_remaining, BOOT_ATTEMPTS}

\* A step that leaves the counter and the merge flag alone.
LEMMA SteadyMeta ==
    ASSUME AllInv,
           \/ misc' = misc
           \/ misc' = Migrated(misc)
           \/ /\ misc.magic = "vab"
              /\ \/ misc' = [misc EXCEPT !.roll_flag = TRUE]
                 \/ \E s \in Slots : misc' = [misc EXCEPT !.slot[s].uboot_status = 2]
                 \/ \E s \in Slots : misc' = boot_info_set_active_slot(misc, s)
                 \/ misc' = ForfeitTries(misc)
    PROVE  Steady
  <1>1. misc \in BootloaderControl /\ misc.magic # "ab"
    BY TypeFacts DEF AllInv, IInv, PromiseInv, Valid
  <1>2. Migrated(misc)' = Migrated(misc') /\ Fresh' = Migrated(misc').firstboot
    BY NextMeta
  <1>3. CASE misc' = misc
    BY <1>2, <1>3 DEF Steady, Fresh
  <1>4. CASE misc' = Migrated(misc)
    <2>1. Migrated(misc') = Migrated(misc)
      BY <1>1, <1>4, MigratedMeta
    <2>2. boot_info_reset.boot_tries_remaining = BOOT_ATTEMPTS
      BY DEF boot_info_reset
    <2>3. Migrated(misc) \in {misc, boot_info_reset}
      BY <1>1, MigratedMeta, MappedValid
    <2> QED BY <1>2, <1>4, <2>1, <2>2, <2>3 DEF Steady, Fresh
  <1>5. ASSUME misc.magic = "vab", misc'.magic = "vab", misc'.firstboot = misc.firstboot,
               misc'.merge_flag = misc.merge_flag,
               misc'.boot_tries_remaining = misc.boot_tries_remaining
        PROVE  Steady
    <2>1. Migrated(misc') = misc' /\ Migrated(misc) = misc
      BY <1>5, MappedValid
    <2> QED BY <1>2, <1>5, <2>1 DEF Steady, Fresh
  <1>6. CASE misc.magic = "vab" /\ misc' = [misc EXCEPT !.roll_flag = TRUE]
    BY <1>1, <1>5, <1>6 DEF BootloaderControl
  <1>7. CASE misc.magic = "vab" /\ \E s \in Slots : misc' = [misc EXCEPT !.slot[s].uboot_status = 2]
    BY <1>1, <1>5, <1>7 DEF BootloaderControl
  <1>8. CASE misc.magic = "vab" /\ \E s \in Slots : misc' = boot_info_set_active_slot(misc, s)
    BY <1>1, <1>5, <1>8 DEF BootloaderControl, boot_info_set_active_slot
  <1>9. CASE misc.magic = "vab" /\ misc' = ForfeitTries(misc)
    BY <1>1, <1>5, <1>9 DEF BootloaderControl, ForfeitTries
  <1> QED BY <1>3, <1>4, <1>6, <1>7, <1>8, <1>9

\* Such a step keeps the invariant when it does not leave the three commands.
LEMMA TriesKept ==
    ASSUME TriesInv, Steady, Fresh /\ Roomy => Roomy', crashes' = 0 => crashes = 0,
           crashes' = 0 => (Point \in Counting => Point' \in Counting)
    PROVE  TriesInv'
  <1>1. BOOT_ATTEMPTS <= BOOT_ATTEMPTS
    BY TriesAssumption
  <1>2. NoneWaiting'
    BY DEF TriesInv, NoneWaiting, Steady
  <1>3. crashes = 0 /\ Bounded => Bounded'
    BY <1>1 DEF Bounded, Steady
  <1>4. crashes' = 0 /\ Counted => Counted'
    BY DEF Counted, Steady
  <1> QED BY <1>2, <1>3, <1>4 DEF TriesInv

\* Nothing but the three commands after update_tries runs where the counter may be zero.
LEMMA CountingSteps ==
    ASSUME IInv, Next, Point \in Counting
    PROVE  FinishWrite \/ backup_boot1 \/ boot1_backed_up \/ tries_check \/ PowerCut
  <1>1. pc \in Counting \cup {"writing"}
    BY DEF Point
  <1>2. pc \in {"backup_boot1", "boot1_backed_up", "tries_check", "writing"}
    BY <1>1 DEF Counting
  <1>3. ~ (\/ BootRom \/ BootRomFails \/ aml_update_env
           \/ GetValidSlotBoots \/ GetValidSlotRollsBack \/ GetValidSlotResets)
    BY <1>2 DEF BootRom, BootRomFails, aml_update_env, GetValidSlotBoots,
       GetValidSlotRollsBack, GetValidSlotResets
  <1>4. ~(RollbackStep \/ Reboot \/ amlsecurecheck \/ ab_update_rollback)
    BY <1>2 DEF RollbackStep, Reboot, amlsecurecheck, ab_update_rollback,
       rollback_reason, SaveUnread, check_bootloader, set_mergestatus_cancel, write_bootloader_back,
       set_roll_flag, set_active_slot, RollbackEnv
  <1>5. ~(UpdateStep \/ update_tries \/ forfeit_reason \/ forfeit)
    BY <1>2 DEF UpdateStep, check_boot1, boot1_checked, write_boot0,
       write_boot0_fails, update_gpt, boot0_env, update_tries, forfeit_reason, forfeit
  <1>6. ~(switch_bootmode \/ storeboot \/ check_ab)
    BY <1>2 DEF switch_bootmode, storeboot, check_ab
  <1>7. ~(MarkBootSuccessful \/ BeginUpdate \/ FinishUpdate \/ AndroidFails \/ UserReboot
          \/ RescueParty \/ Attended)
    BY <1>2 DEF MarkBootSuccessful, BeginUpdate, FinishUpdate, AndroidFails, UserReboot,
       RescueParty, Attended
  <1> QED BY <1>3, <1>4, <1>5, <1>6, <1>7, Zenon DEF Next, UBoot, Outside, TriesStep

\* The invariant holds across every step of U-Boot, and across those of the system,
\* the host and the power.
\* The power does not fail in a step of U-Boot.
LEMMA UBootUncut == UBoot => crashes' = crashes
  BY Zenon DEF UBoot, RollbackStep, UpdateStep, TriesStep, world, BootRom, BootRomFails,
     aml_update_env, GetValidSlotBoots, GetValidSlotRollsBack, GetValidSlotResets,
     rollback_reason, check_bootloader, set_mergestatus_cancel, write_bootloader_back,
     set_roll_flag, set_active_slot, RollbackEnv, Reboot, amlsecurecheck,
     ab_update_rollback, check_boot1, boot1_checked, write_boot0, write_boot0_fails,
     update_gpt, boot0_env, update_tries, forfeit_reason, forfeit, backup_boot1,
     boot1_backed_up, tries_check, switch_bootmode, storeboot, check_ab, FinishWrite

LEMMA TriesUBoot ==
    ASSUME AllInv, TriesInv, UBoot
    PROVE  TriesInv'
  <1>1. /\ TypeOK /\ Valid /\ Base /\ IInv /\ misc \in BootloaderControl
        /\ crashes' = crashes
    BY UBootUncut, TypeFacts DEF AllInv, IInv, PromiseInv
  <1>2. Roomy => Roomy'
    BY <1>1, RoomyUBoot
  <1>3. pc \notin Early \cup {"writing"} => /\ misc.magic = "vab" /\ Migrated(misc) = misc
                                           /\ Validated(misc) = misc
                                           /\ active = get_active_slot(misc)
                                           /\ Fresh = misc.firstboot
                                           /\ Point = pc
    BY <1>1, ValidMeta, NotWriting
  <1>4. boot_info_reset.boot_tries_remaining = BOOT_ATTEMPTS /\ ~boot_info_reset.merge_flag
        /\ boot_info_reset.magic = "vab" /\ BOOT_ATTEMPTS \in 1..7
    BY TriesAssumption DEF boot_info_reset
  \* The counter starts again.
  <1>5. ASSUME misc' = boot_info_reset, Fresh PROVE TriesInv'
    <2>1. Migrated(misc)' = misc'
      BY <1>4, <1>5, NextMeta, MappedValid
    <2>2. NoneWaiting'
      BY <1>2, <1>4, <1>5, <2>1 DEF TriesInv, NoneWaiting
    <2>3. Bounded' /\ Counted'
      BY <1>4, <1>5, <2>1 DEF Bounded, Counted
    <2> QED BY <2>2, <2>3 DEF TriesInv
  <1>6. CASE update_tries
    <2>1. /\ pc = "update_tries" /\ misc.magic = "vab" /\ Migrated(misc) = misc
          /\ active = get_active_slot(misc) /\ Fresh = misc.firstboot /\ Point = pc
      BY <1>3, <1>6 DEF update_tries, Early
    <2> DEFINE mid == CountTry(misc, mode)
    <2>2. /\ misc' = CountFirstBoot(mid, mode)
          /\ pc' = IF NoSpace \/ MergeInterrupted THEN "forfeit_reason" ELSE "backup_boot1"
      BY <1>6 DEF update_tries, boot_info_save
    <2>3. /\ mid.magic = "vab" /\ mid.firstboot = misc.firstboot
          /\ mid.merge_flag = misc.merge_flag
          /\ mid.boot_tries_remaining = misc.boot_tries_remaining
          /\ mid \in BootloaderControl
      <3>1. mid \in BootloaderControl
        BY <1>1, CountTryType
      <3> QED BY <1>1, <2>1, <3>1 DEF CountTry, BootloaderControl
    <2> HIDE DEF mid
    <2>4. /\ misc'.magic = "vab" /\ misc'.firstboot = misc.firstboot
          /\ misc'.merge_flag = misc.merge_flag
          /\ \/ misc'.boot_tries_remaining = misc.boot_tries_remaining
             \/ /\ misc.firstboot
                /\ misc'.boot_tries_remaining = (misc.boot_tries_remaining - 1) % 256
      BY <2>2, <2>3 DEF CountFirstBoot, BootloaderControl
    <2>5. Migrated(misc)' = misc' /\ Fresh' = misc'.firstboot
      BY <2>4, NextMeta, MappedValid
    <2>6. NoneWaiting'
      BY <1>2, <2>1, <2>4, <2>5 DEF TriesInv, NoneWaiting
    <2>7. crashes' = 0 => Bounded'
      <3>1. misc.boot_tries_remaining \in 0..255
        BY <1>1 DEF BootloaderControl
      <3>2. crashes' = 0 /\ misc.firstboot => misc.boot_tries_remaining # 0
        BY <1>1, <2>1 DEF TriesInv, Counted, Counting
      <3>3. misc.boot_tries_remaining # 0
              => (misc.boot_tries_remaining - 1) % 256 <= misc.boot_tries_remaining
        BY <3>1
      <3>4. crashes' = 0 => misc'.boot_tries_remaining <= misc.boot_tries_remaining
                            /\ misc'.boot_tries_remaining \in Int
        BY <2>4, <3>1, <3>2, <3>3
      <3> QED BY <1>1, <1>4, <3>1, <3>4 DEF TriesInv, Bounded
    <2>8. Counted'
      <3>1. CASE ~Fresh
        BY <2>1, <2>4, <2>5, <3>1 DEF Counted
      <3>2. CASE Fresh
        <4>1. ~env.insufficient_data /\ ~misc.merge_flag
          BY <2>1, <3>2 DEF TriesInv, NoneWaiting, Roomy
        <4>2. pc' = "backup_boot1"
          BY <2>2, <4>1 DEF NoSpace, MergeInterrupted
        <4>3. Point' = "backup_boot1"
          BY <4>2 DEF Point
        <4> QED BY <4>3 DEF Counted, Counting
      <3> QED BY <3>1, <3>2
    <2> QED BY <2>6, <2>7, <2>8 DEF TriesInv
  <1>7. CASE tries_check
    <2>1. /\ pc = "tries_check" /\ misc.magic = "vab" /\ Migrated(misc) = misc
          /\ Fresh = misc.firstboot /\ Point = pc
      BY <1>3, <1>7 DEF tries_check, Early
    <2>2. CASE Exhausted(misc)
      <3>1. misc' = boot_info_reset
        BY <1>7, <2>2 DEF tries_check, boot_info_save
      <3>2. ~NoneBootable(misc)
        <4>1. PICK s \in Slots : Bootable(s)
          BY <1>1, SomeBootable
        <4> QED BY <2>1, <4>1 DEF NoneBootable, Bootable, boot_info_validate_normalAB
      <3> QED BY <1>5, <2>1, <2>2, <3>1, <3>2 DEF Exhausted
    <2>3. CASE ~Exhausted(misc)
      <3>1. misc' = misc /\ Steady
        BY <1>7, <2>3, SteadyMeta DEF tries_check, boot_info_save
      <3>2. NoneWaiting' /\ (crashes' = 0 => Bounded')
        BY <1>1, <1>2, <3>1 DEF TriesInv, NoneWaiting, Steady, Bounded
      <3>3. Counted'
        BY <2>1, <2>3, <3>1 DEF Counted, Steady, Exhausted
      <3> QED BY <3>2, <3>3 DEF TriesInv
    <2> QED BY <2>2, <2>3
  <1>8. CASE ~update_tries /\ ~tries_check
    <2>1. Point \in Counting => Point' \in Counting
      <3>1. CASE FinishWrite
        <4>1. pc = "writing" /\ pc' = job.then /\ job.then # "writing"
          BY <1>1, <3>1 DEF FinishWrite, IInv, PlanOK
        <4> QED BY <4>1 DEF Point
      <3>2. CASE backup_boot1
        <4>1. Point' = "boot1_backed_up"
          BY <3>2, CopyBegun, NotWritingNext DEF backup_boot1
        <4> QED BY <4>1 DEF Counting
      <3>3. CASE boot1_backed_up
        <4>1. Point' = "tries_check"
          BY <3>3, NotWritingNext DEF boot1_backed_up, boot_info_save
        <4> QED BY <4>1 DEF Counting
      <3>4. CASE PowerCut
        <4>1. crashes' = crashes + 1 /\ crashes \in Nat
          BY <1>1, <3>4, AbBootAssumption DEF PowerCut, TypeOK
        <4> QED BY <1>1, <4>1
      <3> QED BY <1>1, <1>8, <3>1, <3>2, <3>3, <3>4, CountingSteps DEF Next
    <2>2. CASE GetValidSlotResets
      BY <1>1, <2>2, SomeBootable DEF GetValidSlotResets
    <2>3. CASE check_ab
      <3>1. misc' = misc
        BY <1>3, <2>3 DEF check_ab, boot_info_save, Early
      <3> QED BY <1>1, <1>2, <2>1, <3>1, SteadyMeta, TriesKept
    <2>4. CASE boot1_checked \/ boot1_backed_up
      <3>1. misc' = misc \/ \E s : misc' = [misc EXCEPT !.slot[s].uboot_status = 2]
        BY <2>4 DEF boot1_checked, boot1_backed_up, boot_info_save
      <3>2. misc.magic = "vab" /\ Other(active) \in Slots /\ active \in Slots
            /\ active = get_active_slot(misc)
        BY <1>1, <1>3, <2>4, TypeFacts DEF boot1_checked, boot1_backed_up, Early
      <3>3. misc' = misc \/ \E s \in Slots : misc' = [misc EXCEPT !.slot[s].uboot_status = 2]
        BY <2>4, <3>2 DEF boot1_checked, boot1_backed_up, boot_info_save, BackupSlot
      <3> QED BY <1>1, <1>2, <2>1, <3>2, <3>3, SteadyMeta, TriesKept
    <2>5. CASE set_roll_flag \/ forfeit
      <3>1. misc.magic = "vab"
        BY <1>3, <2>5 DEF set_roll_flag, forfeit, Early
      <3>2. misc' \in {misc, [misc EXCEPT !.roll_flag = TRUE], ForfeitTries(misc)}
        BY <2>5 DEF set_roll_flag, forfeit, boot_info_save
      <3> QED BY <1>1, <1>2, <2>1, <3>1, <3>2, SteadyMeta, TriesKept
    <2>6. CASE set_active_slot
      <3>1. misc.magic = "vab" /\ Validated(misc) = misc
        BY <1>3, <2>6 DEF set_active_slot, Early
      <3>2. misc' = misc \/ \E s \in Slots : misc' = boot_info_set_active_slot(misc, s)
        BY <2>6, <3>1 DEF set_active_slot, boot_info_save
      <3> QED BY <1>1, <1>2, <2>1, <3>1, <3>2, SteadyMeta, TriesKept
    <2>7. CASE \/ GetValidSlotBoots \/ GetValidSlotRollsBack
               \/ BootRom \/ BootRomFails \/ aml_update_env
               \/ rollback_reason \/ check_bootloader \/ set_mergestatus_cancel
               \/ write_bootloader_back \/ RollbackEnv \/ Reboot
               \/ amlsecurecheck \/ ab_update_rollback
               \/ check_boot1 \/ write_boot0 \/ write_boot0_fails \/ update_gpt \/ boot0_env
               \/ forfeit_reason \/ backup_boot1
               \/ switch_bootmode \/ storeboot \/ FinishWrite
      <3>1. misc' = misc \/ misc' = Migrated(misc)
        BY <2>7 DEF GetValidSlotBoots, GetValidSlotRollsBack, boot_info_save, BootRom,
           BootRomFails, aml_update_env, rollback_reason, check_bootloader,
           set_mergestatus_cancel, write_bootloader_back, RollbackEnv, Reboot,
           amlsecurecheck, ab_update_rollback, check_boot1, write_boot0, write_boot0_fails,
           update_gpt, boot0_env, forfeit_reason, backup_boot1, switch_bootmode, storeboot,
           FinishWrite, storage
      <3> QED BY <1>1, <1>2, <2>1, <3>1, SteadyMeta, TriesKept
    <2> QED BY <1>8, <2>2, <2>3, <2>4, <2>5, <2>6, <2>7, Zenon
            DEF UBoot, RollbackStep, UpdateStep, TriesStep
  <1> QED BY <1>6, <1>7, <1>8

LEMMA TriesOutside ==
    ASSUME AllInv, TriesInv, Outside
    PROVE  TriesInv'
  <1>1. TypeOK /\ IInv /\ misc \in BootloaderControl
    BY TypeFacts DEF AllInv, IInv
  <1>2. ~DefaultEnv.insufficient_data /\ ~Idle.val.insufficient_data
    BY DEF DefaultEnv, Idle
  <1>3. pc \in {"kernel", "fastboot", "recovery"} => Point \notin Counting
    BY DEF Point, Counting
  <1>4. CASE MarkBootSuccessful \/ BeginUpdate \/ FinishUpdate
    <2>1. /\ pc = "kernel" /\ misc'.boot_tries_remaining = misc.boot_tries_remaining
          /\ ~misc'.firstboot /\ misc'.magic = misc.magic /\ crashes' = crashes
      <3>1. CASE MarkBootSuccessful
        BY <1>1, <3>1 DEF MarkBootSuccessful, BootloaderControl
      <3>2. CASE BeginUpdate
        BY <1>1, <3>2 DEF BeginUpdate, BootloaderControl
      <3>3. CASE FinishUpdate
        BY <1>1, <3>3 DEF FinishUpdate, BootloaderControl, boot_info_set_active_slot
      <3> QED BY <1>4, <3>1, <3>2, <3>3
    <2>2. ~Fresh'
      BY <2>1, AtKernel, NextMeta, MappedValid
    <2> QED BY <2>1, <2>2 DEF TriesInv, NoneWaiting, Bounded, Counted
  <1>5. CASE UserReboot \/ RescueParty \/ Attended \/ AndroidFails
    <2>1. /\ pc \in {"kernel", "fastboot", "recovery"}
          /\ misc' = misc /\ crashes' = crashes /\ env' = DefaultEnv /\ job' = job
      BY <1>5 DEF UserReboot, RescueParty, Attended, AndroidFails, Leave, storage, world
    <2>2. flash' = flash \/ (AndroidFails /\ misc.merge_flag)
      BY <1>5 DEF UserReboot, RescueParty, Attended, AndroidFails, storage
    <2>3. Fresh => flash' = flash
      <3>1. ASSUME Fresh, AndroidFails PROVE ~misc.merge_flag
        BY <3>1, AtKernel DEF AndroidFails, TriesInv, NoneWaiting
      <3> QED BY <2>2, <3>1
    <2>4. Fresh /\ Roomy => Roomy'
      BY <1>2, <2>1, <2>3 DEF Roomy
    <2> QED BY <1>3, <2>1, <2>4, SteadyMeta, TriesKept
  <1>6. CASE PowerCut
    <2>1. /\ misc' = misc /\ env' = DefaultEnv /\ job' = Idle /\ flash' = flash
          /\ crashes' = crashes + 1 /\ crashes \in Nat
      BY <1>1, <1>6, AbBootAssumption DEF PowerCut, Leave, storage, TypeOK
    <2>2. Roomy => Roomy'
      BY <1>2, <2>1 DEF Roomy
    <2>3. crashes' # 0
      BY <2>1
    <2> QED BY <2>1, <2>2, <2>3, SteadyMeta, TriesKept
  <1> QED BY <1>4, <1>5, <1>6 DEF Outside

\* The counter of first boots never leaves 0..BOOT_ATTEMPTS, in particular it never
\* wraps, on a device that never held the metadata of normal A/B, until the first power
\* cut: whatever images, reboots and panics there are.
THEOREM BootTriesStayBounded == ~Legacy /\ ~LateCrash => (Spec => []BootTriesBounded)
  <1> SUFFICES ASSUME ~Legacy, ~LateCrash PROVE Spec => []BootTriesBounded
    OBVIOUS
  <1>1. Init => AllInv /\ TriesInv
    <2> SUFFICES ASSUME Init PROVE TriesInv
      BY InitIInv, InitPromise DEF AllInv
    <2>1. /\ misc \in {Uninitialised, boot_info_reset}
          /\ flash.val = DefaultEnv /\ env = DefaultEnv /\ job = Idle
      BY DEF Init
    <2>2. /\ boot_info_reset.boot_tries_remaining = BOOT_ATTEMPTS
          /\ ~boot_info_reset.merge_flag /\ boot_info_reset.magic = "vab"
          /\ Uninitialised.boot_tries_remaining = BOOT_ATTEMPTS
          /\ Uninitialised.magic = "none" /\ BOOT_ATTEMPTS \in 1..7
      BY TriesAssumption DEF boot_info_reset, Uninitialised
    <2>3. Migrated(misc) = boot_info_reset
      BY <2>1, <2>2, MigratedMeta, MappedValid
    <2>4. NoneWaiting
      BY <2>1, <2>2, <2>3 DEF NoneWaiting, Roomy, DefaultEnv, Idle
    <2>5. Bounded /\ Counted
      BY <2>1, <2>2, <2>3 DEF Bounded, Counted
    <2> QED BY <2>4, <2>5 DEF TriesInv
  <1>2. AllInv /\ TriesInv /\ [Next]_vars => (AllInv /\ TriesInv)'
    <2> SUFFICES ASSUME AllInv, TriesInv, [Next]_vars PROVE TriesInv'
      BY NextIInv, StepPromise DEF AllInv
    <2>1. CASE UNCHANGED vars
      <3>1. /\ misc' = misc /\ env' = env /\ flash' = flash /\ job' = job /\ pc' = pc
            /\ crashes' = crashes
        BY <2>1 DEF vars, storage, ram, world
      <3>2. (Roomy => Roomy') /\ Point' = Point
        BY <3>1 DEF Roomy, Point
      <3> QED BY <3>1, <3>2, SteadyMeta, TriesKept
    <2> QED BY <2>1, TriesUBoot, TriesOutside DEF Next
  <1>3. TriesInv => BootTriesBounded
    BY DEF TriesInv, Bounded, BootTriesBounded
  <1> QED BY <1>1, <1>2, <1>3, PTL DEF Spec

-----------------------------------------------------------------------------
(* The copy that is started, while the power does not fail.                *)

\* The copy an update writes, and the one that keeps the bootloader of a slot: boot0 and
\* boot1 with a GPT, else the user area and the copy of the slot.
Main == IF Gpt THEN 1 ELSE 0
KeptFor(s) == IF Gpt THEN 2 ELSE 1 + s

\* What the copies hold once the write in progress is done, and that the bootloader of
\* the slot that would be gone back to is kept.
whole == [c \in Copies |-> IF BootJob /\ c = job.dst THEN job.img ELSE copies[c]]
Backed == /\ whole[KeptFor(Trusted)] = part[Trusted]
          /\ Gpt => Trusted \in noted
Fallback == status[active] # "proven" => Backed

\* Where the bootloaders of the slots are kept, and that they are good.
KeptTrue ==
    /\ Gpt => whole[0] = Torn /\ (Trusted \in noted => whole[2] = part[Trusted])
    /\ ~Gpt => \A s \in Slots : part[s] = Torn \/ whole[1 + s] = part[s]
    /\ \A s \in Slots : status[s] = "proven" => part[s].good
    /\ part[active] # Torn

\* The env that counts is in flash or on its way there, and expects the copy that an
\* update or a rollback has written.
EnvExpected == /\ flash.ok \/ EnvJob
               /\ Later.reboot_status = "reboot_next" => Later.expect_index = Main

\* From power-on to the checks, boot0 is that of the active slot, or it is still to be
\* written; a bootloader that the ROM does not accept is expected to be missed.
Opened ==
    Point \in Opening \cup {"rom"} =>
      /\ Later.write_boot => /\ Gpt /\ status[active] # "proven"
                             /\ whole[Main] = part[Other(active)]
      /\ ~Later.write_boot => whole[Main] = part[active] /\ Fallback
      /\ ~part[active].good => Asking(Later) /\ mode # "rescueparty"
      /\ Point # "rom" => /\ Same(env, Later)
                          /\ idx = IF whole[Main].good THEN Main ELSE KeptFor(Trusted)

\* An update backs up boot0 before it writes it.
Updates ==
    /\ Point \in {"check_boot1", "boot1_checked"} \cup Writing0 =>
         Gpt /\ status[active] # "proven"
    /\ Point \in {"check_boot1", "boot1_checked", "write_boot0"} =>
         whole[Main] = part[Other(active)]
    /\ Point = "boot1_checked" /\ Trusted \notin noted => whole[2] = whole[Main]
    /\ Point \in Writing0 => Backed
    /\ Point = "boot0_env" => Gpt
    /\ Point \in {"update_gpt", "boot0_env"} => whole[Main] = part[active] /\ Fallback

\* A rollback writes the copy kept for the slot it goes back to.
Rolls ==
    Point \in Rolling =>
      /\ rb.src = KeptFor(rb.to) /\ rb.dst = Main /\ rb.to = Trusted /\ Backed
      /\ Before <=> status[active] # "proven"
      /\ rb.kind = "update" => Gpt
      /\ rb.kind # "update" \/ Point = "env" => ~env.write_boot
      /\ \/ Point = "env"
         \/ Point \in {"flag", "active"} /\ rb.kind # "valid_slot"
         \/ Point = "cancel" /\ rb.kind = "mismatch"
         => whole[Main] = part[rb.to]

\* Past the checks the active slot runs on its own bootloader.
Rests ==
    /\ Point \in Quiet \cup {"fastboot", "recovery", "reboot"} =>
         /\ whole[Main] = part[active] /\ Fallback /\ ~Later.write_boot
         /\ ~part[active].good => Point = "reboot" /\ Asking(Later)
    /\ Point \in Quiet \cup {"fastboot", "recovery"} => ~Asking(Later)
    /\ Point \in Quiet => idx = Main
    /\ Point = "boot1_backed_up" /\ Gpt /\ Trusted \notin noted => whole[2] = whole[Main]

UncutInv == /\ KeptTrue /\ EnvExpected /\ Opened /\ Updates /\ Rolls /\ Rests
            /\ Point # "bricked"

-----------------------------------------------------------------------------
(* What a step does to that view of the copies and of the env.             *)

LEMMA UncutFacts ==
    ASSUME AllInv, KeptTrue
    PROVE  /\ active \in Slots /\ Other(active) \in Slots /\ Other(active) # active
           /\ \A s \in Slots : s = active \/ s = Other(active)
           /\ Trusted \in Slots /\ status[Trusted] = "proven" /\ part[Trusted].good
           /\ status[active] # "proven" => Trusted = Other(active)
           /\ status[active] = "proven" => Trusted = active
           /\ copies \in [Copies -> Images] /\ part \in [Slots -> Images]
           /\ env \in Env /\ flash.val \in Env /\ LoadedEnv \in Env /\ TypeOK /\ IInv
           /\ \A s \in Slots : Main \in Copies /\ KeptFor(s) \in Copies /\ KeptFor(s) # Main
  <1>1. /\ active \in Slots /\ Other(active) \in Slots /\ Other(active) # active
        /\ \A s \in Slots : s = active \/ s = Other(active)
        /\ copies \in [Copies -> Images] /\ part \in [Slots -> Images]
        /\ env \in Env /\ flash.val \in Env /\ LoadedEnv \in Env /\ TypeOK /\ IInv
    BY TypeFacts DEF AllInv, IInv, TypeOK
  <1>2. Trusted \in Slots /\ status[Trusted] = "proven"
    BY <1>1 DEF AllInv, PromiseInv, Base, SomeProven, Trusted
  <1>3. part[Trusted].good
    BY <1>2 DEF KeptTrue
  <1>4. \A s \in Slots : Main \in Copies /\ KeptFor(s) \in Copies /\ KeptFor(s) # Main
    BY DEF Main, KeptFor, Copies, Slots
  <1>5. /\ status[active] # "proven" => Trusted = Other(active)
        /\ status[active] = "proven" => Trusted = active
    BY DEF Trusted
  <1> QED BY <1>1, <1>2, <1>3, <1>4, <1>5

LEMMA Unwritten == TypeOK /\ pc # "writing" => whole = copies
  BY NotWriting DEF whole, TypeOK

LEMMA UnwrittenNext == TypeOK' /\ pc' # "writing" => whole' = copies'
  BY NotWritingNext DEF whole, TypeOK

\* A step that only moves on.
LEMMA ViewMoves ==
    ASSUME TypeOK, pc # "writing", pc' # "writing", copies' = copies, flash' = flash
    PROVE  /\ Point = pc /\ Point' = pc' /\ ~EnvJob' /\ Later = LoadedEnv
           /\ whole' = whole /\ Later' = Later /\ flash'.ok = flash.ok
  <1>1. Point = pc /\ ~EnvJob /\ ~BootJob /\ Point' = pc' /\ ~EnvJob' /\ ~BootJob'
    BY NotWriting, NotWritingNext
  <1>2. whole' = [c \in Copies |-> copies[c]] /\ whole = [c \in Copies |-> copies[c]]
    BY <1>1 DEF whole
  <1>3. Later' = Later /\ Later = LoadedEnv
    BY <1>1 DEF Later, LoadedEnv
  <1> QED BY <1>1, <1>2, <1>3

\* A step that begins to write a copy, and one that begins to save an env.
LEMMA ViewCopies ==
    ASSUME TypeOK, pc # "writing", NEW c \in Copies, NEW img, NEW next,
           StartBootWrite(c, img, next)
    PROVE  /\ Point = pc /\ Point' = next /\ ~EnvJob' /\ env' = env /\ flash'.ok = flash.ok
           /\ Later = LoadedEnv /\ Later' = Later
           /\ whole = copies
           /\ whole'[c] = img /\ \A d \in Copies : d # c => whole'[d] = whole[d]
  <1>1. Point = pc /\ ~EnvJob /\ whole = copies
    BY NotWriting, Unwritten
  <1>2. /\ copies' = [copies EXCEPT ![c] = Torn] /\ pc' = "writing"
        /\ job'.op = "boot" /\ job'.dst = c /\ job'.img = img /\ job'.then = next
    BY DEF StartBootWrite, Idle
  <1>3. flash' = flash /\ env' = env /\ ~EnvJob' /\ Point' = next
    BY CopyBegun
  <1>4. Later' = Later /\ Later = LoadedEnv
    BY <1>1, <1>3 DEF Later, LoadedEnv
  <1>5. whole' = [d \in Copies |-> IF d = c THEN img ELSE copies'[d]]
    BY <1>2 DEF whole, BootJob
  <1>6. copies \in [Copies -> Images]
    BY DEF TypeOK
  <1>7. \A d \in Copies : d # c => copies'[d] = copies[d]
    BY <1>2, <1>6
  <1> QED BY <1>1, <1>3, <1>4, <1>5, <1>7

LEMMA ViewSaves ==
    ASSUME TypeOK, EnvExpected, pc # "writing", NEW e, NEW val, NEW next,
           StartEnvWrite(e, val, next) \/ update_env_part(e, val, next)
    PROVE  /\ Point = pc /\ Point' = next /\ EnvJob' /\ env' = e
           /\ Later = flash.val /\ Later' = val /\ whole' = whole
  <1>1. Point = pc /\ ~EnvJob /\ whole = copies
    BY NotWriting, Unwritten
  <1>2. flash.ok /\ Later = flash.val
    <2>1. flash.ok
      BY <1>1 DEF EnvExpected
    <2>2. Later = LoadedEnv
      BY <1>1 DEF Later
    <2> QED BY <2>1, <2>2 DEF LoadedEnv
  <1>3. StartEnvWrite(e, val, next)
    BY <1>2 DEF update_env_part
  <1>4. /\ env' = e /\ EnvJob' /\ job'.val = val /\ Point' = next
    BY <1>3, EnvBegun
  <1>5. copies' = copies /\ job'.op = "env"
    BY <1>3 DEF StartEnvWrite, Idle
  <1>6. whole' = [d \in Copies |-> copies[d]]
    BY <1>5 DEF whole, BootJob
  <1>7. whole' = whole
    BY <1>1, <1>6 DEF TypeOK
  <1>8. Later' = val
    BY <1>4 DEF Later
  <1> QED BY <1>1, <1>2, <1>4, <1>7, <1>8

\* The end of a write.
LEMMA ViewFinish ==
    ASSUME IInv, EnvExpected, FinishWrite
    PROVE  /\ Point' = Point /\ env' = env /\ whole' = whole /\ Later' = Later
           /\ flash'.ok /\ ~EnvJob'
  <1>1. /\ pc = "writing" /\ pc' = job.then /\ job.then # "writing" /\ env' = env
    BY DEF FinishWrite, IInv, PlanOK
  <1>2. Point' = Point /\ ~EnvJob' /\ ~BootJob'
    BY <1>1, NotWritingNext DEF Point
  <1>3. whole' = [c \in Copies |-> copies'[c]]
    BY <1>2 DEF whole
  <1>4. copies \in [Copies -> Images]
    BY DEF IInv, TypeOK
  <1>5. CASE job.op = "boot"
    <2>1. BootJob /\ ~EnvJob /\ flash' = flash /\ copies' = [copies EXCEPT ![job.dst] = job.img]
      BY <1>1, <1>5 DEF FinishWrite, BootJob, EnvJob
    <2>2. whole = [c \in Copies |-> IF c = job.dst THEN job.img ELSE copies[c]]
      BY <2>1 DEF whole
    <2>3. \A c \in Copies : copies'[c] = IF c = job.dst THEN job.img ELSE copies[c]
      BY <1>4, <2>1
    <2>4. whole' = whole
      BY <1>3, <2>2, <2>3
    <2>5. Later' = Later
      BY <1>2, <2>1 DEF Later, LoadedEnv
    <2>6. flash'.ok
      BY <2>1 DEF EnvExpected
    <2> QED BY <1>1, <1>2, <2>4, <2>5, <2>6
  <1>6. CASE job.op # "boot"
    <2>1. ~BootJob /\ EnvJob /\ copies' = copies /\ flash' = [ok |-> TRUE, val |-> job.val]
      BY <1>1, <1>6 DEF FinishWrite, BootJob, EnvJob
    <2>2. whole = [c \in Copies |-> copies[c]]
      BY <2>1 DEF whole
    <2>3. flash'.ok /\ flash'.val = job.val
      BY <2>1
    <2>4. Later' = Later
      BY <1>2, <2>1, <2>3 DEF Later, LoadedEnv
    <2> QED BY <1>1, <1>2, <1>3, <2>1, <2>2, <2>3, <2>4
  <1> QED BY <1>5, <1>6

LEMMA SlotsView ==
    ASSUME SlotsSame
    PROVE  /\ active' = active /\ status' = status /\ noted' = noted /\ part' = part
           /\ Trusted' = Trusted
           /\ whole' = whole => /\ Backed' <=> Backed
                                /\ Fallback' <=> Fallback
                                /\ KeptTrue => KeptTrue'
  <1>1. /\ active' = active /\ status' = status /\ noted' = noted /\ part' = part
        /\ Trusted' = Trusted
    BY SameTrusted DEF SlotsSame
  <1> HIDE DEF active, status, noted, Trusted, whole
  <1>2. whole' = whole => (Backed' <=> Backed)
    BY <1>1 DEF Backed, KeptFor
  <1>3. whole' = whole => (Fallback' <=> Fallback)
    BY <1>1, <1>2 DEF Fallback
  <1>4. whole' = whole /\ KeptTrue => KeptTrue'
    BY <1>1 DEF KeptTrue
  <1> QED BY <1>1, <1>2, <1>3, <1>4

\* A copy other than that of the trusted slot is written.
LEMMA KeptOn ==
    ASSUME AllInv, KeptTrue, SlotsSame,
           \A c \in Copies : c # Main /\ ~(Gpt /\ c = 2 /\ Trusted \notin noted)
                               => whole'[c] = whole[c]
    PROVE  /\ KeptTrue'
           /\ (Gpt => Trusted \in noted) => (Backed' <=> Backed)
  <1>1. /\ active' = active /\ status' = status /\ noted' = noted /\ part' = part
        /\ Trusted' = Trusted
    BY SlotsView
  <1>2. Trusted \in Slots
    BY UncutFacts
  <1> HIDE DEF active, status, noted, Trusted, whole, AllInv
  <1>3. CASE Gpt
    <2>1. whole'[0] = whole[0] /\ (Trusted \in noted => whole'[2] = whole[2])
      BY <1>3 DEF Main, Copies
    <2>2. KeptTrue'
      BY <1>1, <1>3, <2>1 DEF KeptTrue
    <2>3. Trusted \in noted => (Backed' <=> Backed)
      BY <1>1, <1>3, <2>1 DEF Backed, KeptFor
    <2> QED BY <1>3, <2>2, <2>3
  <1>4. CASE ~Gpt
    <2>1. \A s \in Slots : whole'[1 + s] = whole[1 + s]
      BY <1>4 DEF Main, Copies, Slots
    <2>2. KeptTrue'
      BY <1>1, <1>4, <2>1 DEF KeptTrue
    <2>3. Backed' <=> Backed
      BY <1>1, <1>2, <1>4, <2>1 DEF Backed, KeptFor
    <2> QED BY <1>4, <2>2, <2>3
  <1> QED BY <1>3, <1>4

\* From one command before the checks to the next, nothing is asked for or written.
LEMMA OpensOn ==
    ASSUME UncutInv, SlotsSame, Point \in Opening, Point' \in Opening, whole' = whole,
           Same(Later', Later), Same(env', env), idx' = idx, mode' = mode,
           flash'.ok \/ EnvJob'
    PROVE  UncutInv'
  <1>1. KeptTrue /\ EnvExpected /\ Opened
    BY DEF UncutInv
  <1>2. /\ active' = active /\ status' = status /\ part' = part /\ Trusted' = Trusted
        /\ KeptTrue' /\ (Fallback' <=> Fallback)
    BY <1>1, SlotsView
  <1> HIDE DEF active, status, noted, Trusted, whole, Later, Point, EnvJob, Fallback, KeptTrue
  <1>3. EnvExpected'
    BY <1>1 DEF EnvExpected, Same, Main
  <1>4. Opened'
    BY <1>1, <1>2 DEF Opened, Same, Asking, Main, KeptFor, Opening
  <1>5. Updates' /\ Rolls' /\ Rests' /\ Point' # "bricked"
    BY DEF Updates, Rolls, Rests, Opening, Quiet, Writing0, Rolling
  <1> QED BY <1>2, <1>3, <1>4, <1>5 DEF UncutInv

\* From one command after the checks to the next.
LEMMA RestsOn ==
    ASSUME UncutInv, SlotsSame, Point \in Quiet,
           Point' \in Quiet \cup {"fastboot", "recovery", "reboot"}, whole' = whole,
           Same(Later', Later), idx' = idx, flash'.ok \/ EnvJob',
           Point' = "boot1_backed_up" /\ Gpt /\ Trusted \notin noted => whole[2] = whole[1]
    PROVE  UncutInv'
  <1>1. KeptTrue /\ EnvExpected /\ Rests
    BY DEF UncutInv
  <1>2. /\ active' = active /\ status' = status /\ part' = part /\ Trusted' = Trusted
        /\ noted' = noted /\ KeptTrue' /\ (Fallback' <=> Fallback)
    BY <1>1, SlotsView
  <1> HIDE DEF active, status, noted, Trusted, whole, Later, Point, EnvJob, Fallback, KeptTrue
  <1>3. EnvExpected'
    BY <1>1 DEF EnvExpected, Same, Main
  <1>4. Rests'
    BY <1>1, <1>2 DEF Rests, Same, Asking, Main, Quiet
  <1>5. Opened' /\ Updates' /\ Rolls' /\ Point' # "bricked"
    BY DEF Updates, Rolls, Opened, Opening, Quiet, Writing0, Rolling
  <1> QED BY <1>2, <1>3, <1>4, <1>5 DEF UncutInv

\* To the next power-on.
LEMMA TurnsOff ==
    ASSUME UncutInv, SlotsSame, Point \in Quiet \cup {"fastboot", "recovery", "reboot"},
           Point' = "rom", whole' = whole, Same(Later', Later), flash'.ok \/ EnvJob',
           mode' = "rescueparty" => Point # "reboot"
    PROVE  UncutInv'
  <1>1. KeptTrue /\ EnvExpected /\ Rests
    BY DEF UncutInv
  <1>2. /\ active' = active /\ status' = status /\ part' = part /\ Trusted' = Trusted
        /\ noted' = noted /\ KeptTrue' /\ (Fallback' <=> Fallback)
    BY <1>1, SlotsView
  <1> HIDE DEF active, status, noted, Trusted, whole, Later, Point, EnvJob, Fallback, KeptTrue
  <1>3. EnvExpected'
    BY <1>1 DEF EnvExpected, Same, Main
  <1>4. Opened'
    BY <1>1, <1>2 DEF Rests, Opened, Same, Asking, Main, Quiet
  <1>5. Rests' /\ Updates' /\ Rolls' /\ Point' # "bricked"
    BY DEF Updates, Rolls, Rests, Opening, Quiet, Writing0, Rolling
  <1> QED BY <1>2, <1>3, <1>4, <1>5 DEF UncutInv

\* A rollback begins; it goes on.
LEMMA RollsFrom ==
    ASSUME UncutInv, SlotsSame, whole' = whole, Later' = Later, flash'.ok \/ EnvJob',
           status[active] # "proven", Backed,
           \/ Point' \in {"reason", "check"}
           \/ Point' = "copy" /\ rb'.kind = "mismatch",
           rb'.src = KeptFor(rb'.to), rb'.dst = Main, rb'.to = Trusted,
           rb'.kind = "update" => Gpt, rb'.kind # "update" => ~env'.write_boot
    PROVE  UncutInv'
  <1>1. KeptTrue /\ EnvExpected
    BY DEF UncutInv
  <1>2. /\ active' = active /\ status' = status /\ part' = part /\ Trusted' = Trusted
        /\ KeptTrue' /\ Backed'
    BY <1>1, SlotsView
  <1> HIDE DEF active, status, noted, Trusted, whole, Later, Point, EnvJob, Backed, KeptTrue
  <1>3. EnvExpected'
    BY <1>1 DEF EnvExpected, Main
  <1>4. Rolls'
    BY <1>2 DEF Rolls, Main, KeptFor, Before
  <1>5. Opened' /\ Rests' /\ Updates' /\ Point' # "bricked"
    BY DEF Updates, Opened, Rests, Opening, Quiet, Writing0
  <1> QED BY <1>2, <1>3, <1>4, <1>5 DEF UncutInv

LEMMA RollsAhead ==
    ASSUME AllInv, UncutInv, SlotsSame, Point \in Rolling, Point' \in Rolling, rb' = rb,
           env'.write_boot = env.write_boot, Later' = Later, flash'.ok \/ EnvJob',
           Before' <=> Before, Point' = "env" => rb.kind # "update",
           \A c \in Copies : c # Main => whole'[c] = whole[c],
           Point' = "env" => whole'[Main] = part[Trusted],
           Point' \in {"flag", "active"} /\ rb.kind # "valid_slot"
             => whole'[Main] = part[Trusted],
           Point' = "cancel" /\ rb.kind = "mismatch" => whole'[Main] = part[Trusted]
    PROVE  UncutInv'
  <1>1. KeptTrue /\ EnvExpected /\ Rolls /\ Backed
    BY DEF UncutInv, Rolls
  <1>2. /\ active' = active /\ status' = status /\ part' = part /\ Trusted' = Trusted
    BY <1>1, SlotsView
  <1>3. KeptTrue' /\ Backed'
    BY <1>1, KeptOn DEF Backed
  <1> HIDE DEF active, status, noted, Trusted, whole, Later, Point, EnvJob, Backed, KeptTrue
  <1>4. EnvExpected'
    BY <1>1 DEF EnvExpected, Main
  <1>5. Rolls'
    BY <1>1, <1>2, <1>3 DEF Rolls, Main, KeptFor
  <1>6. Opened' /\ Rests' /\ Updates' /\ Point' # "bricked"
    BY DEF Updates, Opened, Rests, Opening, Quiet, Writing0, Rolling
  <1> QED BY <1>3, <1>4, <1>5, <1>6 DEF UncutInv

LEMMA PlanMatches ==
    ASSUME NEW kind, NEW s \in Slots
    PROVE  /\ RollbackFrom(kind, s).kind = kind /\ RollbackFrom(kind, s).to = Other(s)
           /\ RollbackFrom(kind, s).dst = Main
           /\ RollbackFrom(kind, s).src = KeptFor(Other(s))
  BY DEF RollbackFrom, Main, KeptFor, Other, Slots

-----------------------------------------------------------------------------
(* Power-on, the slot selection and the checks.                            *)

\* Where the copy of the active slot is not accepted, that of the trusted one is.
LEMMA AtPowerOn ==
    ASSUME AllInv, UncutInv, pc = "rom"
    PROVE  /\ whole = copies /\ Point = "rom" /\ Later = LoadedEnv
           /\ ~copies[Main].good => copies[KeptFor(Trusted)] = part[Trusted]
           /\ ~copies[Main].good /\ ~Gpt =>
                 Trusted = Other(active) /\ ~copies[1 + active].good
  <1>1. whole = copies /\ Point = "rom" /\ Later = LoadedEnv
    BY UncutFacts, Unwritten, NotWriting DEF UncutInv, Later
  <1>2. KeptTrue /\ Opened
    BY DEF UncutInv
  <1>3. /\ active \in Slots /\ Trusted \in Slots /\ part[Trusted].good
        /\ status[active] # "proven" => Trusted = Other(active)
        /\ \A s \in Slots : status[s] = "proven" => part[s].good
        /\ part[active] # Torn
    BY <1>2, UncutFacts DEF KeptTrue
  <1> HIDE DEF active, status, noted, Trusted, whole, Later, Point, AllInv
  <1>4. ~whole[Main].good => whole[Main] = part[active] /\ Fallback
    BY <1>1, <1>2, <1>3 DEF Opened
  <1>5. ~whole[Main].good => status[active] # "proven" /\ Backed
    BY <1>3, <1>4 DEF Fallback
  <1>6. ~Gpt /\ ~whole[Main].good => ~whole[1 + active].good
    BY <1>2, <1>3, <1>4 DEF KeptTrue
  <1> QED BY <1>1, <1>3, <1>5, <1>6 DEF Backed

LEMMA PowerOnUncut ==
    ASSUME AllInv, UncutInv, BootRom \/ BootRomFails \/ aml_update_env
    PROVE  UncutInv'
  <1>1. /\ SlotsSame
    <2>1. misc' = misc /\ part' = part /\ osOk' = osOk /\ proven' = proven
      BY DEF BootRom, BootRomFails, aml_update_env, storage, world
    <2> QED BY <2>1, PowerOnPromise, SameSlots
  <1>2. KeptTrue /\ EnvExpected /\ Opened
    BY DEF UncutInv
  <1>3. /\ Trusted \in Slots /\ part[Trusted].good /\ active \in Slots /\ TypeOK
        /\ env \in Env /\ KeptFor(Trusted) \in Copies /\ Main \in Copies
        /\ KeptFor(Trusted) # Main
    BY <1>2, UncutFacts
  <1>4. CASE BootRom
    <2>1. PICK c \in Copies : /\ copies[c].good
                              /\ \A d \in Copies : d < c => ~copies[d].good
                              /\ idx' = c
      BY <1>4 DEF BootRom
    <2>2. /\ pc = "rom" /\ pc' = "aml_update_env" /\ env' = LoadedEnv /\ flash' = flash
          /\ copies' = copies /\ mode' = mode
      BY <1>4 DEF BootRom, storage
    <2>3. /\ Point = "rom" /\ Point' = "aml_update_env" /\ ~EnvJob' /\ Later = LoadedEnv
          /\ whole' = whole /\ Later' = Later /\ flash'.ok = flash.ok /\ whole = copies
      BY <1>3, <2>2, ViewMoves, AtPowerOn
    <2>4. c = IF whole[Main].good THEN Main ELSE KeptFor(Trusted)
      <3>1. /\ ~copies[Main].good => copies[KeptFor(Trusted)] = part[Trusted]
            /\ ~copies[Main].good /\ ~Gpt =>
                  Trusted = Other(active) /\ ~copies[1 + active].good
        BY <2>2, AtPowerOn
      <3> HIDE DEF active, Trusted
      <3>2. CASE Gpt
        <4>1. ~copies[0].good
          BY <1>2, <2>3, <3>2 DEF KeptTrue, Torn
        <4> QED BY <2>1, <2>3, <3>2, <4>1 DEF Main, KeptFor, Copies
      <3>3. CASE ~Gpt
        BY <1>3, <2>1, <2>3, <3>1, <3>3 DEF Main, KeptFor, Copies, Slots, Other
      <3> QED BY <3>2, <3>3
    <2>5. /\ active' = active /\ status' = status /\ part' = part /\ Trusted' = Trusted
          /\ KeptTrue' /\ (Fallback' <=> Fallback)
      BY <1>1, <1>2, <2>3, SlotsView
    <2>6. flash.ok \/ EnvJob
      BY <1>2 DEF EnvExpected
    <2>7. ~EnvJob
      BY <2>2, NotWriting
    <2> HIDE DEF active, status, noted, Trusted, whole, Later, Point, EnvJob, Fallback, KeptTrue,
                 LoadedEnv
    <2>8. EnvExpected'
      BY <1>2, <2>3, <2>6, <2>7 DEF EnvExpected, Main
    <2>9. Opened'
      BY <1>2, <2>1, <2>2, <2>3, <2>4, <2>5 DEF Opened, Same, Asking, Main, KeptFor
    <2>10. Updates' /\ Rolls' /\ Rests' /\ Point' # "bricked"
      BY <2>3 DEF Updates, Rolls, Rests, Quiet, Writing0, Rolling
    <2> QED BY <2>5, <2>8, <2>9, <2>10 DEF UncutInv
  <1>5. CASE BootRomFails
    BY <1>3, <1>5, AtPowerOn DEF BootRomFails
  <1>6. CASE aml_update_env
    <2>1. pc = "aml_update_env" /\ idx' = idx /\ mode' = mode
      BY <1>6 DEF aml_update_env
    <2>2. Same(env, Later) /\ Point = "aml_update_env"
      BY <1>2, <2>1, NotWriting DEF Opened, Opening
    <2>3. CASE env.update_env /\ ~env.write_boot
      <3> DEFINE e == defenv_reserv(env)
      <3>1. StartEnvWrite(e, e, "get_valid_slot")
        BY <1>6, <2>3 DEF aml_update_env, saveenv
      <3>2. /\ e.write_boot = FALSE /\ e.reboot_status = env.reboot_status
            /\ e.expect_index = env.expect_index
        BY DEF defenv_reserv, DefaultEnv
      <3>3. env.write_boot \in BOOLEAN
        BY <1>3 DEF Env
      <3> HIDE DEF e
      <3>4. Same(e, env) /\ Same(e, Later)
        BY <2>2, <2>3, <3>2, <3>3 DEF Same
      <3>5. /\ Point' = "get_valid_slot" /\ EnvJob' /\ env' = e /\ Later' = e /\ whole' = whole
        BY <1>2, <1>3, <2>1, <3>1, ViewSaves
      <3> HIDE DEF SlotsSame, Point, Later, whole, EnvJob
      <3> QED BY <1>1, <2>1, <2>2, <3>4, <3>5, OpensOn DEF Opening
    <2>4. CASE ~(env.update_env /\ ~env.write_boot)
      <3>1. pc' = "get_valid_slot" /\ UNCHANGED <<flash, copies, env, job>>
        BY <1>6, <2>4 DEF aml_update_env
      <3>2. /\ Point' = "get_valid_slot" /\ whole' = whole /\ Later' = Later
            /\ flash'.ok = flash.ok
        BY <1>3, <2>1, <3>1, ViewMoves
      <3>3. flash.ok /\ Same(env', env) /\ Same(Later', Later)
        BY <1>2, <2>1, <3>1, <3>2, NotWriting DEF EnvExpected, Same
      <3> HIDE DEF SlotsSame, Point, Later, whole, EnvJob
      <3> QED BY <1>1, <2>1, <2>2, <3>2, <3>3, OpensOn DEF Opening
    <2> QED BY <2>3, <2>4
  <1> QED BY <1>4, <1>5, <1>6

\* Away from a write the env that counts is in flash.
LEMMA FlashCounts == EnvExpected /\ pc # "writing" => flash.ok /\ Later = flash.val
  BY NotWriting DEF EnvExpected, Later, LoadedEnv

LEMMA GetValidSlotUncut ==
    ASSUME AllInv, UncutInv, GetValidSlotBoots \/ GetValidSlotRollsBack \/ GetValidSlotResets
    PROVE  UncutInv'
  <1>1. /\ pc \in {"get_valid_slot", "bcb_cmd"} /\ part' = part /\ osOk' = osOk
        /\ proven' = proven /\ copies' = copies /\ flash' = flash /\ idx' = idx
        /\ mode' = mode
    BY DEF GetValidSlotBoots, GetValidSlotRollsBack, GetValidSlotResets, ram, world
  <1>2. Unseen /\ active = get_active_slot(Migrated(misc)) /\ env \in Env
    BY GetValidSlotPromise, TypeFacts DEF active, ActiveIn, AllInv, IInv
  <1>3. KeptTrue /\ EnvExpected /\ Opened /\ Rests /\ TypeOK /\ active \in Slots
    BY UncutFacts DEF UncutInv
  <1>4. flash.ok
    BY <1>1, <1>3, FlashCounts
  <1>5. CASE GetValidSlotBoots
    <2>1. /\ misc' = Migrated(misc) /\ pc' = AfterGetValidSlot
          /\ env' = [env EXCEPT !.slot_suffixes = active]
      BY <1>2, <1>5 DEF GetValidSlotBoots, boot_info_save
    <2>2. SlotsSame
      BY <1>1, <1>2, <2>1, SameSlots
    <2>3. pc' = IF pc = "get_valid_slot" THEN "amlsecurecheck" ELSE "switch_bootmode"
      BY <2>1 DEF AfterGetValidSlot
    <2>4. Same(env', env)
      BY <1>2, <2>1, AsksSame DEF Same
    <2>5. /\ Point = pc /\ Point' = pc' /\ whole' = whole /\ Later' = Later
          /\ flash'.ok = flash.ok
      BY <1>1, <1>3, <2>3, ViewMoves
    <2>6. Same(Later', Later)
      BY <2>5 DEF Same
    <2> HIDE DEF active, SlotsSame, Point, Later, whole, EnvJob
    <2>7. CASE pc = "get_valid_slot"
      BY <1>1, <1>4, <2>2, <2>3, <2>4, <2>5, <2>6, <2>7, OpensOn DEF Opening
    <2>8. CASE pc = "bcb_cmd"
      BY <1>1, <1>4, <2>2, <2>3, <2>4, <2>5, <2>6, <2>8, RestsOn DEF Quiet
    <2> QED BY <1>1, <2>7, <2>8
  <1>6. CASE GetValidSlotRollsBack
    <2>1. /\ misc' = Migrated(misc) /\ pc' = "reason" /\ env' = env
          /\ rb' = RollbackFrom("valid_slot", active) /\ ~Bootable(active)
      BY <1>2, <1>6 DEF GetValidSlotRollsBack, boot_info_save
    <2>2. SlotsSame
      BY <1>1, <1>2, <2>1, SameSlots
    <2>3. status[active] = "empty"
      BY <2>1, NotBootable
    <2>4. ~Asking(LoadedEnv) /\ ~Asking(env)
      BY <2>3 DEF AllInv, PromiseInv, EnvInv, Requested, AnyAsk
    <2>5. /\ Point = pc /\ Point' = "reason" /\ whole' = whole /\ Later' = Later
          /\ Later = LoadedEnv /\ flash'.ok = flash.ok
      BY <1>1, <1>3, <2>1, ViewMoves
    <2>6. Fallback
      BY <1>1, <1>3, <2>4, <2>5 DEF Opened, Rests, Opening, Quiet, Asking
    <2>7. Backed
      BY <2>3, <2>6 DEF Fallback
    <2>8. /\ rb'.kind = "valid_slot" /\ rb'.to = Other(active) /\ rb'.dst = Main
          /\ rb'.src = KeptFor(Other(active))
      BY <1>3, <2>1, PlanMatches
    <2>9. Trusted = Other(active)
      BY <2>3 DEF Trusted
    <2>10. ~env'.write_boot
      BY <2>1, <2>4 DEF Asking
    <2> HIDE DEF active, status, SlotsSame, Point, Later, whole, EnvJob, Trusted
    <2> QED BY <1>4, <2>2, <2>3, <2>5, <2>7, <2>8, <2>9, <2>10, RollsFrom
  <1>7. CASE GetValidSlotResets
    <2>1. \E s \in Slots : Bootable(s)
      BY SomeBootable DEF AllInv, IInv, PromiseInv
    <2> QED BY <1>7, <2>1 DEF GetValidSlotResets
  <1> QED BY <1>5, <1>6, <1>7

LEMMA SecureCheckUncut ==
    ASSUME AllInv, UncutInv, amlsecurecheck
    PROVE  UncutInv'
  <1> DEFINE e == [env EXCEPT !.bootloaderIndex = idx]
             v == [flash.val EXCEPT !.bootloaderIndex = idx]
  <1>1. /\ pc = "amlsecurecheck" /\ misc' = misc /\ part' = part /\ osOk' = osOk
        /\ proven' = proven /\ idx' = idx /\ mode' = mode
    BY DEF amlsecurecheck, world
  <1>2. SlotsSame
    BY <1>1, SecureCheckPromise, SameSlots
  <1>3. /\ env \in Env /\ flash.val \in Env /\ Point = "amlsecurecheck" /\ TypeOK
        /\ EnvExpected
    BY <1>1, UncutFacts, NotWriting DEF UncutInv
  <1>4. flash.ok /\ Later = flash.val
    BY <1>1, <1>3, FlashCounts
  <1>5. Same(e, env) /\ Same(v, Later)
    BY <1>3, <1>4, AsksSame DEF Same
  <1>6. \/ /\ env' = e /\ pc' = "ab_update_rollback"
           /\ UNCHANGED <<flash, copies, job>>
        \/ update_env_part(e, v, "ab_update_rollback")
    BY DEF amlsecurecheck
  <1> HIDE DEF e, v
  <1>7. /\ Point' = "ab_update_rollback" /\ env' = e /\ whole' = whole
        /\ Same(Later', Later)
        /\ flash'.ok \/ EnvJob'
    <2>1. CASE /\ env' = e /\ pc' = "ab_update_rollback"
               /\ UNCHANGED <<flash, copies, job>>
      <3>1. /\ Point' = "ab_update_rollback" /\ whole' = whole /\ Later' = Later
            /\ flash'.ok = flash.ok
        BY <1>1, <1>3, <2>1, ViewMoves
      <3>2. Same(Later', Later)
        BY <3>1 DEF Same
      <3> QED BY <1>4, <2>1, <3>1, <3>2
    <2>2. CASE update_env_part(e, v, "ab_update_rollback")
      <3>1. /\ Point' = "ab_update_rollback" /\ EnvJob' /\ env' = e /\ Later' = v
            /\ whole' = whole
        BY <1>1, <1>3, <2>2, ViewSaves
      <3>2. Same(Later', Later)
        BY <1>5, <3>1 DEF Same
      <3> HIDE DEF Point, Later, whole, EnvJob, Same
      <3> QED BY <3>1, <3>2
    <2> QED BY <1>6, <2>1, <2>2
  <1> HIDE DEF SlotsSame, Point, Later, whole, EnvJob
  <1> QED BY <1>1, <1>2, <1>3, <1>5, <1>7, OpensOn DEF Opening

\* A mismatch tells that the bootloader of a slot on trial was not accepted.
LEMMA MismatchRollsBack ==
    ASSUME AllInv, UncutInv, pc = "ab_update_rollback", ~env.write_boot,
           mode # "rescueparty", Mismatch
    PROVE  /\ status[active] # "proven" /\ Backed
           /\ RollbackOnMismatch.kind = "mismatch" /\ RollbackOnMismatch.to = Trusted
           /\ RollbackOnMismatch.dst = Main /\ RollbackOnMismatch.src = KeptFor(Trusted)
  <1>1. KeptTrue /\ EnvExpected /\ Opened /\ Point = "ab_update_rollback"
    BY NotWriting DEF UncutInv
  <1>2. /\ ~Later.write_boot /\ Later.reboot_status = "reboot_next"
        /\ Later.expect_index # idx
        /\ idx = IF whole[Main].good THEN Main ELSE KeptFor(Trusted)
    BY <1>1 DEF Opened, Opening, Same, Mismatch
  <1>3. whole[Main] = part[active] /\ Fallback /\ ~whole[Main].good
        /\ idx = KeptFor(Trusted)
    BY <1>1, <1>2 DEF Opened, Opening, EnvExpected
  <1>4. status[active] # "proven"
    BY <1>1, <1>3, UncutFacts DEF KeptTrue
  <1>5. Trusted = Other(active) /\ active \in Slots /\ Trusted \in Slots
    BY <1>1, <1>4, UncutFacts
  <1>6. CurrentSlot = active
    BY <1>1, <1>5 DEF CurrentSlot, AllInv, PromiseInv, Chosen, Picked
  <1> HIDE DEF active, status, Trusted, whole, Later, Point
  <1>7. Backed
    BY <1>3, <1>4 DEF Fallback
  <1>8. CASE Gpt
    BY <1>4, <1>5, <1>6, <1>7, <1>8, PlanMatches DEF RollbackOnMismatch
  <1>9. CASE ~Gpt
    <2>1. CASE Trusted = 0
      BY <1>3, <1>4, <1>7, <1>9, <2>1 DEF RollbackOnMismatch, Main, KeptFor
    <2>2. CASE Trusted = 1
      BY <1>3, <1>4, <1>7, <1>9, <2>2 DEF RollbackOnMismatch, Main, KeptFor
    <2> QED BY <1>5, <2>1, <2>2 DEF Slots
  <1> QED BY <1>8, <1>9

LEMMA UpdateOrRollbackUncut ==
    ASSUME AllInv, UncutInv, ab_update_rollback
    PROVE  UncutInv'
  <1>1. /\ pc = "ab_update_rollback" /\ misc' = misc /\ part' = part /\ osOk' = osOk
        /\ proven' = proven /\ idx' = idx /\ mode' = mode
    BY DEF ab_update_rollback, world
  <1>2. SlotsSame
    BY <1>1, UpdateOrRollbackPromise, SameSlots
  <1>3. /\ KeptTrue /\ EnvExpected /\ Opened /\ TypeOK /\ env \in Env /\ flash.val \in Env
        /\ active \in Slots /\ Point = "ab_update_rollback"
    BY <1>1, UncutFacts, NotWriting DEF UncutInv
  <1>4. flash.ok /\ Later = flash.val
    BY <1>1, <1>3, FlashCounts
  <1>5. /\ Same(env, Later) /\ idx = IF whole[Main].good THEN Main ELSE KeptFor(Trusted)
        /\ Later.write_boot => /\ Gpt /\ status[active] # "proven"
                               /\ whole[Main] = part[Other(active)]
        /\ ~Later.write_boot => whole[Main] = part[active] /\ Fallback
        /\ ~part[active].good => Asking(Later) /\ mode # "rescueparty"
    BY <1>3 DEF Opened, Opening
  <1>6. /\ active' = active /\ status' = status /\ part' = part /\ Trusted' = Trusted
        /\ noted' = noted
        /\ whole' = whole => (KeptTrue' /\ (Fallback' <=> Fallback))
    BY <1>2, <1>3, SlotsView
  <1>7. KeptFor(Trusted) # Main /\ Main # NoIndex /\ Trusted \in Slots
        /\ (status[active] # "proven" => Trusted = Other(active))
    BY <1>3, UncutFacts DEF Main, NoIndex
  <1>8. CurrentSlot = active
    BY <1>3 DEF CurrentSlot, AllInv, PromiseInv, Chosen, Picked
  <1>9. ASSUME pc' # "writing", copies' = copies, flash' = flash
        PROVE  /\ Point' = pc' /\ whole' = whole /\ Later' = Later /\ flash'.ok
    BY <1>1, <1>3, <1>4, <1>9, ViewMoves
  <1>10. CASE /\ env.write_boot
              /\ pc' = "check_boot1"
              /\ UNCHANGED <<flash, copies, env, job, rb>>
    <2>1. /\ Point' = "check_boot1" /\ whole' = whole /\ Later' = Later /\ flash'.ok
      BY <1>9, <1>10
    <2> HIDE DEF active, status, noted, Trusted, whole, Later, Point, EnvJob, Fallback, KeptTrue,
                 SlotsSame
    <2>2. Later.write_boot
      BY <1>5, <1>10 DEF Same
    <2>3. Updates'
      BY <1>5, <1>6, <2>1, <2>2 DEF Updates, Writing0, Main
    <2>4. EnvExpected'
      BY <1>3, <2>1 DEF EnvExpected, Main
    <2>5. Opened' /\ Rolls' /\ Rests' /\ Point' # "bricked"
      BY <2>1 DEF Opened, Rolls, Rests, Opening, Quiet, Rolling
    <2> QED BY <1>6, <2>1, <2>3, <2>4, <2>5 DEF UncutInv
  <1>11. CASE /\ ~env.write_boot
              /\ mode = "rescueparty"
              /\ rb' = RollbackFrom("rescueparty", CurrentSlot)
              /\ pc' = "reason"
              /\ UNCHANGED <<flash, copies, env, job>>
    <2>1. /\ Point' = "reason" /\ whole' = whole /\ Later' = Later /\ flash'.ok
      BY <1>9, <1>11
    <2>2. status[active] # "proven"
      BY <1>3, <1>11 DEF AllInv, PromiseInv, Rescued, Opening
    <2>3. Backed
      BY <1>5, <1>11, <2>2 DEF Same, Fallback
    <2>4. /\ rb'.kind = "rescueparty" /\ rb'.to = Trusted /\ rb'.dst = Main
          /\ rb'.src = KeptFor(Trusted)
      BY <1>3, <1>7, <1>8, <1>11, <2>2, PlanMatches
    <2> HIDE DEF active, status, SlotsSame, Point, Later, whole, EnvJob, Trusted
    <2> QED BY <1>2, <1>11, <2>1, <2>2, <2>3, <2>4, RollsFrom
  <1>12. CASE /\ ~env.write_boot
              /\ mode # "rescueparty"
              /\ env.expect_index # NoIndex
              /\ Mismatch
              /\ rb' = RollbackOnMismatch
              /\ pc' = "copy"
              /\ UNCHANGED <<flash, copies, env, job>>
    <2>1. /\ Point' = "copy" /\ whole' = whole /\ Later' = Later /\ flash'.ok
      BY <1>9, <1>12
    <2>2. /\ status[active] # "proven" /\ Backed
          /\ rb'.kind = "mismatch" /\ rb'.to = Trusted /\ rb'.dst = Main
          /\ rb'.src = KeptFor(Trusted)
      BY <1>1, <1>12, MismatchRollsBack
    <2> HIDE DEF active, status, SlotsSame, Point, Later, whole, EnvJob, Trusted
    <2> QED BY <1>2, <1>12, <2>1, <2>2, RollsFrom
  <1>13. ASSUME Point' \in {"update_tries", "reboot"}, whole' = whole, flash'.ok \/ EnvJob',
                ~Later'.write_boot, Later'.reboot_status # "reboot_next",
                ~Later.write_boot, idx = Main, part[active].good
         PROVE  UncutInv'
    <2> HIDE DEF active, status, noted, Trusted, whole, Later, Point, EnvJob, Fallback, KeptTrue,
                 SlotsSame
    <2>1. Rests'
      BY <1>1, <1>5, <1>6, <1>13 DEF Rests, Quiet, Asking, Main
    <2>2. EnvExpected'
      BY <1>13 DEF EnvExpected
    <2>3. Opened' /\ Rolls' /\ Updates' /\ Point' # "bricked"
      BY <1>13 DEF Opened, Rolls, Updates, Opening, Writing0, Rolling
    <2> QED BY <1>6, <1>13, <2>1, <2>2, <2>3 DEF UncutInv
  <1>14. CASE /\ ~env.write_boot
              /\ env.reboot_status = "reboot_next"
              /\ env.expect_index = idx
              /\ \E next \in AfterExpectedCopy :
                   update_env_part([env EXCEPT !.reboot_status = "reboot_init"],
                                   [flash.val EXCEPT !.reboot_status = "reboot_init"],
                                   next)
    <2> DEFINE e == [env EXCEPT !.reboot_status = "reboot_init"]
               v == [flash.val EXCEPT !.reboot_status = "reboot_init"]
    <2>1. v.reboot_status = "reboot_init" /\ v.write_boot = flash.val.write_boot
      BY <1>3 DEF Env
    <2>2. PICK next \in AfterExpectedCopy : update_env_part(e, v, next)
      BY <1>14
    <2>7. next \in {"update_tries", "reboot"}
      BY DEF AfterExpectedCopy
    <2> HIDE DEF e, v
    <2>3. Point' = next /\ EnvJob' /\ Later' = v /\ whole' = whole
      BY <1>1, <1>3, <2>2, ViewSaves
    <2>4. ~Later.write_boot /\ Later.reboot_status = "reboot_next" /\ Later.expect_index = idx
      BY <1>5, <1>14 DEF Same
    <2>5. idx = Main /\ whole[Main].good
      BY <1>3, <1>5, <1>7, <2>4 DEF EnvExpected
    <2>6. ~Later'.write_boot /\ Later'.reboot_status # "reboot_next"
      BY <1>4, <2>1, <2>3, <2>4
    <2> HIDE DEF active, Point, Later, whole, EnvJob
    <2> QED BY <1>5, <1>13, <2>3, <2>4, <2>5, <2>6, <2>7
  <1>15. CASE /\ ~env.write_boot
              /\ env.expect_index = NoIndex \/ env.reboot_status # "reboot_next"
              /\ pc' = "update_tries"
              /\ UNCHANGED <<flash, copies, env, job, rb>>
    <2>1. /\ Point' = "update_tries" /\ whole' = whole /\ Later' = Later /\ flash'.ok
      BY <1>9, <1>15
    <2>2. ~Later.write_boot /\ Later.reboot_status # "reboot_next"
      BY <1>3, <1>5, <1>7, <1>15 DEF Same, EnvExpected
    <2>3. part[active].good
      BY <1>5, <2>2 DEF Asking
    <2>4. idx = Main
      BY <1>5, <2>2, <2>3
    <2> HIDE DEF active, Point, Later, whole, EnvJob
    <2> QED BY <1>13, <2>1, <2>2, <2>3, <2>4
  <1> QED BY <1>10, <1>11, <1>12, <1>14, <1>15 DEF ab_update_rollback

-----------------------------------------------------------------------------
(* The commands of a rollback.                                             *)

\* What a rollback has of the invariant.
LEMMA RollingUncut ==
    ASSUME AllInv, UncutInv, pc \in Rolling
    PROVE  /\ Point = pc /\ flash.ok /\ Later = flash.val /\ whole = copies
           /\ KeptTrue /\ EnvExpected /\ TypeOK /\ IInv /\ Trusted \in Slots
           /\ rb.src = KeptFor(Trusted) /\ rb.dst = Main /\ rb.to = Trusted /\ Backed
           /\ copies[KeptFor(Trusted)] = part[Trusted]
           /\ Before <=> status[active] # "proven"
           /\ rb.kind = "update" => Gpt
           /\ pc \in {"reason", "check"} => rb.kind # "mismatch"
  <1>1. Point = pc /\ pc # "writing"
    BY NotWriting DEF Rolling
  <1>2. KeptTrue /\ EnvExpected /\ Rolls /\ IInv
    BY DEF UncutInv, AllInv
  <1>3. flash.ok /\ Later = flash.val /\ TypeOK /\ Trusted \in Slots /\ whole = copies
    BY <1>1, <1>2, FlashCounts, UncutFacts, Unwritten
  <1>4. pc \in {"reason", "check"} => rb.kind # "mismatch"
    BY <1>1, <1>2 DEF IInv, PlanOK, PlanAt
  <1>5. /\ rb.src = KeptFor(Trusted) /\ rb.dst = Main /\ rb.to = Trusted /\ Backed
        /\ Before <=> status[active] # "proven"
        /\ rb.kind = "update" => Gpt
    BY <1>1, <1>2 DEF Rolls
  <1>6. copies[KeptFor(Trusted)] = part[Trusted]
    BY <1>3, <1>5 DEF Backed
  <1> QED BY <1>1, <1>2, <1>3, <1>4, <1>5, <1>6

LEMMA ReasonUncut ==
    ASSUME AllInv, UncutInv, rollback_reason
    PROVE  UncutInv'
  <1>1. /\ pc = "reason" /\ misc' = misc /\ part' = part /\ osOk' = osOk
        /\ proven' = proven /\ rb' = rb
    BY DEF rollback_reason, world
  <1>2. SlotsSame
    BY <1>1, ReasonPromise, SameSlots
  <1>3. /\ Point = "reason" /\ flash.ok /\ Later = flash.val /\ EnvExpected /\ TypeOK
        /\ IInv /\ rb.kind # "mismatch"
    BY <1>1, RollingUncut DEF Rolling
  <1>4. Following \in {"check", "cancel"}
    BY <1>1, <1>3, Ways
  <1>5. /\ Point' = Following /\ env' = env /\ Later' = Later /\ whole' = whole
        /\ flash'.ok \/ EnvJob'
    <2>1. CASE update_env_part(env, flash.val, Following)
      <3>1. /\ Point' = Following /\ EnvJob' /\ env' = env /\ Later' = flash.val
            /\ whole' = whole
        BY <1>1, <1>3, <2>1, ViewSaves
      <3> HIDE DEF Point, Later, whole, EnvJob
      <3> QED BY <1>3, <3>1
    <2>2. CASE pc' = Following /\ UNCHANGED <<flash, copies, env, job>>
      <3>1. /\ Point' = Following /\ whole' = whole /\ Later' = Later
            /\ flash'.ok = flash.ok
        BY <1>1, <1>3, <1>4, <2>2, ViewMoves
      <3> HIDE DEF Point, Later, whole, EnvJob
      <3> QED BY <1>3, <2>2, <3>1
    <2> QED BY <2>1, <2>2 DEF rollback_reason, SaveUnread
  <1>6. Before' <=> Before
    BY <1>3, <1>4, <1>5 DEF Before
  <1> HIDE DEF SlotsSame, Point, Later, whole, EnvJob, Before
  <1> QED BY <1>1, <1>2, <1>3, <1>4, <1>5, <1>6, RollsAhead DEF Rolling

\* The bootloader that check_bootloader wants in boot1 is there already; the one that
\* is kept is copied over the copy that is started.
LEMMA CommandUncut ==
    ASSUME AllInv, UncutInv, \/ check_bootloader \/ set_mergestatus_cancel
                             \/ write_bootloader_back \/ set_roll_flag
    PROVE  UncutInv'
  <1>1. /\ pc \in {"check", "cancel", "copy", "flag"} /\ part' = part /\ osOk' = osOk
        /\ proven' = proven /\ rb' = rb
        /\ misc' = misc \/ misc' = [misc EXCEPT !.roll_flag = TRUE]
    BY DEF check_bootloader, set_mergestatus_cancel, write_bootloader_back, set_roll_flag,
           boot_info_save, storage, ram, world
  <1>2. SlotsSame
    BY <1>1, CommandPromise, SameSlots
  <1>3. /\ Point = pc /\ flash.ok /\ Later = flash.val /\ EnvExpected /\ TypeOK /\ IInv
        /\ whole = copies /\ rb.src = KeptFor(Trusted) /\ rb.dst = Main /\ rb.to = Trusted
        /\ copies[KeptFor(Trusted)] = part[Trusted]
        /\ pc = "check" => rb.kind # "mismatch"
    BY <1>1, RollingUncut DEF Rolling
  <1>4. Main \in Copies
    BY DEF Main, Copies
  <1>5. /\ pc = "check" => \/ rb.kind = "valid_slot" /\ Following = "flag"
                           \/ rb.kind = "update" /\ Following = "copy"
        /\ pc = "cancel" => \/ rb.kind = "rescueparty" /\ Following = "copy"
                            \/ rb.kind = "mismatch" /\ Following = "flag"
        /\ pc = "copy" => \/ rb.kind = "valid_slot" /\ Following = "env"
                          \/ rb.kind # "valid_slot" /\ Following \in {"cancel", "flag"}
        /\ pc = "flag" => Following = "active"
    <2>1. PlanAt(pc)
      BY <1>3 DEF IInv, PlanOK
    <2>2. CASE pc = "cancel"
      BY <2>1, <2>2 DEF Following, PlanAt
    <2> QED BY <1>3, <2>2, Ways
  <1>6. Point' = Following => (Before' <=> Before)
    BY <1>1, <1>3, <1>5 DEF Before
  <1>7. Rolls
    BY DEF UncutInv
  <1>8. ASSUME pc # "copy", pc' = Following, UNCHANGED <<flash, copies, env>>
        PROVE  UncutInv'
    <2>1. pc # "writing" /\ pc' # "writing" /\ pc' \in {"flag", "copy", "active"}
      BY <1>1, <1>5, <1>8
    <2>2. /\ Point' = Following /\ whole' = whole /\ Later' = Later /\ flash'.ok = flash.ok
      BY <1>3, <1>8, <2>1, ViewMoves
    <2> HIDE DEF SlotsSame, Point, Later, whole, EnvJob, Before, Trusted
    <2>3. /\ pc' = "active" /\ rb.kind # "valid_slot" => whole'[Main] = part[Trusted]
          /\ pc' = "flag" /\ rb.kind # "valid_slot" => whole'[Main] = part[Trusted]
      BY <1>1, <1>3, <1>5, <1>7, <1>8, <2>2 DEF Rolls, Rolling
    <2> QED BY <1>1, <1>2, <1>3, <1>6, <1>8, <2>1, <2>2, <2>3, RollsAhead DEF Rolling
  <1>9. CASE check_bootloader
    <2>1. pc = "check"
      BY <1>9 DEF check_bootloader
    <2>2. Gpt => KeptFor(Trusted) = 2
      BY DEF KeptFor
    <2>3. ~(Gpt /\ copies[2] # part[rb.to])
      BY <1>3, <2>2
    <2>4. pc' = Following /\ UNCHANGED <<flash, copies, env>>
      BY <1>9, <2>3 DEF check_bootloader
    <2> QED BY <1>8, <2>1, <2>4
  <1>10. CASE set_mergestatus_cancel \/ set_roll_flag
    BY <1>8, <1>10 DEF set_mergestatus_cancel, set_roll_flag, boot_info_save, storage, ram
  <1>11. CASE write_bootloader_back
    <2>1. pc = "copy" /\ StartBootWrite(Main, part[Trusted], Following)
      BY <1>3, <1>11 DEF write_bootloader_back
    <2>2. /\ Point' = Following /\ env' = env /\ flash'.ok = flash.ok /\ Later' = Later
          /\ whole'[Main] = part[Trusted]
          /\ \A d \in Copies : d # Main => whole'[d] = whole[d]
      BY <1>3, <1>4, <2>1, ViewCopies
    <2>3. /\ Following \in {"env", "cancel", "flag"}
          /\ Following = "env" => rb.kind = "valid_slot"
      BY <1>5, <2>1
    <2> HIDE DEF SlotsSame, Point, Later, whole, EnvJob, Before, Trusted
    <2> QED BY <1>1, <1>2, <1>3, <1>6, <2>1, <2>2, <2>3, RollsAhead DEF Rolling
  <1> QED BY <1>9, <1>10, <1>11

LEMMA SetActiveSlots ==
    ASSUME AllInv, UncutInv, set_active_slot
    PROVE  active' = Trusted /\ status' = status /\ noted' = noted
  <1>1. pc = "active"
    BY DEF set_active_slot
  <1>2. /\ Point = pc /\ KeptTrue /\ IInv /\ rb.to = Trusted /\ status[active] # "proven"
    BY <1>1, RollingUncut DEF Rolling, Before
  <1>3. /\ misc \in BootloaderControl /\ active \in Slots
        /\ Trusted \in Slots /\ status[Trusted] = "proven" /\ status \in [Slots -> Statuses]
        /\ TypeOK /\ Valid
    BY <1>2, TypeFacts, UncutFacts DEF AllInv, IInv, PromiseInv
  <1>4. misc.magic = "vab" /\ Migrated(misc) = misc /\ Validated(misc) = misc
    BY <1>1, <1>2, <1>3, ValidMeta DEF Early
  <1> DEFINE s == Trusted
             new == boot_info_set_active_slot(misc, s)
  <1>5. misc' = new
    BY <1>2, <1>3, <1>4 DEF set_active_slot, boot_info_save
  <1>6. s \in Slots
    BY <1>3
  <1> HIDE DEF s
  <1>7. /\ new.magic = "vab" /\ ActiveIn(new) = s
        /\ StatusIn(new)[s] = IF StatusIn(misc)[s] = "proven" THEN "proven" ELSE "trial"
        /\ \A t \in Slots : t # s => StatusIn(new)[t] = StatusIn(misc)[t]
        /\ new \in BootloaderControl
    BY <1>3, <1>4, <1>6, MappedSetActive
  <1>8. \A t \in Slots : new.slot[t].uboot_status = misc.slot[t].uboot_status
    BY <1>3, <1>6, NotedSetActive
  <1> HIDE DEF new
  <1>9. Migrated(new) = new
    BY <1>7, MappedValid
  <1>10. /\ active' = s /\ status' = StatusIn(new)
         /\ noted' = {t \in Slots : misc'.slot[t].uboot_status = 2}
    BY <1>4, <1>5, <1>7, <1>9, NextMeta DEF noted
  <1>11. noted' = noted
    BY <1>4, <1>5, <1>8, <1>10 DEF noted
  <1>12. status' = status
    <2>1. status'[s] = "proven" /\ status[s] = "proven"
      BY <1>3, <1>7, <1>10 DEF status, s
    <2>2. \A t \in Slots : status'[t] = status[t]
      BY <1>7, <1>10, <2>1 DEF status
    <2>3. status' \in [Slots -> Statuses]
      BY <1>7, <1>10, Mapped
    <2> QED BY <1>3, <2>2, <2>3
  <1> QED BY <1>10, <1>11, <1>12 DEF s

\* The slot gone back to becomes the active one and stays the trusted one.
LEMMA SetActiveUncut ==
    ASSUME AllInv, UncutInv, set_active_slot
    PROVE  UncutInv'
  <1>1. /\ pc = "active" /\ pc' = Following /\ rb' = rb /\ mode' = mode /\ flash' = flash
        /\ copies' = copies /\ part' = part /\ osOk' = osOk /\ proven' = proven
        /\ idx' = idx
    BY DEF set_active_slot, boot_info_save, world
  <1>2. /\ Point = pc /\ flash.ok /\ EnvExpected /\ KeptTrue /\ IInv
        /\ rb.src = KeptFor(Trusted) /\ rb.dst = Main /\ rb.to = Trusted /\ Backed
        /\ status[active] # "proven"
        /\ rb.kind = "update" => Gpt
    BY <1>1, RollingUncut DEF Rolling, Before
  <1>3. /\ misc \in BootloaderControl /\ env \in Env /\ active \in Slots
        /\ Trusted \in Slots /\ status[Trusted] = "proven" /\ status \in [Slots -> Statuses]
        /\ Trusted = Other(active) /\ TypeOK /\ Valid
        /\ \A t \in Slots : t # active => t = Other(active)
    BY <1>2, TypeFacts, UncutFacts DEF AllInv, IInv, PromiseInv
  <1>4. misc.magic = "vab" /\ Migrated(misc) = misc /\ Validated(misc) = misc
    BY <1>1, <1>2, <1>3, ValidMeta DEF Early
  <1>5. env' = [env EXCEPT !.slot_suffixes = Trusted]
    BY <1>2, <1>3, <1>4 DEF set_active_slot, boot_info_save
  <1>6. active' = Trusted /\ status' = status /\ noted' = noted
    BY SetActiveSlots
  <1>7. active' = Trusted /\ status'[active'] = "proven" /\ Trusted' = Trusted
    BY <1>3, <1>6 DEF Trusted
  <1>8. env'.write_boot = env.write_boot
    BY <1>3, <1>5, AsksSame
  <1>9. \/ rb.kind = "valid_slot" /\ pc' = "copy"
        \/ rb.kind = "update" /\ pc' = "boot0_env"
        \/ rb.kind \in {"rescueparty", "mismatch"} /\ pc' = "env"
    BY <1>1, <1>2, Ways
  <1>10. /\ Point' = pc' /\ whole' = whole /\ Later' = Later /\ flash'.ok
    BY <1>1, <1>2, <1>3, <1>9, ViewMoves
  <1>11. /\ rb.kind # "valid_slot" => whole[Main] = part[Trusted]
         /\ rb.kind # "update" => ~env.write_boot
    <2>1. Point = "active" /\ rb.to = Trusted /\ Point \in Rolling
      BY <1>1, <1>2 DEF Rolling
    <2> QED BY <2>1 DEF UncutInv, Rolls
  <1>12. part[Trusted].good /\ part[Trusted] # Torn
    BY <1>2, UncutFacts DEF Torn
  <1>13. Backed' /\ KeptTrue' /\ Fallback'
    <2> HIDE DEF active, status, noted, Trusted, whole
    <2>1. Backed'
      BY <1>1, <1>2, <1>6, <1>7, <1>10 DEF Backed, KeptFor
    <2>2. KeptTrue'
      BY <1>1, <1>2, <1>6, <1>7, <1>10, <1>12 DEF KeptTrue
    <2> QED BY <2>1, <2>2 DEF Fallback
  <1> HIDE DEF active, status, noted, Trusted, whole, Later, Point, EnvJob, Backed, KeptTrue,
               Fallback
  <1>14. EnvExpected'
    BY <1>2, <1>10 DEF EnvExpected, Main
  <1>15. Opened' /\ Rests' /\ Point' # "bricked"
    BY <1>9, <1>10 DEF Opened, Rests, Opening, Quiet
  <1>16. Updates'
    BY <1>1, <1>2, <1>7, <1>9, <1>10, <1>11, <1>13 DEF Updates, Writing0, Main
  <1>17. Rolls'
    <2>1. Point' \in Rolling => /\ ~Before' /\ rb.kind # "update"
                                /\ Point' = "env" => whole[Main] = part[Trusted]
                                /\ Point' \in {"copy", "env"}
      BY <1>1, <1>9, <1>10, <1>11 DEF Rolling, Before
    <2>2. /\ rb'.src = KeptFor(rb'.to) /\ rb'.dst = Main /\ rb'.to = Trusted'
      BY <1>1, <1>2, <1>7
    <2> HIDE DEF Before
    <2> QED BY <1>1, <1>7, <1>8, <1>10, <1>11, <1>13, <2>1, <2>2 DEF Rolls, Main, KeptFor
  <1> QED BY <1>13, <1>14, <1>15, <1>16, <1>17 DEF UncutInv

\* The env that asks for the next start is written when the copy has been.
LEMMA AskUncut ==
    ASSUME AllInv, UncutInv, boot0_env \/ RollbackEnv
    PROVE  UncutInv'
  <1>1. /\ pc \in {"boot0_env", "env"} /\ misc' = misc /\ part' = part /\ osOk' = osOk
        /\ proven' = proven
    BY DEF boot0_env, RollbackEnv, world
  <1>2. SlotsSame
    BY <1>1, AskPromise, SameSlots
  <1>3. /\ env \in Env /\ Point = pc /\ TypeOK /\ KeptTrue /\ EnvExpected
    BY <1>1, UncutFacts, NotWriting DEF UncutInv
  <1>4. PICK e : /\ StartEnvWrite(e, e, "reboot")
                 /\ e.expect_index = Main /\ ~e.write_boot
                 /\ e.reboot_status = "reboot_next"
    <2>1. CASE boot0_env
      <3>1. /\ Boot0Written(env).expect_index = 1 /\ ~Boot0Written(env).write_boot
            /\ Boot0Written(env).reboot_status = "reboot_next"
        BY <1>3 DEF Boot0Written, Env
      <3>2. Gpt
        BY <1>3, <2>1 DEF UncutInv, Updates, boot0_env
      <3> QED BY <2>1, <3>1, <3>2 DEF boot0_env, saveenv, Main
    <2>2. CASE RollbackEnv
      <3> DEFINE e == [env EXCEPT !.update_env = TRUE, !.reboot_status = "reboot_next",
                                  !.expect_index = rb.dst]
      <3>1. pc = "env" /\ StartEnvWrite(e, e, "reboot")
        BY <2>2 DEF RollbackEnv, saveenv
      <3>2. rb.dst = Main
        BY <3>1, RollingUncut DEF Rolling
      <3>3. ~env.write_boot
        BY <1>3, <3>1 DEF UncutInv, Rolls, Rolling
      <3>4. /\ e.expect_index = rb.dst /\ e.write_boot = env.write_boot
            /\ e.reboot_status = "reboot_next"
        BY <1>3 DEF Env
      <3> QED BY <3>1, <3>2, <3>3, <3>4
    <2> QED BY <2>1, <2>2
  <1>5. Point' = "reboot" /\ EnvJob' /\ Later' = e /\ whole' = whole
    BY <1>1, <1>3, <1>4, ViewSaves
  <1>6. whole[Main] = part[active] /\ Fallback
    <2>1. CASE pc = "boot0_env"
      BY <1>3, <2>1 DEF UncutInv, Updates
    <2>2. CASE pc = "env"
      <3>1. ~Before /\ Point \in Rolling
        BY <1>3, <2>2 DEF Before, Rolling
      <3>2. status[active] = "proven" /\ rb.to = Trusted
        BY <2>2, <3>1, RollingUncut DEF Rolling
      <3>3. whole[Main] = part[rb.to]
        BY <1>3, <2>2, <3>1 DEF UncutInv, Rolls
      <3>4. Trusted = active
        BY <1>3, <3>2, UncutFacts
      <3> QED BY <3>2, <3>3, <3>4 DEF Fallback
    <2> QED BY <1>1, <2>1, <2>2
  <1>7. /\ active' = active /\ part' = part /\ KeptTrue' /\ (Fallback' <=> Fallback)
    BY <1>2, <1>3, <1>5, SlotsView
  <1> HIDE DEF active, status, noted, Trusted, whole, Later, Point, EnvJob, Fallback, KeptTrue
  <1>8. EnvExpected'
    BY <1>4, <1>5 DEF EnvExpected, Main
  <1>9. Rests'
    BY <1>4, <1>5, <1>6, <1>7 DEF Rests, Asking, Quiet, Main
  <1>10. Opened' /\ Updates' /\ Rolls' /\ Point' # "bricked"
    BY <1>5 DEF Opened, Updates, Rolls, Opening, Rolling, Writing0
  <1> QED BY <1>7, <1>8, <1>9, <1>10 DEF UncutInv

-----------------------------------------------------------------------------
(* The update of boot0, the backup, and the end of preboot.                *)

\* What the writes to boot0 and boot1 have of the invariant.
LEMMA UpdatingUncut ==
    ASSUME AllInv, UncutInv, pc \in {"check_boot1", "boot1_checked"} \cup Writing0
    PROVE  /\ Point = pc /\ flash.ok /\ whole = copies /\ TypeOK
           /\ KeptTrue /\ EnvExpected /\ Gpt /\ Main = 1
           /\ status[active] # "proven" /\ Trusted = Other(active)
           /\ env.slot_suffixes = active /\ CurrentSlot = active
  <1>1. Point = pc /\ pc # "writing"
    BY NotWriting DEF Writing0
  <1>2. KeptTrue /\ EnvExpected /\ Updates
    BY DEF UncutInv
  <1>3. /\ flash.ok /\ TypeOK /\ active \in Slots /\ whole = copies
    BY <1>1, <1>2, FlashCounts, UncutFacts, Unwritten
  <1>4. Gpt /\ status[active] # "proven"
    BY <1>1, <1>2 DEF Updates
  <1>5. Trusted = Other(active) /\ Main = 1
    BY <1>2, <1>4, UncutFacts DEF Main
  <1>6. env.slot_suffixes = active
    BY <1>1 DEF AllInv, PromiseInv, Chosen, Picked, Writing0
  <1>7. CurrentSlot = active
    BY <1>3, <1>6 DEF CurrentSlot
  <1> QED BY <1>1, <1>2, <1>3, <1>4, <1>5, <1>6, <1>7

LEMMA CheckBoot1Uncut ==
    ASSUME AllInv, UncutInv, check_boot1
    PROVE  UncutInv'
  <1>1. /\ pc = "check_boot1" /\ misc' = misc /\ part' = part /\ osOk' = osOk
        /\ proven' = proven
    BY DEF check_boot1, world
  <1>2. SlotsSame
    BY <1>1, OnwardSlots DEF Onward
  <1>3. /\ Point = pc /\ flash.ok /\ whole = copies /\ TypeOK
        /\ KeptTrue /\ EnvExpected /\ Gpt /\ Main = 1
        /\ status[active] # "proven" /\ Trusted = Other(active)
    BY <1>1, UpdatingUncut
  <1>4. MustCheckBoot1 <=> Trusted \notin noted
    <2>1. status[Trusted] = "proven"
      BY <1>3, UncutFacts
    <2> QED BY <1>1, <1>3, <2>1, Musts DEF Early
  <1>5. /\ Point' = "boot1_checked" /\ flash'.ok /\ Later' = Later /\ whole'[1] = whole[1]
        /\ Trusted \notin noted => whole'[2] = whole[1]
        /\ \A c \in Copies : c # 1 /\ ~(c = 2 /\ Trusted \notin noted) => whole'[c] = whole[c]
    <2>1. CASE MustCheckBoot1 /\ ~BootSame(1, 2)
      <3>1. StartBootWrite(2, copies[1], "boot1_checked")
        BY <2>1 DEF check_boot1
      <3>2. /\ Point' = "boot1_checked" /\ flash'.ok = flash.ok /\ Later' = Later
            /\ whole'[2] = copies[1]
            /\ \A d \in Copies : d # 2 => whole'[d] = whole[d]
        <4>1. TypeOK /\ pc # "writing" /\ 2 \in Copies
          BY <1>1, <1>3 DEF Copies
        <4> HIDE DEF Point, whole, Later
        <4> QED BY <3>1, <4>1, ViewCopies
      <3> HIDE DEF Point, whole, Later, noted, Trusted
      <3> QED BY <1>3, <1>4, <2>1, <3>2 DEF Copies
    <2>2. CASE ~(MustCheckBoot1 /\ ~BootSame(1, 2))
      <3>1. pc' = "boot1_checked" /\ UNCHANGED <<flash, copies, env, job>>
        BY <2>2 DEF check_boot1
      <3>2. /\ Point' = "boot1_checked" /\ flash'.ok = flash.ok /\ Later' = Later
            /\ whole' = whole
        BY <1>1, <1>3, <3>1, ViewMoves
      <3> HIDE DEF Point, whole, Later, noted, Trusted
      <3> QED BY <1>3, <1>4, <2>2, <3>2 DEF BootSame
    <2> QED BY <2>1, <2>2
  <1>6. /\ active' = active /\ status' = status /\ part' = part /\ Trusted' = Trusted
        /\ noted' = noted
    BY <1>2, SlotsView
  <1>7. whole[1] = part[Other(active)]
    BY <1>1, <1>3 DEF UncutInv, Updates
  <1>8. KeptTrue'
    <2> HIDE DEF SlotsSame, whole, noted, Trusted, KeptTrue
    <2> QED BY <1>2, <1>3, <1>5, KeptOn
  <1> HIDE DEF active, status, noted, Trusted, whole, Later, Point, EnvJob, Fallback, KeptTrue
  <1>9. EnvExpected'
    BY <1>3, <1>5 DEF EnvExpected, Main
  <1>10. Updates'
    BY <1>3, <1>5, <1>6, <1>7 DEF Updates, Writing0, Main
  <1>11. Opened' /\ Rests' /\ Rolls' /\ Point' # "bricked"
    BY <1>5 DEF Opened, Rests, Rolls, Opening, Rolling, Quiet
  <1> QED BY <1>8, <1>9, <1>10, <1>11 DEF UncutInv

LEMMA WriteBoot0Uncut ==
    ASSUME AllInv, UncutInv, write_boot0
    PROVE  UncutInv'
  <1>1. /\ pc = "write_boot0" /\ misc' = misc /\ part' = part /\ osOk' = osOk
        /\ proven' = proven /\ StartBootWrite(1, part[env.slot_suffixes], "update_gpt")
    BY DEF write_boot0, world
  <1>2. SlotsSame
    BY <1>1, OnwardSlots DEF Onward
  <1>3. /\ Point = pc /\ flash.ok /\ TypeOK
        /\ KeptTrue /\ EnvExpected /\ Gpt /\ Main = 1
        /\ status[active] # "proven" /\ env.slot_suffixes = active
    BY <1>1, UpdatingUncut DEF Writing0
  <1>4. /\ Point' = "update_gpt" /\ flash'.ok /\ Later' = Later /\ whole'[1] = part[active]
        /\ \A d \in Copies : d # 1 => whole'[d] = whole[d]
    <2>1. TypeOK /\ pc # "writing" /\ 1 \in Copies
          /\ StartBootWrite(1, part[active], "update_gpt")
      BY <1>1, <1>3 DEF Copies
    <2>2. Point' = "update_gpt" /\ flash'.ok = flash.ok /\ Later' = Later
          /\ whole'[1] = part[active]
          /\ \A d \in Copies : d # 1 => whole'[d] = whole[d]
      BY <2>1, ViewCopies
    <2> QED BY <1>3, <2>2
  <1>5. Backed
    BY <1>1, <1>3 DEF UncutInv, Updates, Writing0
  <1>6. /\ active' = active /\ status' = status /\ part' = part
    BY <1>2, SlotsView
  <1>7. KeptTrue' /\ Backed'
    <2>1. Gpt => Trusted \in noted
      BY <1>5 DEF Backed
    <2> HIDE DEF SlotsSame, whole, noted, Trusted, KeptTrue
    <2> QED BY <1>2, <1>3, <1>4, <1>5, <2>1, KeptOn
  <1> HIDE DEF active, status, noted, Trusted, whole, Later, Point, EnvJob, Backed, KeptTrue
  <1>8. EnvExpected'
    BY <1>3, <1>4 DEF EnvExpected, Main
  <1>9. Updates'
    BY <1>3, <1>4, <1>6, <1>7 DEF Updates, Fallback, Writing0, Main
  <1>10. Opened' /\ Rests' /\ Rolls' /\ Point' # "bricked"
    BY <1>4 DEF Opened, Rests, Rolls, Opening, Rolling, Quiet
  <1> QED BY <1>7, <1>8, <1>9, <1>10 DEF UncutInv

\* An update that fails is rolled back; one that goes on has written boot0.
LEMMA GivesUpUncut ==
    ASSUME AllInv, UncutInv, write_boot0_fails \/ update_gpt
    PROVE  UncutInv'
  <1>1. /\ pc \in Writing0 /\ misc' = misc /\ part' = part /\ osOk' = osOk
        /\ proven' = proven /\ copies' = copies /\ flash' = flash /\ env' = env
    BY DEF write_boot0_fails, update_gpt, storage, world, Writing0
  <1>2. SlotsSame
    BY <1>1, OnwardSlots DEF Onward
  <1>3. /\ Point = pc /\ flash.ok /\ TypeOK
        /\ KeptTrue /\ EnvExpected /\ Gpt
        /\ status[active] # "proven" /\ CurrentSlot = active /\ Trusted = Other(active)
    BY <1>1, UpdatingUncut
  <1>4. ASSUME pc' # "writing"
        PROVE  Point' = pc' /\ whole' = whole /\ Later' = Later /\ flash'.ok
    BY <1>1, <1>3, <1>4, ViewMoves DEF Writing0
  <1>5. Backed
    BY <1>1, <1>3 DEF UncutInv, Updates
  <1>6. CASE rb' = RollbackFrom("update", CurrentSlot) /\ pc' \in {"reason", "check"}
    <2>1. Point' = pc' /\ whole' = whole /\ Later' = Later /\ flash'.ok
      BY <1>4, <1>6
    <2>2. /\ rb'.kind = "update" /\ rb'.to = Trusted /\ rb'.dst = Main
          /\ rb'.src = KeptFor(Trusted)
      BY <1>3, <1>6, PlanMatches, TypeFacts
    <2> HIDE DEF active, status, SlotsSame, Point, Later, whole, EnvJob, Trusted
    <2> QED BY <1>2, <1>3, <1>5, <1>6, <2>1, <2>2, RollsFrom
  <1>7. CASE pc = "update_gpt" /\ pc' = "boot0_env"
    <2>1. Point' = "boot0_env" /\ whole' = whole /\ Later' = Later /\ flash'.ok
      BY <1>4, <1>7
    <2>2. whole[Main] = part[active] /\ Fallback
      BY <1>3, <1>7 DEF UncutInv, Updates
    <2>3. /\ active' = active /\ part' = part /\ KeptTrue' /\ (Fallback' <=> Fallback)
      BY <1>2, <1>3, <2>1, SlotsView
    <2> HIDE DEF active, status, noted, Trusted, whole, Later, Point, EnvJob, Fallback,
                 KeptTrue
    <2>4. EnvExpected'
      BY <1>3, <2>1 DEF EnvExpected, Main
    <2>5. Updates'
      BY <1>3, <2>1, <2>2, <2>3 DEF Updates, Writing0, Main
    <2>6. Opened' /\ Rests' /\ Rolls' /\ Point' # "bricked"
      BY <2>1 DEF Opened, Rests, Rolls, Opening, Rolling, Quiet
    <2> QED BY <2>3, <2>4, <2>5, <2>6 DEF UncutInv
  <1> QED BY <1>6, <1>7 DEF write_boot0_fails, update_gpt

LEMMA QuietUncut ==
    ASSUME AllInv, UncutInv, pc \in Quiet
    PROVE  /\ Point = pc /\ pc # "writing" /\ flash.ok /\ whole = copies /\ TypeOK
           /\ KeptTrue /\ EnvExpected /\ Later = flash.val
           /\ whole[Main] = part[active] /\ Fallback /\ idx = Main
           /\ part[active].good /\ ~Asking(Later)
  <1>1. Point = pc /\ pc # "writing"
    BY NotWriting DEF Quiet
  <1>2. KeptTrue /\ EnvExpected /\ Rests
    BY DEF UncutInv
  <1>3. flash.ok /\ Later = flash.val /\ TypeOK /\ whole = copies
    BY <1>1, <1>2, FlashCounts, UncutFacts, Unwritten
  <1>4. /\ whole[Main] = part[active] /\ Fallback /\ idx = Main
        /\ part[active].good /\ ~Asking(Later)
    <2>1. Point \in Quiet /\ Point # "reboot"
      BY <1>1 DEF Quiet
    <2> QED BY <1>2, <2>1 DEF Rests
  <1> QED BY <1>1, <1>2, <1>3, <1>4

\* A slot is noted.
LEMMA NotesOne ==
    ASSUME AllInv, Onward, Point \notin Early, NEW s \in Slots,
           misc' = [misc EXCEPT !.slot[s].uboot_status = 2]
    PROVE  active' = active /\ status' = status /\ noted' = noted \cup {s} /\ Trusted' = Trusted
  <1>1. active' = active /\ status' = status
    BY OnwardUnseen DEF Unseen, Stutters
  <1>2. misc \in BootloaderControl /\ misc.magic = "vab"
    BY ValidMeta DEF AllInv, IInv, TypeOK, PromiseInv
  <1>3. noted' = {t \in Slots : Migrated(misc').slot[t].uboot_status = 2}
    BY DEF noted, Migrated
  <1>4. {t \in Slots : Migrated([misc EXCEPT !.slot[s].uboot_status = 2]).slot[t].uboot_status = 2}
          = {t \in Slots : Migrated(misc).slot[t].uboot_status = 2} \cup {s}
    BY <1>2, NoteTaken
  <1> QED BY <1>1, <1>3, <1>4, SameTrusted DEF noted

\* boot1 holds the bootloader of the slot that is noted.
LEMMA Boot1CheckedUncut ==
    ASSUME AllInv, UncutInv, boot1_checked
    PROVE  UncutInv'
  <1>1. /\ pc = "boot1_checked" /\ pc' = "write_boot0" /\ part' = part /\ osOk' = osOk
        /\ proven' = proven /\ copies' = copies /\ flash' = flash /\ Onward
        /\ misc' = IF MustCheckBoot1
                   THEN [misc EXCEPT !.slot[BackupSlot].uboot_status = 2] ELSE misc
    BY DEF boot1_checked, boot_info_save, ram, world, Onward
  <1>2. /\ Point = pc /\ flash.ok /\ whole = copies /\ TypeOK
        /\ KeptTrue /\ EnvExpected /\ Gpt /\ Main = 1
        /\ status[active] # "proven" /\ Trusted = Other(active)
    BY <1>1, UpdatingUncut
  <1>3. /\ Point' = pc' /\ whole' = whole /\ Later' = Later /\ flash'.ok
    BY <1>1, <1>2, ViewMoves
  <1>4. Point \notin Early /\ active = get_active_slot(misc)
    BY <1>1, <1>2, ValidMeta DEF Early, AllInv, PromiseInv
  <1>5. /\ Trusted \in Slots /\ status[Trusted] = "proven" /\ BackupSlot = Trusted
        /\ MustCheckBoot1 <=> Trusted \notin noted
    BY <1>2, <1>4, UncutFacts, Musts DEF BackupSlot
  <1>6. /\ active' = active /\ status' = status /\ Trusted' = Trusted
        /\ Trusted \in noted' /\ noted' \subseteq noted \cup {Trusted}
    <2> DEFINE s == Trusted
    <2>1. s \in Slots
      BY <1>5
    <2>2. CASE MustCheckBoot1
      <3>1. misc' = [misc EXCEPT !.slot[s].uboot_status = 2]
        BY <1>1, <1>5, <2>2
      <3> HIDE DEF s
      <3>2. active' = active /\ status' = status /\ noted' = noted \cup {s} /\ Trusted' = Trusted
        BY <1>1, <1>4, <2>1, <3>1, NotesOne
      <3> QED BY <3>2 DEF s
    <2>3. CASE ~MustCheckBoot1
      <3>1. SlotsSame
        BY <1>1, <2>3, OnwardSlots
      <3>2. active' = active /\ status' = status /\ noted' = noted /\ Trusted' = Trusted
        BY <3>1, SlotsView
      <3> HIDE DEF active, status, noted, Trusted
      <3> QED BY <1>5, <2>3, <3>2
    <2> QED BY <2>2, <2>3
  <1>7. whole[1] = part[Trusted] /\ whole[2] = part[Trusted]
    <2>1. whole[1] = part[Trusted] /\ (Trusted \notin noted => whole[2] = whole[1])
      BY <1>1, <1>2 DEF UncutInv, Updates
    <2>2. Trusted \in noted => whole[2] = part[Trusted]
      BY <1>2 DEF KeptTrue
    <2> QED BY <2>1, <2>2
  <1> HIDE DEF active, status, noted, Trusted, whole, Later, Point, EnvJob
  <1>8. KeptTrue' /\ Backed'
    BY <1>1, <1>2, <1>3, <1>6, <1>7 DEF KeptTrue, Backed, KeptFor
  <1> HIDE DEF KeptTrue, Backed
  <1>9. EnvExpected'
    BY <1>2, <1>3 DEF EnvExpected, Main
  <1>10. Updates'
    BY <1>1, <1>2, <1>3, <1>6, <1>7, <1>8 DEF Updates, Writing0, Main
  <1>11. Opened' /\ Rests' /\ Rolls' /\ Point' # "bricked"
    BY <1>1, <1>3 DEF Opened, Rests, Rolls, Opening, Rolling, Quiet
  <1> QED BY <1>8, <1>9, <1>10, <1>11 DEF UncutInv

LEMMA BackUpUncut ==
    ASSUME AllInv, UncutInv, backup_boot1
    PROVE  UncutInv'
  <1>1. /\ pc = "backup_boot1" /\ misc' = misc /\ part' = part /\ osOk' = osOk
        /\ proven' = proven /\ idx' = idx
    BY DEF backup_boot1, world
  <1>2. SlotsSame
    BY <1>1, OnwardSlots DEF Onward
  <1>3. /\ Point = pc /\ pc # "writing" /\ flash.ok /\ whole = copies /\ TypeOK
        /\ KeptTrue /\ EnvExpected /\ whole[Main] = part[active] /\ Fallback /\ idx = Main
        /\ part[active].good /\ ~Asking(Later)
    BY <1>1, QuietUncut DEF Quiet
  <1>4. Gpt => (MustBackup <=> status[active] = "proven" /\ active \notin noted)
    <2>1. Gpt => idx # 2
      BY <1>3 DEF Main
    <2> QED BY <1>1, <1>3, <2>1, Musts DEF Early
  <1>5. CASE MustBackup /\ ~BootSame(1, 2)
    <2>1. StartBootWrite(2, copies[1], "boot1_backed_up")
      BY <1>5 DEF backup_boot1
    <2>2. Gpt /\ Main = 1 /\ 2 \in Copies /\ 1 \in Copies
      BY <1>5 DEF MustBackup, Main, Copies
    <2>3. status[active] = "proven" /\ Trusted = active /\ Trusted \notin noted
      BY <1>4, <1>5, <2>2 DEF Trusted
    <2>4. /\ Point' = "boot1_backed_up" /\ flash'.ok = flash.ok /\ Later' = Later
          /\ whole'[2] = copies[1]
          /\ \A d \in Copies : d # 2 => whole'[d] = whole[d]
      BY <1>1, <1>3, <2>1, <2>2, ViewCopies
    <2>5. /\ active' = active /\ status' = status /\ part' = part
      BY <1>2, SlotsView
    <2>6. KeptTrue'
      <3> HIDE DEF SlotsSame, whole, noted, Trusted, KeptTrue
      <3> QED BY <1>2, <1>3, <2>2, <2>3, <2>4, KeptOn
    <2> HIDE DEF active, status, noted, Trusted, whole, Later, Point, EnvJob, KeptTrue
    <2>7. EnvExpected'
      BY <1>3, <2>4 DEF EnvExpected, Main
    <2>8. Fallback'
      BY <2>3, <2>5 DEF Fallback
    <2>9. whole'[Main] = part'[active'] /\ whole'[2] = whole'[Main]
      BY <1>3, <2>2, <2>4, <2>5
    <2>10. Rests'
      BY <1>1, <1>3, <2>4, <2>5, <2>8, <2>9 DEF Rests, Asking, Main, Quiet
    <2>11. Opened' /\ Updates' /\ Rolls' /\ Point' # "bricked"
      BY <2>4 DEF Opened, Updates, Rolls, Opening, Rolling, Writing0
    <2> QED BY <2>6, <2>7, <2>10, <2>11 DEF UncutInv
  <1>6. CASE ~(MustBackup /\ ~BootSame(1, 2))
    <2>1. pc' = "boot1_backed_up" /\ UNCHANGED <<flash, copies, env, job>>
      BY <1>6 DEF backup_boot1
    <2>2. /\ Point' = "boot1_backed_up" /\ flash'.ok = flash.ok /\ Later' = Later
          /\ whole' = whole
      BY <1>1, <1>3, <2>1, ViewMoves
    <2>3. Gpt /\ Trusted \notin noted => whole[2] = whole[1]
      <3>1. Gpt /\ Trusted \notin noted => status[active] = "proven"
        BY <1>3 DEF Fallback, Backed
      <3>2. Gpt /\ Trusted \notin noted => Trusted = active
        BY <3>1 DEF Trusted
      <3> HIDE DEF active, status, noted, Trusted, whole
      <3> QED BY <1>3, <1>4, <1>6, <3>1, <3>2 DEF BootSame
    <2>4. Same(Later', Later)
      BY <2>2 DEF Same
    <2> HIDE DEF SlotsSame, Point, Later, whole, EnvJob, noted, Trusted
    <2> QED BY <1>1, <1>2, <1>3, <2>2, <2>3, <2>4, RestsOn DEF Quiet
  <1> QED BY <1>5, <1>6

LEMMA BackedUpUncut ==
    ASSUME AllInv, UncutInv, boot1_backed_up
    PROVE  UncutInv'
  <1>1. /\ pc = "boot1_backed_up" /\ pc' = "tries_check" /\ part' = part /\ osOk' = osOk
        /\ proven' = proven /\ copies' = copies /\ flash' = flash /\ idx' = idx /\ Onward
        /\ misc' = IF MustBackup
                   THEN [misc EXCEPT !.slot[get_active_slot(misc)].uboot_status = 2]
                   ELSE misc
    BY DEF boot1_backed_up, boot_info_save, ram, world, Onward
  <1>2. /\ Point = pc /\ pc # "writing" /\ flash.ok /\ whole = copies /\ TypeOK
        /\ KeptTrue /\ EnvExpected /\ whole[Main] = part[active] /\ Fallback /\ idx = Main
        /\ part[active].good /\ ~Asking(Later)
    BY <1>1, QuietUncut DEF Quiet
  <1>3. /\ Point' = pc' /\ whole' = whole /\ Later' = Later /\ flash'.ok
    BY <1>1, <1>2, ViewMoves
  <1>4. Point \notin Early /\ active = get_active_slot(misc) /\ active \in Slots
    BY <1>1, <1>2, ValidMeta, UncutFacts DEF Early, AllInv, PromiseInv
  <1>5. CASE MustBackup
    <2>1. Gpt /\ status[active] = "proven" /\ active \notin noted
      BY <1>4, <1>5, Musts DEF MustBackup
    <2>2. Trusted = active
      BY <2>1 DEF Trusted
    <2>3. whole[2] = part[Trusted]
      BY <1>1, <1>2, <2>1, <2>2 DEF UncutInv, Rests
    <2>4. active' = active /\ status' = status /\ Trusted' = Trusted
      <3> DEFINE s == active
      <3>1. s \in Slots /\ misc' = [misc EXCEPT !.slot[s].uboot_status = 2]
        BY <1>1, <1>4, <1>5
      <3> HIDE DEF s
      <3> QED BY <1>1, <1>4, <3>1, NotesOne
    <2> HIDE DEF active, status, noted, Trusted, whole, Later, Point, EnvJob
    <2>5. KeptTrue'
      BY <1>1, <1>2, <1>3, <2>1, <2>3, <2>4 DEF KeptTrue
    <2>6. Fallback'
      BY <2>1, <2>4 DEF Fallback
    <2> HIDE DEF KeptTrue, Fallback
    <2>7. EnvExpected'
      BY <1>2, <1>3 DEF EnvExpected, Main
    <2>8. Rests'
      BY <1>1, <1>2, <1>3, <2>4, <2>6 DEF Rests, Asking, Main, Quiet
    <2>9. Opened' /\ Updates' /\ Rolls' /\ Point' # "bricked"
      BY <1>1, <1>3 DEF Opened, Updates, Rolls, Opening, Rolling, Writing0
    <2> QED BY <2>5, <2>7, <2>8, <2>9 DEF UncutInv
  <1>6. CASE ~MustBackup
    <2>1. SlotsSame
      BY <1>1, <1>6, OnwardSlots
    <2>2. Same(Later', Later)
      BY <1>3 DEF Same
    <2> HIDE DEF SlotsSame, Point, Later, whole, EnvJob, noted, Trusted
    <2> QED BY <1>1, <1>2, <1>3, <2>1, <2>2, RestsOn DEF Quiet
  <1> QED BY <1>5, <1>6

LEMMA CountUncut ==
    ASSUME AllInv, UncutInv, update_tries \/ forfeit
    PROVE  UncutInv'
  <1>1. /\ pc \in {"update_tries", "forfeit"}
        /\ pc' \in {"forfeit_reason", "backup_boot1", "reboot"}
        /\ part' = part /\ copies' = copies /\ flash' = flash /\ idx' = idx
    BY DEF update_tries, forfeit, boot_info_save, ram, world
  <1>2. /\ Point = pc /\ pc # "writing" /\ flash.ok /\ whole = copies /\ TypeOK
        /\ KeptTrue /\ EnvExpected /\ whole[Main] = part[active] /\ Fallback /\ idx = Main
        /\ part[active].good /\ ~Asking(Later)
    BY <1>1, QuietUncut DEF Quiet
  <1>3. /\ Point' = pc' /\ whole' = whole /\ Later' = Later /\ flash'.ok
    BY <1>1, <1>2, ViewMoves
  <1>4. /\ active' = active /\ noted' = noted /\ active \in Slots
        /\ \A t \in Slots : status'[t] = "proven" <=> status[t] = "proven"
    BY <1>2, ChargedSlots, UncutFacts
  <1>5. Trusted' = Trusted
    BY <1>4 DEF Trusted
  <1> HIDE DEF active, status, noted, Trusted, whole, Later, Point, EnvJob
  <1>6. KeptTrue'
    BY <1>1, <1>2, <1>3, <1>4, <1>5 DEF KeptTrue
  <1>7. Fallback'
    BY <1>1, <1>2, <1>3, <1>4, <1>5 DEF Fallback, Backed, KeptFor
  <1> HIDE DEF KeptTrue, Fallback
  <1>8. EnvExpected'
    BY <1>2, <1>3 DEF EnvExpected, Main
  <1>9. Rests'
    BY <1>1, <1>2, <1>3, <1>4, <1>7 DEF Rests, Asking, Main, Quiet
  <1>10. Opened' /\ Updates' /\ Rolls' /\ Point' # "bricked"
    BY <1>1, <1>3 DEF Opened, Updates, Rolls, Opening, Rolling, Writing0
  <1> QED BY <1>6, <1>8, <1>9, <1>10 DEF UncutInv

LEMMA ForfeitReasonUncut ==
    ASSUME AllInv, UncutInv, forfeit_reason
    PROVE  UncutInv'
  <1> DEFINE e == IF NoSpace THEN [env EXCEPT !.insufficient_data = FALSE] ELSE env
             v == IF NoSpace THEN [flash.val EXCEPT !.insufficient_data = FALSE] ELSE flash.val
  <1>1. /\ pc = "forfeit_reason" /\ misc' = misc /\ part' = part /\ osOk' = osOk
        /\ proven' = proven /\ idx' = idx
        /\ \/ update_env_part(e, v, "forfeit")
           \/ pc' = "forfeit" /\ UNCHANGED <<flash, copies, env, job>>
    BY DEF forfeit_reason, SaveUnread, world
  <1>2. SlotsSame
    BY <1>1, ForfeitReasonPromise, SameSlots
  <1>3. /\ Point = pc /\ pc # "writing" /\ TypeOK /\ EnvExpected /\ Later = flash.val
        /\ flash.val \in Env
    BY <1>1, QuietUncut, TypeFacts DEF Quiet, TypeOK
  <1>4. Same(v, flash.val)
    BY <1>3, AsksSame DEF Same
  <1> HIDE DEF e, v
  <1>5. /\ Point' = "forfeit" /\ whole' = whole
        /\ \/ EnvJob' /\ Later' = v
           \/ flash' = flash /\ Later' = Later
    <2>1. CASE update_env_part(e, v, "forfeit")
      BY <1>3, <2>1, ViewSaves
    <2>2. CASE pc' = "forfeit" /\ UNCHANGED <<flash, copies, env, job>>
      BY <1>3, <2>2, ViewMoves
    <2> QED BY <1>1, <2>1, <2>2
  <1>6. Same(Later', Later) /\ (flash'.ok \/ EnvJob')
    <2>1. flash.ok
      BY <1>1, QuietUncut DEF Quiet
    <2> QED BY <1>3, <1>4, <1>5, <2>1 DEF Same
  <1> HIDE DEF SlotsSame, Point, Later, whole, EnvJob
  <1> QED BY <1>1, <1>2, <1>3, <1>5, <1>6, RestsOn DEF Quiet

LEMMA TriesCheckUncut ==
    ASSUME AllInv, UncutInv, tries_check
    PROVE  UncutInv'
  <1>1. /\ pc = "tries_check" /\ pc' \in {"fastboot", "bcb_cmd"}
        /\ part' = part /\ osOk' = osOk /\ proven' = proven /\ copies' = copies
        /\ flash' = flash /\ idx' = idx
    BY DEF tries_check, boot_info_save, ram, world
  <1>2. /\ Point = pc /\ pc # "writing" /\ flash.ok /\ whole = copies /\ TypeOK
        /\ KeptTrue /\ EnvExpected /\ whole[Main] = part[active] /\ Fallback /\ idx = Main
        /\ part[active].good /\ ~Asking(Later)
    BY <1>1, QuietUncut DEF Quiet
  <1>3. /\ Point' = pc' /\ whole' = whole /\ Later' = Later /\ flash'.ok
    BY <1>1, <1>2, ViewMoves
  <1>4. active' = active /\ status' = status
    BY OnwardUnseen DEF Onward, Unseen, Stutters
  <1>5. CASE misc' = misc
    <2>1. SlotsSame
      BY <1>1, <1>5, OnwardSlots DEF Onward
    <2>2. Same(Later', Later)
      BY <1>3 DEF Same
    <2> HIDE DEF SlotsSame, Point, Later, whole, EnvJob, noted, Trusted
    <2> QED BY <1>1, <1>2, <1>3, <2>1, <2>2, RestsOn DEF Quiet
  <1>6. CASE misc' = boot_info_reset /\ Exhausted(misc)
    <2>1. Valid /\ Base
      BY DEF AllInv, PromiseInv
    <2>2. Fresh
      <3>1. Migrated(misc) = misc /\ Fresh = misc.firstboot
        BY <1>1, <1>2, <2>1, ValidMeta DEF Early
      <3>2. ~NoneBootable(misc)
        <4>1. \E s \in Slots : misc.slot[s].tries_remaining # 0
          BY <2>1, <3>1 DEF Base, SomeProven, ProvenWorks
        <4> QED BY <4>1 DEF NoneBootable, slot_is_bootable
      <3> QED BY <1>6, <3>1, <3>2 DEF Exhausted
    <2>3. active = 0 /\ status[active] = "proven"
      BY <2>1, <2>2 DEF Base, First
    <2>4. noted' = {}
      <3>1. noted' = {s \in Slots : Migrated(misc').slot[s].uboot_status = 2}
        BY DEF noted, Migrated
      <3>2. Migrated(misc') = boot_info_reset
        BY <1>6, ResetMeta, MappedValid
      <3>3. \A s \in Slots : boot_info_reset.slot[s].uboot_status # 2
        BY DEF boot_info_reset
      <3> QED BY <3>1, <3>2, <3>3
    <2> HIDE DEF active, status, noted, Trusted, whole, Later, Point, EnvJob
    <2>5. KeptTrue'
      BY <1>1, <1>2, <1>3, <1>4, <2>4 DEF KeptTrue
    <2>6. Fallback'
      BY <1>4, <2>3 DEF Fallback
    <2> HIDE DEF KeptTrue, Fallback
    <2>7. EnvExpected'
      BY <1>2, <1>3 DEF EnvExpected, Main
    <2>8. Rests'
      BY <1>1, <1>2, <1>3, <1>4, <2>6 DEF Rests, Asking, Main, Quiet
    <2>9. Opened' /\ Updates' /\ Rolls' /\ Point' # "bricked"
      BY <1>1, <1>3 DEF Opened, Updates, Rolls, Opening, Rolling, Writing0
    <2> QED BY <2>5, <2>7, <2>8, <2>9 DEF UncutInv
  <1> QED BY <1>5, <1>6 DEF tries_check, boot_info_save

LEMMA PrebootUncut ==
    ASSUME AllInv, UncutInv, switch_bootmode \/ storeboot \/ check_ab
    PROVE  UncutInv'
  <1>1. /\ pc \in {"switch_bootmode", "storeboot", "check_ab"}
        /\ part' = part /\ osOk' = osOk /\ proven' = proven /\ idx' = idx
        /\ copies' = copies /\ flash' = flash
    BY DEF switch_bootmode, storeboot, check_ab, storage, ram, world
  <1>2. pc' \in {"fastboot", "recovery", "storeboot", "kernel", "check_ab", "reboot"}
    <2>1. CASE switch_bootmode
      BY <2>1 DEF switch_bootmode
    <2>2. CASE storeboot
      BY <2>2 DEF storeboot
    <2>3. CASE check_ab
      BY <2>3 DEF check_ab, boot_info_save
    <2> QED BY <2>1, <2>2, <2>3
  <1>3. Point = pc /\ pc # "writing" /\ flash.ok /\ TypeOK
    BY <1>1, QuietUncut DEF Quiet
  <1>4. misc' = misc
    <2>1. Validated(misc) = misc
      BY <1>1, <1>3, ValidMeta DEF Early, AllInv, PromiseInv
    <2> QED BY <2>1 DEF switch_bootmode, storeboot, check_ab, boot_info_save, storage
  <1>5. SlotsSame
    BY <1>1, <1>4, OnwardSlots DEF Onward
  <1>6. /\ Point' = pc' /\ whole' = whole /\ Later' = Later /\ flash'.ok
    BY <1>1, <1>2, <1>3, ViewMoves
  <1>7. Same(Later', Later)
    BY <1>6 DEF Same
  <1> HIDE DEF SlotsSame, Point, Later, whole, EnvJob, noted, Trusted
  <1> QED BY <1>1, <1>2, <1>3, <1>5, <1>6, <1>7, RestsOn DEF Quiet

\* The end of a write changes nothing of what counts.
LEMMA FinishUncut ==
    ASSUME AllInv, UncutInv, FinishWrite
    PROVE  UncutInv'
  <1>1. /\ misc' = misc /\ osOk' = osOk /\ part' = part /\ proven' = proven
        /\ idx' = idx /\ mode' = mode /\ rb' = rb /\ env' = env
    BY DEF FinishWrite, world
  <1>2. SlotsSame
    BY <1>1, FinishWritePromise, SameSlots
  <1>3. KeptTrue /\ EnvExpected /\ Opened /\ Updates /\ Rolls /\ Rests /\ Point # "bricked"
    BY DEF UncutInv
  <1>4. Point' = Point /\ whole' = whole /\ Later' = Later /\ flash'.ok
    BY <1>3, ViewFinish DEF AllInv
  <1>5. /\ active' = active /\ status' = status /\ part' = part /\ Trusted' = Trusted
        /\ noted' = noted /\ KeptTrue' /\ (Backed' <=> Backed) /\ (Fallback' <=> Fallback)
    BY <1>2, <1>3, <1>4, SlotsView
  <1>6. Before' <=> Before
    BY <1>1, <1>4 DEF Before
  <1> HIDE DEF active, status, noted, Trusted, whole, Later, Point, EnvJob, Fallback, Backed,
               KeptTrue, Before
  <1>7. EnvExpected'
    BY <1>3, <1>4 DEF EnvExpected, Main
  <1>8. Opened'
    BY <1>1, <1>3, <1>4, <1>5 DEF Opened, Same, Asking, Main, KeptFor
  <1>9. Updates'
    BY <1>1, <1>3, <1>4, <1>5 DEF Updates, Main
  <1>10. Rolls'
    BY <1>1, <1>3, <1>4, <1>5, <1>6 DEF Rolls, Main, KeptFor
  <1>11. Rests'
    BY <1>1, <1>3, <1>4, <1>5 DEF Rests, Asking, Main
  <1> QED BY <1>3, <1>4, <1>5, <1>7, <1>8, <1>9, <1>10, <1>11 DEF UncutInv

-----------------------------------------------------------------------------
(* A running system, and how it leaves.                                    *)

\* A step from one point to another, neither of them a write in progress.
LEMMA ViewStays ==
    ASSUME TypeOK, pc # "writing", pc' # "writing"
    PROVE  /\ Point = pc /\ Point' = pc' /\ ~EnvJob'
           /\ Later = LoadedEnv /\ Later' = LoadedEnv'
           /\ whole = copies /\ whole' = [c \in Copies |-> copies'[c]]
  <1>1. Point = pc /\ ~EnvJob /\ Point' = pc' /\ ~EnvJob' /\ ~BootJob'
    BY NotWriting, NotWritingNext
  <1>2. Later = LoadedEnv
    BY <1>1 DEF Later
  <1>3. Later' = LoadedEnv'
    BY <1>1 DEF Later
  <1>4. whole' = [c \in Copies |-> copies'[c]]
    BY <1>1 DEF whole
  <1> QED BY <1>1, <1>2, <1>3, <1>4, Unwritten

LEMMA LeaveUncut ==
    ASSUME AllInv, UncutInv, ~LateCrash,
           Reboot \/ AndroidFails \/ UserReboot \/ RescueParty \/ Attended
    PROVE  UncutInv'
  <1>1. /\ misc' = misc /\ osOk' = osOk /\ part' = part /\ proven' = proven
        /\ copies' = copies /\ pc' = "rom"
        /\ pc \in {"reboot", "kernel", "fastboot", "recovery"}
        /\ mode' = "rescueparty" => pc # "reboot"
    BY DEF Reboot, AndroidFails, UserReboot, RescueParty, Attended, Leave, storage, world
  <1>2. SlotsSame
    BY <1>1, LeavePromise, SameSlots
  <1>3. TypeOK /\ pc # "writing" /\ EnvExpected /\ LoadedEnv \in Env
    BY <1>1, TypeFacts DEF AllInv, IInv, UncutInv
  <1>4. /\ Point = pc /\ Point' = "rom" /\ ~EnvJob'
        /\ Later = LoadedEnv /\ Later' = LoadedEnv'
        /\ whole = copies /\ whole' = [c \in Copies |-> copies'[c]]
    BY <1>1, <1>3, ViewStays
  <1>5. flash.ok /\ Later = flash.val
    BY <1>3, FlashCounts
  <1>6. whole' = whole
    BY <1>1, <1>3, <1>4 DEF TypeOK
  <1>7. flash'.ok /\ Same(LoadedEnv', LoadedEnv)
    <2>1. CASE flash' = flash
      BY <1>5, <2>1 DEF LoadedEnv, Same
    <2>2. CASE flash' = [ok |-> TRUE, val |-> [LoadedEnv EXCEPT !.insufficient_data = TRUE]]
      <3>1. flash'.ok /\ LoadedEnv' = [LoadedEnv EXCEPT !.insufficient_data = TRUE]
        BY <2>2 DEF LoadedEnv
      <3> QED BY <1>3, <3>1, AsksSame DEF Same
    <2> QED BY <2>1, <2>2 DEF Reboot, AndroidFails, UserReboot, RescueParty, Attended, storage
  <1> HIDE DEF AllInv, UncutInv, SlotsSame, Point, EnvJob, Later, whole
  <1>8. Point \in Quiet \cup {"fastboot", "recovery", "reboot"}
    BY <1>1, <1>4 DEF Quiet
  <1>9. Same(Later', Later)
    BY <1>4, <1>7
  <1> QED BY <1>1, <1>2, <1>4, <1>6, <1>7, <1>8, <1>9, TurnsOff

\* The system goes on to run.
LEMMA RunsUncut ==
    ASSUME AllInv, UncutInv, pc = "kernel", pc' = pc, UNCHANGED <<flash, copies, idx>>,
           KeptTrue', part'[active'] = part[active], active' = active,
           status'[active'] = "proven"
    PROVE  UncutInv'
  <1>1. pc \in Quiet
    BY DEF Quiet
  <1>2. /\ Point = pc /\ pc # "writing" /\ flash.ok /\ TypeOK /\ KeptTrue /\ EnvExpected
        /\ whole[Main] = part[active] /\ idx = Main /\ part[active].good /\ ~Asking(Later)
    BY <1>1, QuietUncut
  <1>3. /\ Point' = "kernel" /\ ~EnvJob' /\ whole' = whole /\ Later' = Later /\ flash'.ok
    BY <1>2, ViewMoves
  <1> HIDE DEF active, status, noted, Trusted, whole, Later, Point, EnvJob, KeptTrue
  <1>4. Fallback'
    BY DEF Fallback
  <1>5. EnvExpected'
    BY <1>2, <1>3 DEF EnvExpected, Main
  <1>6. Rests'
    <2>1. Main' = Main
      BY DEF Main
    <2> HIDE DEF Main
    <2> QED BY <1>2, <1>3, <1>4, <2>1 DEF Rests, Asking
  <1>7. Opened' /\ Updates' /\ Rolls' /\ Point' # "bricked"
    BY <1>3 DEF Updates, Opened, Rolls, Opening, Writing0, Rolling
  <1> QED BY <1>5, <1>6, <1>7 DEF UncutInv

LEMMA MarkUncut ==
    ASSUME AllInv, UncutInv, MarkBootSuccessful
    PROVE  UncutInv'
  <1>1. /\ pc = "kernel" /\ pc' = pc /\ flash' = flash /\ copies' = copies /\ idx' = idx
        /\ part' = part
    BY DEF MarkBootSuccessful, ram
  <1>2. pc \in Quiet
    BY <1>1 DEF Quiet
  <1>3. /\ pc # "writing" /\ TypeOK /\ KeptTrue
        /\ whole[Main] = part[active] /\ part[active].good
    BY <1>2, QuietUncut
  <1>4. whole' = whole
    BY <1>1, <1>3, ViewMoves
  <1>5. /\ active' = active /\ status'[active] = "proven" /\ active \in Slots
        /\ \A t \in Slots : t # active => status'[t] = status[t]
        /\ active \in noted' <=> active \in noted /\ status[active] = "proven"
    BY <1>3, MarkSlots, TypeFacts
  <1>6. Trusted' = active
    BY <1>5 DEF Trusted
  <1>7. status[active] = "proven" => Trusted = active
    BY DEF Trusted
  <1> HIDE DEF active, status, noted, Trusted, whole
  <1>8. KeptTrue'
    BY <1>1, <1>3, <1>4, <1>5, <1>6, <1>7 DEF KeptTrue
  <1>9. part'[active'] = part[active] /\ status'[active'] = "proven"
    BY <1>1, <1>5
  <1> HIDE DEF AllInv, UncutInv, KeptTrue
  <1> QED BY <1>1, <1>5, <1>8, <1>9, RunsUncut

LEMMA BeginUncut ==
    ASSUME AllInv, UncutInv, BeginUpdate
    PROVE  UncutInv'
  <1>1. /\ pc = "kernel" /\ pc' = pc /\ flash' = flash /\ copies' = copies /\ idx' = idx
        /\ part' = [part EXCEPT ![Other(Running)] = Torn]
    BY DEF BeginUpdate, ram
  <1>2. pc \in Quiet
    BY <1>1 DEF Quiet
  <1>3. pc # "writing" /\ TypeOK /\ KeptTrue
    BY <1>2, QuietUncut
  <1>4. whole' = whole
    BY <1>1, <1>3, ViewMoves
  <1>5. /\ active' = active /\ status[active] = "proven" /\ status'[active] = "proven"
        /\ status'[Other(active)] = "empty"
        /\ Trusted = active /\ Trusted' = active
        /\ active \in noted' <=> active \in noted
    BY BeginSlots
  <1>6. /\ active \in Slots /\ Other(active) \in Slots /\ Running = active
        /\ Other(active) # active /\ \A s \in Slots : s = active \/ s = Other(active)
        /\ part \in [Slots -> Images]
    BY <1>1, <1>3, AtKernel, UncutFacts
  <1>7. part'[active] = part[active] /\ part'[Other(active)] = Torn
    BY <1>1, <1>6
  <1> HIDE DEF active, status, noted, Trusted, whole
  <1>8. KeptTrue'
    BY <1>3, <1>4, <1>5, <1>6, <1>7 DEF KeptTrue
  <1>9. part'[active'] = part[active] /\ status'[active'] = "proven"
    BY <1>5, <1>7
  <1> HIDE DEF AllInv, UncutInv, KeptTrue
  <1> QED BY <1>1, <1>5, <1>8, <1>9, RunsUncut

\* An update made active: with a GPT boot0 is still that of the slot that ran, and is to
\* be written; without one, its bootloader is in the copies already, and is expected.
LEMMA FinishUpdateUncut ==
    ASSUME AllInv, UncutInv, FinishUpdate
    PROVE  UncutInv'
  <1>1. pc = "kernel" /\ pc' = "rom" /\ mode' = "normal" /\ gen' = gen + 1
    BY DEF FinishUpdate, Leave
  <1>2. pc \in Quiet
    BY <1>1 DEF Quiet
  <1>3. /\ pc # "writing" /\ TypeOK /\ KeptTrue
        /\ whole = copies /\ whole[Main] = part[active]
    BY <1>2, QuietUncut
  <1>4. /\ Point' = "rom" /\ ~EnvJob' /\ Later' = LoadedEnv'
        /\ whole' = [c \in Copies |-> copies'[c]]
    BY <1>1, <1>3, ViewStays
  <1>5. /\ active \in Slots /\ Other(active) \in Slots /\ Running = active
        /\ Other(active) # active /\ \A s \in Slots : s = active \/ s = Other(active)
        /\ Other(Other(active)) = active
        /\ part \in [Slots -> Images] /\ copies \in [Copies -> Images] /\ gen \in Nat
        /\ LoadedEnv \in Env /\ ~Asking(LoadedEnv)
    BY <1>1, <1>3, AtKernel, UncutFacts, TypeFacts, AbBootAssumption DEF TypeOK
  <1>6. /\ active' = Other(active) /\ status[active] = "proven"
        /\ status'[active] = "proven" /\ status'[active'] = "trial"
        /\ Trusted = active /\ Trusted' = active
        /\ active \in noted' <=> active \in noted
    BY StartSlots
  <1>7. PICK img \in [gen : {gen + 1}, good : BOOLEAN] :
          /\ part' = [part EXCEPT ![Other(active)] = img]
          /\ copies' = IF Gpt THEN copies
                       ELSE [copies EXCEPT ![0] = img, ![1 + Other(active)] = img]
    <2>1. PICK good \in {TRUE, ~BadImages} :
            /\ part' = [part EXCEPT ![Other(active)] = [gen |-> gen + 1, good |-> good]]
            /\ copies' = IF Gpt THEN copies
                         ELSE [copies EXCEPT ![0] = [gen |-> gen + 1, good |-> good],
                                             ![1 + Other(active)] = [gen |-> gen + 1,
                                                                     good |-> good]]
      BY <1>5 DEF FinishUpdate
    <2>2. good \in BOOLEAN
      BY <2>1, AbBootAssumption
    <2>3. [gen |-> gen + 1, good |-> good] \in [gen : {gen + 1}, good : BOOLEAN]
      BY <2>2
    <2> QED BY <2>1, <2>3
  <1>8. img # Torn
    BY <1>5 DEF Torn
  <1>9. part'[active] = part[active] /\ part'[Other(active)] = img
    BY <1>5, <1>7
  <1>10. /\ Gpt => whole' = whole
         /\ ~Gpt => /\ whole'[0] = img /\ whole'[1 + Other(active)] = img
                    /\ whole'[1 + active] = whole[1 + active]
    <2>1. CASE Gpt
      BY <1>3, <1>4, <1>5, <1>7, <2>1
    <2>2. CASE ~Gpt
      <3>1. /\ 0 \in Copies /\ 1 + active \in Copies /\ 1 + Other(active) \in Copies
            /\ 1 + active # 0 /\ 1 + Other(active) # 0 /\ 1 + active # 1 + Other(active)
        BY <1>5 DEF Copies, Slots
      <3>2. copies' = [copies EXCEPT ![0] = img, ![1 + Other(active)] = img]
        BY <1>7, <2>2
      <3>3. /\ copies'[0] = img /\ copies'[1 + Other(active)] = img
            /\ copies'[1 + active] = copies[1 + active]
        BY <1>5, <3>1, <3>2
      <3> QED BY <1>3, <1>4, <2>2, <3>1, <3>3
    <2> QED BY <2>1, <2>2
  <1>11. /\ flash'.ok /\ Asking(Later')
         /\ Gpt => Later'.write_boot /\ Later'.reboot_status # "reboot_next"
         /\ ~Gpt => ~Later'.write_boot /\ Later'.expect_index = 0
    <2> DEFINE e == [LoadedEnv EXCEPT !.write_boot = TRUE]
               f == [LoadedEnv EXCEPT !.update_env = TRUE, !.reboot_status = "reboot_next",
                                      !.expect_index = 0]
               v == IF Gpt THEN e ELSE f
    <2>1. flash' = [ok |-> TRUE, val |-> v]
      BY DEF FinishUpdate
    <2>2. e.write_boot /\ e.reboot_status = LoadedEnv.reboot_status
      BY <1>5 DEF Env
    <2>3. /\ f.write_boot = LoadedEnv.write_boot /\ f.reboot_status = "reboot_next"
          /\ f.expect_index = 0
      BY <1>5 DEF Env
    <2> HIDE DEF e, f
    <2>4. flash'.ok /\ flash'.val = v
      BY <2>1
    <2>5. Later' = v
      BY <1>4, <2>4 DEF LoadedEnv
    <2> QED BY <1>5, <2>2, <2>3, <2>4, <2>5 DEF Asking
  <1> HIDE DEF active, status, noted, Trusted, whole, Later, Point, EnvJob
  <1>12. KeptTrue'
    <2>1. status'[active] = "proven" /\ part[active].good /\ part[active] # Torn
      BY <1>3, <1>5, <1>6 DEF KeptTrue
    <2>2. Gpt => whole'[0] = Torn /\ (Trusted' \in noted' => whole'[2] = part'[Trusted'])
      BY <1>3, <1>6, <1>9, <1>10 DEF KeptTrue
    <2>3. ~Gpt => \A s \in Slots : part'[s] = Torn \/ whole'[1 + s] = part'[s]
      BY <1>3, <1>5, <1>9, <1>10 DEF KeptTrue
    <2>4. \A s \in Slots : status'[s] = "proven" => part'[s].good
      BY <1>5, <1>6, <1>9, <2>1
    <2>5. part'[active'] # Torn
      BY <1>6, <1>8, <1>9
    <2> QED BY <2>2, <2>3, <2>4, <2>5 DEF KeptTrue
  <1>13. ~Gpt => Fallback'
    BY <1>3, <1>5, <1>6, <1>9, <1>10 DEF Fallback, Backed, KeptFor, KeptTrue
  <1>14. EnvExpected'
    BY <1>11 DEF EnvExpected, Main
  <1>15. Opened'
    <2>1. Gpt => whole'[Main] = part'[Other(active')]
      BY <1>3, <1>5, <1>6, <1>9, <1>10
    <2>2. ~Gpt => whole'[Main] = part'[active']
      BY <1>6, <1>9, <1>10 DEF Main
    <2> QED BY <1>1, <1>4, <1>6, <1>11, <1>13, <2>1, <2>2 DEF Opened, Main
  <1>16. Updates' /\ Rolls' /\ Rests' /\ Point' # "bricked"
    BY <1>4 DEF Updates, Rolls, Rests, Writing0, Rolling, Quiet
  <1> QED BY <1>12, <1>14, <1>15, <1>16 DEF UncutInv

-----------------------------------------------------------------------------
(* While the power does not fail, the invariant holds.                     *)

LEMMA InitUncut ==
    ASSUME ~Legacy, Init, IInv
    PROVE  UncutInv
  <1>1. /\ misc \in {Uninitialised, boot_info_reset}
        /\ flash = [ok |-> TRUE, val |-> DefaultEnv]
        /\ copies = [c \in Copies |-> IF Gpt /\ c = 0 THEN Torn ELSE FactoryImage]
        /\ part = [s \in Slots |-> FactoryImage]
        /\ pc = "rom" /\ mode = "normal"
    BY DEF Init
  <1>2. active = 0 /\ status[0] = "proven" /\ noted = {}
    BY FactorySlots
  <1>3. /\ Gpt => copies[0] = Torn /\ copies[1] = FactoryImage
        /\ ~Gpt => \A c \in Copies : copies[c] = FactoryImage
        /\ \A s \in Slots : part[s] = FactoryImage
    BY <1>1 DEF Copies
  <1>4. FactoryImage.good /\ FactoryImage # Torn
    BY DEF FactoryImage, Torn
  <1>5. /\ flash.ok /\ flash.val = DefaultEnv
        /\ ~DefaultEnv.write_boot /\ DefaultEnv.reboot_status # "reboot_next"
    BY <1>1 DEF DefaultEnv
  <1>6. Point = "rom" /\ ~EnvJob /\ whole = copies
    BY <1>1, NotWriting, Unwritten DEF IInv
  <1>7. Later = DefaultEnv
    BY <1>5, <1>6 DEF Later, LoadedEnv
  <1>8. Trusted = 0
    BY <1>2 DEF Trusted
  <1> HIDE DEF active, status, noted, Trusted, whole, Later, Point, EnvJob
  <1>9. \A s \in Slots : 1 + s \in Copies
    BY DEF Slots, Copies
  <1>10. 0 \in Slots /\ 0 \in Copies
    BY DEF Slots, Copies
  <1>11. KeptTrue
    BY <1>2, <1>3, <1>4, <1>6, <1>9, <1>10 DEF KeptTrue
  <1>12. EnvExpected
    BY <1>5, <1>7 DEF EnvExpected
  <1>13. Opened
    <2>1. whole[Main] = part[active] /\ Fallback /\ part[active].good
      BY <1>2, <1>3, <1>4, <1>6, <1>10 DEF Main, Fallback
    <2> QED BY <1>5, <1>6, <1>7, <2>1 DEF Opened
  <1>14. Updates /\ Rolls /\ Rests /\ Point # "bricked"
    BY <1>6 DEF Updates, Rolls, Rests, Writing0, Rolling, Quiet
  <1> QED BY <1>11, <1>12, <1>13, <1>14 DEF UncutInv

LEMMA StepUncut ==
    ASSUME ~LateCrash, AllInv, UncutInv, [Next]_vars, ~PowerCut
    PROVE  UncutInv'
  <1>1. CASE \/ BootRom \/ BootRomFails \/ aml_update_env
             \/ GetValidSlotBoots \/ GetValidSlotRollsBack \/ GetValidSlotResets
    BY <1>1, PowerOnUncut, GetValidSlotUncut
  <1>2. CASE \/ rollback_reason \/ check_bootloader \/ set_mergestatus_cancel
             \/ write_bootloader_back \/ set_roll_flag \/ set_active_slot
             \/ boot0_env \/ RollbackEnv
    BY <1>2, ReasonUncut, CommandUncut, SetActiveUncut, AskUncut
  <1>3. CASE amlsecurecheck \/ ab_update_rollback \/ FinishWrite
    BY <1>3, SecureCheckUncut, UpdateOrRollbackUncut, FinishUncut
  <1>4. CASE \/ check_boot1 \/ boot1_checked \/ write_boot0 \/ write_boot0_fails \/ update_gpt
             \/ backup_boot1 \/ boot1_backed_up
    BY <1>4, CheckBoot1Uncut, Boot1CheckedUncut, WriteBoot0Uncut, GivesUpUncut, BackUpUncut,
       BackedUpUncut
  <1>5. CASE \/ update_tries \/ forfeit \/ forfeit_reason \/ tries_check
             \/ switch_bootmode \/ storeboot \/ check_ab
    BY <1>5, CountUncut, ForfeitReasonUncut, TriesCheckUncut, PrebootUncut
  <1>6. CASE \/ Reboot \/ AndroidFails \/ UserReboot \/ RescueParty \/ Attended
    BY <1>6, LeaveUncut
  <1>7. CASE MarkBootSuccessful \/ BeginUpdate \/ FinishUpdate
    BY <1>7, MarkUncut, BeginUncut, FinishUpdateUncut
  <1>8. CASE UNCHANGED vars
    <2>1. /\ misc' = misc /\ osOk' = osOk /\ flash' = flash /\ pc' = pc /\ env' = env
          /\ mode' = mode /\ rb' = rb /\ job' = job /\ copies' = copies /\ part' = part
          /\ idx' = idx /\ proven' = proven
      BY <1>8 DEF vars, storage, ram, world
    <2>2. SlotsSame
      BY <2>1, UnseenMeta, SameSlots
    <2>3. /\ Point' = Point /\ EnvJob' = EnvJob /\ BootJob' = BootJob /\ LoadedEnv' = LoadedEnv
      BY <2>1 DEF Point, EnvJob, BootJob, LoadedEnv
    <2>4. whole' = whole /\ Later' = Later
      BY <2>1, <2>3 DEF whole, Later
    <2>5. /\ active' = active /\ status' = status /\ noted' = noted /\ Trusted' = Trusted
          /\ Backed' = Backed /\ Fallback' = Fallback /\ KeptTrue'
      BY <2>2, <2>4, SlotsView DEF UncutInv, Backed, Fallback
    <2> HIDE DEF active, status, noted, Trusted, whole, Later, Point, EnvJob, Backed, Fallback,
             KeptTrue
    <2>6. EnvExpected' /\ Opened' /\ Updates'
      BY <2>1, <2>3, <2>4, <2>5
         DEF UncutInv, EnvExpected, Opened, Updates, Main, KeptFor, Same, Asking
    <2>7. Rolls'
      BY <2>1, <2>3, <2>4, <2>5 DEF UncutInv, Rolls, Before, Main, KeptFor
    <2>8. Rests'
      BY <2>1, <2>3, <2>4, <2>5 DEF UncutInv, Rests, Asking, Main
    <2> QED BY <2>3, <2>5, <2>6, <2>7, <2>8 DEF UncutInv
  <1>9. Next => \/ BootRom \/ BootRomFails \/ aml_update_env
                \/ GetValidSlotBoots \/ GetValidSlotRollsBack \/ GetValidSlotResets
                \/ rollback_reason \/ check_bootloader \/ set_mergestatus_cancel
                \/ write_bootloader_back \/ set_roll_flag \/ set_active_slot
                \/ boot0_env \/ RollbackEnv
                \/ amlsecurecheck \/ ab_update_rollback \/ FinishWrite
                \/ check_boot1 \/ boot1_checked \/ write_boot0 \/ write_boot0_fails
                \/ update_gpt \/ backup_boot1 \/ boot1_backed_up
                \/ update_tries \/ forfeit \/ forfeit_reason \/ tries_check
                \/ switch_bootmode \/ storeboot \/ check_ab
                \/ Reboot \/ AndroidFails \/ UserReboot \/ RescueParty \/ Attended \/ PowerCut
                \/ MarkBootSuccessful \/ BeginUpdate \/ FinishUpdate
    BY Zenon DEF Next, UBoot, Outside, RollbackStep, UpdateStep, TriesStep
  <1> QED BY <1>1, <1>2, <1>3, <1>4, <1>5, <1>6, <1>7, <1>8, <1>9

\* Power cuts are counted.
LEMMA CutsCounted ==
    ASSUME TypeOK, [Next]_vars, crashes' = 0
    PROVE  crashes = 0 /\ ~PowerCut
  <1>1. crashes \in Nat
    BY AbBootAssumption DEF TypeOK
  <1>2. PowerCut => crashes' = crashes + 1
    BY Zenon DEF PowerCut
  <1>3. ~PowerCut
    BY <1>1, <1>2
  <1>4. UNCHANGED vars => crashes' = crashes
    BY Zenon DEF vars, world
  <1>5. Outside => PowerCut \/ crashes' = crashes
    BY Zenon DEF Outside, MarkBootSuccessful, BeginUpdate, FinishUpdate, AndroidFails,
       UserReboot, RescueParty, Attended, world
  <1>6. crashes' = crashes
    BY <1>3, <1>4, <1>5, UBootUncut, Zenon DEF Next
  <1> QED BY <1>3, <1>6

LEMMA UncutInductive ==
    ASSUME ~Legacy, ~LateCrash
    PROVE  Spec => [](AllInv /\ (crashes = 0 => UncutInv))
  <1>1. Init => AllInv /\ (crashes = 0 => UncutInv)
    BY InitIInv, InitPromise, InitUncut DEF AllInv
  <1>2. AllInv /\ (crashes = 0 => UncutInv) /\ [Next]_vars
          => (AllInv /\ (crashes = 0 => UncutInv))'
    <2> SUFFICES ASSUME AllInv, crashes = 0 => UncutInv, [Next]_vars
                 PROVE  AllInv' /\ (crashes' = 0 => UncutInv')
      OBVIOUS
    <2>1. AllInv'
      BY NextIInv, StepPromise DEF AllInv
    <2>2. ASSUME crashes' = 0 PROVE UncutInv'
      <3>1. crashes = 0 /\ ~PowerCut
        BY <2>2, CutsCounted DEF AllInv, IInv
      <3> QED BY <3>1, StepUncut
    <2> QED BY <2>1, <2>2
  <1> QED BY <1>1, <1>2, PTL DEF Spec

\* Until the first power cut, a working Android always runs on top of the very bootloader
\* it was shipped with: after updates and rollbacks, with a GPT and without, whatever the
\* ROM makes of the images, and whichever reads of partitions fail.
THEOREM BootsMatchingUncut == ~Legacy /\ ~LateCrash => (Spec => []BootsMatching)
  <1> SUFFICES ASSUME ~Legacy, ~LateCrash PROVE Spec => []BootsMatching
    OBVIOUS
  <1>1. AllInv /\ (crashes = 0 => UncutInv) => BootsMatching
    <2> SUFFICES ASSUME AllInv, UncutInv, pc = "kernel" PROVE copies[idx] = part[Running]
      BY DEF BootsMatching
    <2>1. Running = active
      BY AtKernel
    <2>2. pc \in Quiet
      BY DEF Quiet
    <2> QED BY <2>1, <2>2, QuietUncut
  <1> QED BY <1>1, UncutInductive, PTL

\* Until then the device is never bricked either, even by images the ROM does not accept.
THEOREM UncutNeverBricked == ~Legacy /\ ~LateCrash => (Spec => [](crashes = 0 => NeverBricked))
  <1> SUFFICES ASSUME ~Legacy, ~LateCrash PROVE Spec => [](crashes = 0 => NeverBricked)
    OBVIOUS
  <1>1. UncutInv => NeverBricked
    BY DEF UncutInv, NeverBricked, Point
  <1> QED BY <1>1, UncutInductive, PTL

-----------------------------------------------------------------------------
(* Without a GPT, and with images the ROM accepts: the copy that is        *)
(* expected is started, and each slot keeps a copy of its own.             *)

\* The user area is written by rollbacks only, and nothing expects it while one is on its
\* way there.
Replacing == {"reason", "check", "cancel", "copy", "flag", "active", "env"}
ExpectsMain(e) == e.reboot_status = "reboot_next" => e.expect_index = 0

MainReady == AnyAsk => copies[0].good /\ ~BootJob
MainExpected == /\ ExpectsMain(env) /\ ExpectsMain(LoadedEnv)
                /\ EnvJob => ExpectsMain(job.val)
MainReplaced == Point \in Replacing =>
                  ~AnyAsk /\ rb.kind \in {"valid_slot", "rescueparty"} /\ rb.src \in {1, 2}
MainRestored == Point = "env" \/ (Point \in {"flag", "active"} /\ rb.kind = "rescueparty")
                  => whole[0].good
MainStarted == Point \in Opening /\ Asking(env) => idx = 0

\* A system asks to be rescued long after the copy it runs on was checked.
RescueLate == mode = "rescueparty" /\ Point \in Opening \cup {"rom"} => ~AnyAsk

Unmissed == MainReady /\ MainExpected /\ MainReplaced /\ MainRestored /\ MainStarted /\ RescueLate

\* A step that only moves on.
LEMMA UnmissedMoves ==
    ASSUME TypeOK, TypeOK', Unmissed, pc # "writing", pc' # "writing",
           UNCHANGED <<flash, copies, job>>, Asking(env') => AnyAsk, ExpectsMain(env'),
           pc' \in Replacing =>
             ~AnyAsk /\ rb'.kind \in {"valid_slot", "rescueparty"} /\ rb'.src \in {1, 2},
           pc' = "env" \/ (pc' \in {"flag", "active"} /\ rb'.kind = "rescueparty") => copies[0].good,
           pc' \in Opening /\ Asking(env') => idx' = 0,
           mode' = "rescueparty" /\ pc' \in Opening \cup {"rom"} => ~AnyAsk
    PROVE  Unmissed'
  <1>1. /\ Point' = pc' /\ ~EnvJob' /\ ~BootJob' /\ whole' = copies /\ LoadedEnv' = LoadedEnv
    BY NotWritingNext, UnwrittenNext DEF LoadedEnv
  <1>2. AnyAsk' => AnyAsk
    BY <1>1 DEF AnyAsk, Asking
  <1> QED BY <1>1, <1>2 DEF Unmissed, MainReady, MainExpected, MainReplaced, MainRestored,
                            MainStarted, RescueLate, ExpectsMain, Asking

\* A step that begins to save an env which asks for nothing new.
LEMMA UnmissedSaves ==
    ASSUME TypeOK, TypeOK', Unmissed, pc # "writing", NEW e, NEW val, Saving(e, val),
           copies' = copies, rb' = rb, idx' = idx, mode' = mode,
           Asking(e) => AnyAsk, ExpectsMain(e), Asking(val) => AnyAsk, ExpectsMain(val),
           Point' \in Replacing => pc \in Replacing,
           Point' # "env" /\ (Point' \in {"flag", "active"} => rb.kind # "rescueparty"),
           Point' \in Opening => pc \in Opening /\ (Asking(e) => Asking(env)),
           Point' # "rom"
    PROVE  Unmissed'
  <1>1. /\ Point = pc /\ EnvJob' /\ ~BootJob' /\ env' = e /\ job'.val = val
        /\ LoadedEnv' \in {LoadedEnv, DefaultEnv}
    BY NotWriting DEF Saving, EnvJob, BootJob
  <1>2. (AnyAsk' => AnyAsk) /\ ExpectsMain(DefaultEnv)
    BY <1>1 DEF AnyAsk, Asking, DefaultEnv, ExpectsMain
  <1>3. MainReady' /\ MainReplaced' /\ MainRestored' /\ MainStarted' /\ RescueLate'
    BY <1>1, <1>2 DEF Unmissed, MainReady, MainReplaced, MainRestored, MainStarted, RescueLate,
                      Asking
  <1>4. MainExpected'
    BY <1>1, <1>2 DEF Unmissed, MainExpected, ExpectsMain
  <1> QED BY <1>3, <1>4 DEF Unmissed

\* update_env_part: what is in flash asks for nothing new either.
LEMMA UnmissedPart ==
    ASSUME TypeOK, TypeOK', Unmissed, pc # "writing", NEW e, NEW val, NEW next,
           update_env_part(e, val, next), next # "rom",
           rb' = rb, idx' = idx, mode' = mode,
           Asking(e) => Asking(env), ExpectsMain(e), Asking(val) => Asking(flash.val),
           ExpectsMain(flash.val) => ExpectsMain(val),
           next \in Replacing => pc \in Replacing,
           next # "env" /\ (next \in {"flag", "active"} => rb.kind # "rescueparty"),
           next \in Opening => pc \in Opening
    PROVE  Unmissed'
  <1>1. /\ env' = e /\ EnvJob' /\ Point' = next /\ LoadedEnv' \in {LoadedEnv, DefaultEnv}
        /\ \/ flash.ok /\ LoadedEnv = flash.val /\ job'.val = val
           \/ job'.val = e
    BY EnvPartBegun
  <1>2. copies' = copies
    BY DEF update_env_part, StartEnvWrite
  <1> DEFINE v == job'.val
  <1>3. Saving(e, v)
    BY <1>1 DEF Saving
  <1>4. (Asking(e) => AnyAsk) /\ (Asking(v) => AnyAsk) /\ ExpectsMain(v)
    BY <1>1 DEF AnyAsk, Unmissed, MainExpected
  <1> HIDE DEF v
  <1> QED BY <1>1, <1>2, <1>3, <1>4, UnmissedSaves

\* Everything that is assumed of a step below.
Calm == ~Gpt /\ AllInv /\ Spares /\ Unmissed /\ TypeOK'

LEMMA CalmFacts ==
    ASSUME Calm
    PROVE  /\ TypeOK /\ IInv /\ PromiseInv /\ Unmissed /\ Spares /\ ~Gpt
           /\ env \in Env /\ LoadedEnv \in Env /\ flash.val \in Env
           /\ ~Asking(DefaultEnv) /\ ExpectsMain(DefaultEnv)
           /\ \A e \in Env : \A x :
                /\ Asking([e EXCEPT !.slot_suffixes = x]) <=> Asking(e)
                /\ ExpectsMain([e EXCEPT !.slot_suffixes = x]) <=> ExpectsMain(e)
                /\ Asking([e EXCEPT !.bootloaderIndex = x]) <=> Asking(e)
                /\ ExpectsMain([e EXCEPT !.bootloaderIndex = x]) <=> ExpectsMain(e)
                /\ Asking([e EXCEPT !.insufficient_data = x]) <=> Asking(e)
                /\ ExpectsMain([e EXCEPT !.insufficient_data = x]) <=> ExpectsMain(e)
  <1>1. /\ TypeOK /\ IInv /\ PromiseInv /\ Unmissed /\ Spares /\ ~Gpt
    BY DEF Calm, AllInv, IInv
  <1>2. env \in Env /\ LoadedEnv \in Env /\ flash.val \in Env
    BY <1>1, TypeFacts
  <1>3. ~Asking(DefaultEnv) /\ ExpectsMain(DefaultEnv)
    BY DEF DefaultEnv, Asking, ExpectsMain
  <1>4. ASSUME NEW e \in Env, NEW x
        PROVE  /\ Asking([e EXCEPT !.slot_suffixes = x]) <=> Asking(e)
               /\ ExpectsMain([e EXCEPT !.slot_suffixes = x]) <=> ExpectsMain(e)
               /\ Asking([e EXCEPT !.bootloaderIndex = x]) <=> Asking(e)
               /\ ExpectsMain([e EXCEPT !.bootloaderIndex = x]) <=> ExpectsMain(e)
               /\ Asking([e EXCEPT !.insufficient_data = x]) <=> Asking(e)
               /\ ExpectsMain([e EXCEPT !.insufficient_data = x]) <=> ExpectsMain(e)
    BY AsksSame DEF Asking, ExpectsMain
  <1> QED BY <1>1, <1>2, <1>3, <1>4

LEMMA UnmissedPowerOn ==
    ASSUME Calm, BootRom \/ BootRomFails \/ aml_update_env
    PROVE  Unmissed'
  <1> USE DEF Opening, Replacing
  <1>1. TypeOK' /\ AnyAsk = (Asking(env) \/ Asking(LoadedEnv) \/ (EnvJob /\ Asking(job.val)))
    BY DEF Calm, AnyAsk
  <1>2. CASE BootRom
    <2>1. /\ pc = "rom" /\ pc' = "aml_update_env" /\ env' = LoadedEnv /\ mode' = mode
          /\ UNCHANGED <<flash, copies, job>>
          /\ \E c \in Copies : (\A d \in Copies : d < c => ~copies[d].good) /\ idx' = c
      BY <1>2 DEF BootRom, storage
    <2>2. Asking(env') => AnyAsk
      BY <2>1 DEF AnyAsk
    <2>3. Asking(env') => idx' = 0
      BY <2>1, <2>2, CalmFacts DEF Unmissed, MainReady, Copies
    <2>4. mode' = "rescueparty" => ~AnyAsk
      BY <2>1, CalmFacts, NotWriting DEF Unmissed, RescueLate
    <2>5. ExpectsMain(env')
      BY <2>1, CalmFacts DEF Unmissed, MainExpected
    <2> QED BY <1>1, <2>1, <2>2, <2>3, <2>4, <2>5, CalmFacts, UnmissedMoves
  <1>3. CASE BootRomFails
    <2>1. pc = "rom" /\ pc' = "bricked" /\ env' = env /\ UNCHANGED <<flash, copies, job>>
      BY <1>3 DEF BootRomFails, storage, ram
    <2>2. ExpectsMain(env') /\ (Asking(env') => AnyAsk)
      BY <2>1, CalmFacts DEF Unmissed, MainExpected, AnyAsk
    <2> QED BY <1>1, <2>1, <2>2, CalmFacts, UnmissedMoves
  <1>4. CASE aml_update_env
    <2>1. pc = "aml_update_env" /\ rb' = rb /\ idx' = idx /\ mode' = mode
      BY <1>4 DEF aml_update_env
    <2>2. CASE env.update_env /\ ~env.write_boot
      <3> DEFINE e == defenv_reserv(env)
      <3>1. StartEnvWrite(e, e, "get_valid_slot")
        BY <1>4, <2>2 DEF aml_update_env, saveenv
      <3>2. (Asking(e) => Asking(env)) /\ (ExpectsMain(env) => ExpectsMain(e))
        BY DEF defenv_reserv, DefaultEnv, Asking, ExpectsMain
      <3> HIDE DEF e
      <3>3. Saving(e, e) /\ Point' = "get_valid_slot" /\ copies' = copies
        BY <3>1, CalmFacts, EnvBegun DEF Saving, StartEnvWrite
      <3>4. ExpectsMain(e) /\ (Asking(e) => AnyAsk)
        BY <3>2, CalmFacts DEF Unmissed, MainExpected, AnyAsk
      <3> QED BY <1>1, <2>1, <3>2, <3>3, <3>4, CalmFacts, UnmissedSaves
    <2>3. CASE ~(env.update_env /\ ~env.write_boot)
      <3>1. pc' = "get_valid_slot" /\ UNCHANGED <<flash, copies, env, job>>
        BY <1>4, <2>3 DEF aml_update_env
      <3>2. ExpectsMain(env') /\ (Asking(env') => AnyAsk) /\ Asking(env') = Asking(env)
        BY <3>1, CalmFacts DEF Unmissed, MainExpected, AnyAsk, Asking
      <3>3. /\ Asking(env) => idx = 0
            /\ mode = "rescueparty" => ~AnyAsk
        BY <2>1, CalmFacts, NotWriting DEF Unmissed, MainStarted, RescueLate
      <3> QED BY <1>1, <2>1, <3>1, <3>2, <3>3, CalmFacts, UnmissedMoves
    <2> QED BY <2>2, <2>3
  <1> QED BY <1>2, <1>3, <1>4

LEMMA UnmissedSlot ==
    ASSUME Calm, GetValidSlotBoots \/ GetValidSlotRollsBack \/ GetValidSlotResets
    PROVE  Unmissed'
  <1> USE DEF Opening, Replacing
  <1>1. TypeOK' /\ TypeOK /\ active \in Slots /\ env \in Env /\ ExpectsMain(env)
        /\ (Asking(env) => AnyAsk)
    BY CalmFacts, TypeFacts DEF Calm, Unmissed, MainExpected, AnyAsk
  <1>2. /\ pc \in {"get_valid_slot", "bcb_cmd"} /\ idx' = idx /\ mode' = mode
        /\ UNCHANGED <<flash, copies, job>>
    BY DEF GetValidSlotBoots, GetValidSlotRollsBack, GetValidSlotResets, ram
  <1>3. pc = "get_valid_slot" => /\ Asking(env) => idx = 0
                                 /\ mode = "rescueparty" => ~AnyAsk
    BY CalmFacts, NotWriting DEF Unmissed, MainStarted, RescueLate
  <1>4. CASE GetValidSlotBoots \/ GetValidSlotResets
    <2>1. \/ pc' \in {"switch_bootmode", "fastboot"}
          \/ pc = "get_valid_slot" /\ pc' = "amlsecurecheck"
      BY <1>4 DEF GetValidSlotBoots, GetValidSlotResets, AfterGetValidSlot, boot_info_save
    <2>2. (Asking(env') <=> Asking(env)) /\ ExpectsMain(env')
      <3>1. CASE GetValidSlotBoots
        <4>1. PICK s : env' = [env EXCEPT !.slot_suffixes = s]
          BY <3>1 DEF GetValidSlotBoots
        <4> QED BY <4>1, <1>1, CalmFacts
      <3>2. CASE GetValidSlotResets
        BY <3>2, <1>1 DEF GetValidSlotResets, ram
      <3> QED BY <1>4, <3>1, <3>2
    <2> QED BY <1>1, <1>2, <1>3, <2>1, <2>2, CalmFacts, UnmissedMoves
  <1>5. CASE GetValidSlotRollsBack
    <2>1. ~Bootable(active) /\ rb' = RollbackFrom("valid_slot", active) /\ env' = env
          /\ pc' = "reason"
      BY <1>5 DEF GetValidSlotRollsBack, active, ActiveIn, boot_info_save
    <2>2. status[active] = "empty"
      <3>1. status[active] # "proven"
        BY <1>1, <2>1, CalmFacts, SomeBootable DEF PromiseInv
      <3>2. Valid /\ Bootable(active) <=> Valid /\ Migrated(misc).slot[active].tries_remaining # 0
        BY DEF Valid, Bootable, boot_info_validate_normalAB, slot_is_bootable
      <3>3. status[active] # "trial"
        BY <1>1, <2>1, <3>2, CalmFacts, TypeFacts DEF PromiseInv
      <3> QED BY <1>1, <3>1, <3>3, TypeFacts DEF Statuses
    <2>3. ~AnyAsk
      BY <2>2, CalmFacts DEF PromiseInv, EnvInv, Requested
    <2>4. rb'.kind = "valid_slot" /\ rb'.src \in {1, 2}
      BY <2>1 DEF RollbackFrom
    <2> QED BY <1>1, <1>2, <2>1, <2>3, <2>4, CalmFacts, UnmissedMoves
  <1> QED BY <1>4, <1>5

LEMMA UnmissedCheck ==
    ASSUME Calm, amlsecurecheck \/ ab_update_rollback \/ forfeit_reason
    PROVE  Unmissed'
  <1> USE DEF Opening, Replacing
  <1>1. TypeOK' /\ TypeOK /\ env \in Env /\ flash.val \in Env /\ ExpectsMain(env)
        /\ (Asking(env) => AnyAsk) /\ ~env.write_boot /\ ~flash.val.write_boot
    BY CalmFacts DEF Calm, Unmissed, MainExpected, AnyAsk, Spares
  <1>2. idx' = idx /\ mode' = mode /\ pc \in {"amlsecurecheck", "ab_update_rollback", "forfeit_reason"}
    BY DEF amlsecurecheck, ab_update_rollback, forfeit_reason
  <1>3. pc \in Opening => /\ Asking(env) => idx = 0
                          /\ mode = "rescueparty" => ~AnyAsk
    BY <1>2, CalmFacts, NotWriting DEF Unmissed, MainStarted, RescueLate
  <1>4. CASE amlsecurecheck
    <2> DEFINE e == [env EXCEPT !.bootloaderIndex = idx]
               v == [flash.val EXCEPT !.bootloaderIndex = idx]
    <2>1. /\ (Asking(e) <=> Asking(env)) /\ ExpectsMain(e)
          /\ Asking(v) <=> Asking(flash.val)
          /\ ExpectsMain(v) <=> ExpectsMain(flash.val)
      BY <1>1, CalmFacts
    <2>2. \/ /\ env' = e /\ pc' = "ab_update_rollback" /\ UNCHANGED <<flash, copies, job>>
          \/ update_env_part(e, v, "ab_update_rollback")
      BY <1>4 DEF amlsecurecheck
    <2>3. pc = "amlsecurecheck" /\ rb' = rb
      BY <1>4 DEF amlsecurecheck
    <2> HIDE DEF e, v
    <2>4. CASE update_env_part(e, v, "ab_update_rollback")
      BY <1>1, <1>2, <2>1, <2>3, <2>4, CalmFacts, UnmissedPart
    <2>5. CASE env' = e /\ pc' = "ab_update_rollback" /\ UNCHANGED <<flash, copies, job>>
      BY <1>1, <1>2, <1>3, <2>1, <2>3, <2>5, CalmFacts, UnmissedMoves
    <2> QED BY <2>2, <2>4, <2>5
  <1>5. CASE ab_update_rollback
    <2> DEFINE e == [env EXCEPT !.reboot_status = "reboot_init"]
               v == [flash.val EXCEPT !.reboot_status = "reboot_init"]
    <2>1. ~Asking(e) /\ ExpectsMain(e) /\ ~Asking(v) /\ ExpectsMain(v)
      BY <1>1 DEF Env, Asking, ExpectsMain
    <2>2. ~Mismatch
      BY <1>1, <1>3, <1>5 DEF Mismatch, Asking, ExpectsMain, ab_update_rollback
    <2>3. \/ /\ mode = "rescueparty" /\ UNCHANGED <<flash, copies, env, job>> /\ pc' = "reason"
             /\ rb' = RollbackFrom("rescueparty", CurrentSlot)
          \/ UNCHANGED <<flash, copies, env, job, rb>> /\ pc' = "update_tries"
          \/ \E next \in AfterExpectedCopy : update_env_part(e, v, next) /\ rb' = rb
      BY <1>1, <1>5, <2>2 DEF ab_update_rollback
    <2>4. pc = "ab_update_rollback"
      BY <1>5 DEF ab_update_rollback
    <2> HIDE DEF e, v
    <2>5. CASE /\ mode = "rescueparty" /\ UNCHANGED <<flash, copies, env, job>> /\ pc' = "reason"
               /\ rb' = RollbackFrom("rescueparty", CurrentSlot)
      <3>1. rb'.kind = "rescueparty" /\ rb'.src \in {1, 2}
        BY <2>5 DEF RollbackFrom
      <3>2. ~AnyAsk /\ (Asking(env') <=> Asking(env)) /\ ExpectsMain(env')
        BY <1>1, <1>3, <2>4, <2>5
      <3> QED BY <1>1, <2>4, <2>5, <3>1, <3>2, CalmFacts, UnmissedMoves
    <2>6. CASE UNCHANGED <<flash, copies, env, job, rb>> /\ pc' = "update_tries"
      BY <1>1, <2>4, <2>6, CalmFacts, UnmissedMoves
    <2>7. CASE \E next \in AfterExpectedCopy : update_env_part(e, v, next) /\ rb' = rb
      <3>1. PICK next \in AfterExpectedCopy : update_env_part(e, v, next) /\ rb' = rb
        BY <2>7
      <3>2. next \in {"update_tries", "reboot"}
        BY DEF AfterExpectedCopy
      <3> QED BY <1>1, <1>2, <2>1, <2>4, <3>1, <3>2, CalmFacts, UnmissedPart
    <2> QED BY <2>3, <2>5, <2>6, <2>7
  <1>6. CASE forfeit_reason
    <2> DEFINE e == IF NoSpace THEN [env EXCEPT !.insufficient_data = FALSE] ELSE env
               v == IF NoSpace THEN [flash.val EXCEPT !.insufficient_data = FALSE] ELSE flash.val
    <2>1. /\ (Asking(e) <=> Asking(env)) /\ ExpectsMain(e)
          /\ Asking(v) <=> Asking(flash.val)
          /\ ExpectsMain(v) <=> ExpectsMain(flash.val)
      BY <1>1, CalmFacts
    <2>2. /\ rb' = rb /\ pc = "forfeit_reason"
          /\ \/ update_env_part(e, v, "forfeit")
             \/ pc' = "forfeit" /\ UNCHANGED <<flash, copies, env, job>>
      BY <1>6 DEF forfeit_reason, SaveUnread
    <2> HIDE DEF e, v
    <2>3. CASE update_env_part(e, v, "forfeit")
      BY <1>1, <1>2, <2>1, <2>2, <2>3, CalmFacts, UnmissedPart
    <2>4. CASE pc' = "forfeit" /\ UNCHANGED <<flash, copies, env, job>>
      BY <1>1, <1>2, <2>2, <2>4, CalmFacts, UnmissedMoves
    <2> QED BY <2>2, <2>3, <2>4
  <1> QED BY <1>4, <1>5, <1>6

LEMMA UnmissedRollback ==
    ASSUME Calm, RollbackStep \/ Reboot
    PROVE  Unmissed'
  <1> USE DEF Opening, Replacing
  <1>1. TypeOK' /\ TypeOK /\ IInv /\ env \in Env /\ ExpectsMain(env) /\ (Asking(env) => AnyAsk)
    BY CalmFacts DEF Calm, Unmissed, MainExpected, AnyAsk
  <1>2. CASE Reboot
    <2>1. /\ pc = "reboot" /\ pc' = "rom" /\ mode' = "normal" /\ env' = DefaultEnv
          /\ UNCHANGED <<flash, copies, job>>
      BY <1>2 DEF Reboot, storage
    <2> QED BY <1>1, <2>1, CalmFacts, UnmissedMoves
  <1>3. ASSUME RollbackStep, pc \in Replacing
        PROVE  /\ rb' = rb /\ idx' = idx /\ mode' = mode /\ Point = pc /\ whole = copies
               /\ ~AnyAsk /\ rb.kind \in {"valid_slot", "rescueparty"} /\ rb.src \in {1, 2}
               /\ pc = "env" \/ (pc \in {"flag", "active"} /\ rb.kind = "rescueparty")
                    => copies[0].good
    <2>1. pc # "writing"
      BY <1>3
    <2>2. Point = pc /\ whole = copies
      BY <1>1, <2>1, NotWriting, Unwritten
    <2>3. rb' = rb /\ idx' = idx /\ mode' = mode
      BY <1>3 DEF RollbackStep, rollback_reason, check_bootloader, set_mergestatus_cancel,
         write_bootloader_back, set_roll_flag, set_active_slot, RollbackEnv, ram
    <2> QED BY <1>3, <2>2, <2>3, CalmFacts DEF Unmissed, MainReplaced, MainRestored
  <1>4. pc \in {"reason", "check", "cancel", "copy", "flag", "active"} /\ RollbackStep =>
          /\ Following = CASE pc = "reason" /\ rb.kind = "valid_slot" -> "check"
                           [] pc = "check" -> "flag"
                           [] pc = "reason" /\ rb.kind # "valid_slot" -> "cancel"
                           [] pc = "cancel" -> "copy"
                           [] pc = "copy" /\ rb.kind = "valid_slot" -> "env"
                           [] pc = "copy" /\ rb.kind # "valid_slot" -> "flag"
                           [] pc = "flag" -> "active"
                           [] pc = "active" /\ rb.kind = "valid_slot" -> "copy"
                           [] pc = "active" /\ rb.kind # "valid_slot" -> "env"
    <2> SUFFICES ASSUME pc \in {"reason", "check", "cancel", "copy", "flag", "active"}, RollbackStep
                 PROVE  Following = CASE pc = "reason" /\ rb.kind = "valid_slot" -> "check"
                           [] pc = "check" -> "flag"
                           [] pc = "reason" /\ rb.kind # "valid_slot" -> "cancel"
                           [] pc = "cancel" -> "copy"
                           [] pc = "copy" /\ rb.kind = "valid_slot" -> "env"
                           [] pc = "copy" /\ rb.kind # "valid_slot" -> "flag"
                           [] pc = "flag" -> "active"
                           [] pc = "active" /\ rb.kind = "valid_slot" -> "copy"
                           [] pc = "active" /\ rb.kind # "valid_slot" -> "env"
      OBVIOUS
    <2>1. PlanAt(pc) /\ rb.kind \in {"valid_slot", "rescueparty"}
      BY <1>1, <1>3 DEF IInv, PlanOK, Point
    <2>2. pc = "check" => rb.kind = "valid_slot"
      BY <2>1 DEF PlanAt
    <2>3. pc = "cancel" => rb.kind = "rescueparty"
      BY <2>1 DEF PlanAt
    <2> QED BY <2>1, <2>2, <2>3 DEF Following
  <1>5. CASE rollback_reason
    <2>1. pc = "reason" /\ RollbackStep
      BY <1>5 DEF rollback_reason, RollbackStep
    <2>2. Following \in {"check", "cancel"}
      BY <2>1, <1>4
    <2>3. CASE update_env_part(env, flash.val, Following)
      BY <1>1, <1>3, <2>1, <2>2, <2>3, CalmFacts, UnmissedPart
    <2>4. CASE pc' = Following /\ UNCHANGED <<flash, copies, env, job>>
      BY <1>1, <1>3, <2>1, <2>2, <2>4, CalmFacts, UnmissedMoves
    <2> QED BY <1>5, <2>3, <2>4 DEF rollback_reason, SaveUnread
  <1>6. CASE check_bootloader \/ set_mergestatus_cancel \/ set_roll_flag \/ set_active_slot
    <2>1. /\ pc' = Following /\ UNCHANGED <<flash, copies, job>> /\ RollbackStep
          /\ pc \in {"check", "cancel", "flag", "active"}
      BY <1>6, CalmFacts DEF check_bootloader, set_mergestatus_cancel, set_roll_flag,
         set_active_slot, boot_info_save, storage, ram, RollbackStep
    <2>2. ASSUME env' = env PROVE (Asking(env') <=> Asking(env)) /\ ExpectsMain(env')
      BY <1>1, <2>2 DEF Asking, ExpectsMain
    <2>9. ASSUME NEW s, env' = [env EXCEPT !.slot_suffixes = s]
           PROVE  (Asking(env') <=> Asking(env)) /\ ExpectsMain(env')
      BY <1>1, <2>9, CalmFacts
    <2>10. env' = env \/ \E s : env' = [env EXCEPT !.slot_suffixes = s]
      <3>1. CASE set_active_slot
        <4>1. CASE rb.to \in Slots
          BY <3>1, <4>1 DEF set_active_slot
        <4>2. CASE rb.to \notin Slots
          BY <3>1, <4>2 DEF set_active_slot
        <4> QED BY <4>1, <4>2
      <3>2. CASE check_bootloader \/ set_mergestatus_cancel \/ set_roll_flag
        BY <3>2, CalmFacts DEF check_bootloader, set_mergestatus_cancel, set_roll_flag,
           boot_info_save, ram
      <3> QED BY <1>6, <3>1, <3>2
    <2>3. (Asking(env') <=> Asking(env)) /\ ExpectsMain(env')
      <3>1. CASE env' = env
        BY <2>2, <3>1
      <3>2. CASE \E s : env' = [env EXCEPT !.slot_suffixes = s]
        <4>1. PICK s : env' = [env EXCEPT !.slot_suffixes = s]
          BY <3>2
        <4> QED BY <2>9, <4>1
      <3> QED BY <2>10, <3>1, <3>2
    <2>4. /\ Following \in {"flag", "copy", "active", "env"}
          /\ Following = "flag" => rb.kind = "valid_slot"
          /\ Following = "active" => pc = "flag"
          /\ Following = "env" => pc = "active" /\ rb.kind = "rescueparty"
      <3>1. PlanAt(pc) /\ rb.kind \in {"valid_slot", "rescueparty"}
        BY <1>1, <1>3, <2>1 DEF IInv, PlanOK, Point
      <3>2. pc = "check" => rb.kind = "valid_slot"
        BY <3>1 DEF PlanAt
      <3> QED BY <1>4, <2>1, <3>1, <3>2
    <2>5. /\ ~AnyAsk /\ rb' = rb /\ rb.kind \in {"valid_slot", "rescueparty"} /\ rb.src \in {1, 2}
          /\ pc' = "env" \/ (pc' \in {"flag", "active"} /\ rb.kind = "rescueparty")
               => copies[0].good
      BY <1>3, <2>1, <2>4
    <2> QED BY <1>1, <2>1, <2>3, <2>4, <2>5, CalmFacts, UnmissedMoves
  <1>7. CASE write_bootloader_back
    <2>1. /\ pc = "copy" /\ RollbackStep /\ StartBootWrite(0, copies[rb.src], Following)
      BY <1>7, CalmFacts DEF write_bootloader_back, RollbackStep, Spares
    <2>2. Following \in {"env", "flag"}
      BY <2>1, <1>4
    <2>3. /\ Point' = Following /\ ~EnvJob' /\ env' = env /\ flash' = flash
          /\ whole'[0] = copies[rb.src]
      BY <1>1, <2>1, CopyBegun, ViewCopies DEF Copies
    <2>4. copies[rb.src].good
      BY <1>3, <2>1, CalmFacts DEF Spares
    <2>5. LoadedEnv' = LoadedEnv
      BY <2>3 DEF LoadedEnv
    <2>6. ~AnyAsk'
      BY <1>3, <2>1, <2>3, <2>5 DEF AnyAsk, Asking
    <2>7. MainExpected'
      BY <2>3, <2>5, CalmFacts DEF Unmissed, MainExpected, ExpectsMain
    <2>8. MainReplaced' /\ MainRestored'
      BY <1>3, <2>1, <2>3, <2>4, <2>6 DEF MainReplaced, MainRestored
    <2> QED BY <2>2, <2>3, <2>6, <2>7, <2>8
            DEF Unmissed, MainReady, MainStarted, RescueLate
  <1>8. CASE RollbackEnv
    <2> DEFINE e == [env EXCEPT !.update_env = TRUE, !.reboot_status = "reboot_next",
                                !.expect_index = rb.dst]
    <2>1. StartEnvWrite(e, e, "reboot") /\ pc = "env" /\ RollbackStep
      BY <1>8 DEF RollbackEnv, saveenv, RollbackStep
    <2>2. ExpectsMain(e)
      <3>1. rb.dst = 0
        BY CalmFacts DEF Spares
      <3> QED BY <1>1, <3>1 DEF Env, ExpectsMain
    <2> HIDE DEF e
    <2>3. /\ env' = e /\ EnvJob' /\ job'.val = e /\ Point' = "reboot" /\ copies' = copies
          /\ LoadedEnv' \in {LoadedEnv, DefaultEnv}
      BY <1>1, <2>1, EnvBegun DEF StartEnvWrite
    <2>4. copies'[0].good /\ ~BootJob'
      BY <1>3, <2>1, <2>3 DEF EnvJob, BootJob
    <2>5. MainExpected'
      BY <2>2, <2>3, CalmFacts DEF Unmissed, MainExpected, ExpectsMain
    <2> QED BY <2>3, <2>4, <2>5
            DEF Unmissed, MainReady, MainReplaced, MainRestored, MainStarted, RescueLate
  <1> QED BY <1>2, <1>5, <1>6, <1>7, <1>8 DEF RollbackStep

LEMMA UnmissedPreboot ==
    ASSUME Calm,
           \/ UpdateStep
           \/ update_tries \/ forfeit \/ backup_boot1 \/ boot1_backed_up \/ tries_check
           \/ switch_bootmode \/ storeboot \/ check_ab
    PROVE  Unmissed'
  <1>1. ~UpdateStep
    <2>1. pc # "writing" => pc \notin Unreached
      BY CalmFacts DEF Spares, Point
    <2> QED BY <2>1 DEF UpdateStep, check_boot1, boot1_checked, write_boot0, write_boot0_fails,
                        update_gpt, boot0_env, Unreached
  <1>2. ~MustBackup
    BY CalmFacts DEF MustBackup
  <1>3. /\ UNCHANGED <<flash, copies, env, job, rb>> /\ pc # "writing"
        /\ pc' \in Quiet \cup {"forfeit_reason", "forfeit", "reboot", "fastboot", "recovery"}
    BY <1>1, <1>2 DEF update_tries, forfeit, backup_boot1, boot1_backed_up, tries_check,
       switch_bootmode, storeboot, check_ab, boot_info_save, storage, ram, Quiet
  <1>4. /\ pc' # "writing" /\ pc' \notin Replacing /\ pc' \notin Opening \cup {"rom"}
        /\ pc' \notin {"env", "flag", "active"}
    BY <1>3 DEF Quiet, Replacing, Opening
  <1>5. TypeOK' /\ ExpectsMain(env') /\ (Asking(env') => AnyAsk)
    BY <1>3, CalmFacts DEF Calm, Unmissed, MainExpected, AnyAsk
  <1> QED BY <1>3, <1>4, <1>5, CalmFacts, UnmissedMoves

LEMMA UnmissedFinish ==
    ASSUME Calm, FinishWrite
    PROVE  Unmissed'
  <1>1. /\ pc = "writing" /\ pc' = job.then /\ job.then # "writing" /\ env' = env /\ rb' = rb
        /\ mode' = mode /\ idx' = idx /\ TypeOK
    BY CalmFacts DEF FinishWrite, IInv, PlanOK
  <1>2. Point' = Point /\ ~EnvJob' /\ ~BootJob' /\ whole' = copies'
    BY <1>1, UnwrittenNext, NotWritingNext DEF Point, Calm
  <1>3. CASE job.op = "boot"
    <2>1. /\ BootJob /\ job.dst = 0 /\ flash' = flash
          /\ copies' = [copies EXCEPT ![job.dst] = job.img]
      BY <1>1, <1>3, CalmFacts DEF Spares, FinishWrite, BootJob
    <2>2. whole[0] = copies'[0]
      BY <1>1, <2>1 DEF whole, TypeOK, Copies
    <2>3. LoadedEnv' = LoadedEnv /\ ~AnyAsk'
      BY <1>1, <1>2, <2>1, CalmFacts DEF LoadedEnv, AnyAsk, Asking, Unmissed, MainReady
    <2> QED BY <1>1, <1>2, <2>2, <2>3, CalmFacts
            DEF Unmissed, MainReady, MainExpected, MainReplaced, MainRestored, MainStarted,
                RescueLate, ExpectsMain
  <1>4. CASE job.op # "boot"
    <2>1. EnvJob /\ ~BootJob /\ flash' = [ok |-> TRUE, val |-> job.val] /\ copies' = copies
      BY <1>1, <1>4 DEF FinishWrite, EnvJob, BootJob
    <2>2. LoadedEnv' = job.val
      BY <2>1 DEF LoadedEnv
    <2>3. whole = copies
      BY <1>1, <2>1 DEF whole, TypeOK
    <2>4. AnyAsk' => AnyAsk
      BY <1>1, <1>2, <2>1, <2>2 DEF AnyAsk, Asking
    <2>5. MainExpected'
      BY <1>1, <1>2, <2>1, <2>2, CalmFacts DEF Unmissed, MainExpected, ExpectsMain
    <2> QED BY <1>1, <1>2, <2>1, <2>3, <2>4, <2>5, CalmFacts
            DEF Unmissed, MainReady, MainReplaced, MainRestored, MainStarted, RescueLate, Asking
  <1> QED BY <1>3, <1>4

LEMMA UnmissedOutside ==
    ASSUME Calm, ~BadImages, Outside
    PROVE  Unmissed'
  <1> USE DEF Opening, Replacing
  <1>1. /\ TypeOK' /\ TypeOK /\ LoadedEnv \in Env /\ ExpectsMain(env) /\ ExpectsMain(LoadedEnv)
        /\ ~Asking(DefaultEnv) /\ ExpectsMain(DefaultEnv)
        /\ Asking(env) \/ Asking(LoadedEnv) => AnyAsk
    BY CalmFacts DEF Calm, Unmissed, MainExpected, AnyAsk
  <1>2. CASE MarkBootSuccessful \/ BeginUpdate
    <2>1. pc = "kernel" /\ pc' = pc /\ UNCHANGED <<flash, copies, job, env>>
      BY <1>2 DEF MarkBootSuccessful, BeginUpdate, ram
    <2>2. ExpectsMain(env') /\ (Asking(env') => AnyAsk)
      BY <1>1, <2>1
    <2> QED BY <1>1, <2>1, <2>2, CalmFacts, UnmissedMoves
  <1>3. CASE UserReboot \/ RescueParty \/ Attended
    <2>1. /\ pc \in {"kernel", "fastboot", "recovery"} /\ pc' = "rom" /\ env' = DefaultEnv
          /\ UNCHANGED <<flash, copies, job>>
      BY <1>3 DEF UserReboot, RescueParty, Attended, Leave, storage
    <2>2. mode' = "rescueparty" => pc = "kernel"
      BY <1>3 DEF UserReboot, RescueParty, Attended, Leave
    <2>3. pc = "kernel" => ~AnyAsk
      <3>1. pc = "kernel" => Point \in Quiet /\ ~EnvJob
        BY NotWriting DEF Quiet
      <3> QED BY <3>1, CalmFacts DEF PromiseInv, EnvInv, Settled, Later, AnyAsk
    <2> QED BY <1>1, <2>1, <2>2, <2>3, CalmFacts, UnmissedMoves
  \* The other steps end at power-on with another env in flash.
  <1>4. ASSUME pc' = "rom", env' = DefaultEnv, mode' # "rescueparty", ExpectsMain(LoadedEnv'),
               Asking(LoadedEnv') => copies'[0].good
        PROVE  Unmissed'
    <2>1. Point' = "rom" /\ ~EnvJob' /\ ~BootJob'
      BY <1>4, NotWritingNext
    <2> QED BY <1>1, <1>4, <2>1
            DEF Unmissed, MainReady, MainExpected, MainReplaced, MainRestored, MainStarted,
                RescueLate, AnyAsk
  <1>5. CASE FinishUpdate
    <2> DEFINE e == [LoadedEnv EXCEPT !.update_env = TRUE, !.reboot_status = "reboot_next",
                                      !.expect_index = 0]
               t == Other(Running)
    <2>1. /\ flash' = [ok |-> TRUE, val |-> e] /\ env' = DefaultEnv /\ pc' = "rom"
          /\ mode' = "normal"
      BY <1>5, CalmFacts DEF FinishUpdate, Leave
    <2>2. ExpectsMain(e)
      BY <1>1 DEF Env, ExpectsMain
    <2>3. PICK img : img.good /\ copies' = [copies EXCEPT ![0] = img, ![1 + t] = img]
      <3>1. PICK good \in {TRUE, ~BadImages} :
              copies' = [copies EXCEPT ![0] = [gen |-> gen + 1, good |-> good],
                                       ![1 + t] = [gen |-> gen + 1, good |-> good]]
        BY <1>5, CalmFacts DEF FinishUpdate
      <3>2. [gen |-> gen + 1, good |-> good].good
        BY <3>1
      <3> QED BY <3>1, <3>2
    <2> HIDE DEF e, t
    <2>4. copies'[0].good
      BY <1>1, <2>3 DEF TypeOK, Copies
    <2>5. LoadedEnv' = e
      BY <2>1 DEF LoadedEnv
    <2> QED BY <1>4, <2>1, <2>2, <2>4, <2>5
  <1>6. CASE AndroidFails
    <2> DEFINE e == [LoadedEnv EXCEPT !.insufficient_data = TRUE]
    <2>1. /\ env' = DefaultEnv /\ pc' = "rom" /\ copies' = copies /\ mode' # "rescueparty"
          /\ flash' = flash \/ flash' = [ok |-> TRUE, val |-> e]
      BY <1>6 DEF AndroidFails, Leave
    <2>2. (Asking(e) <=> Asking(LoadedEnv)) /\ ExpectsMain(e)
      BY <1>1, CalmFacts
    <2> HIDE DEF e
    <2>3. LoadedEnv' \in {LoadedEnv, e}
      BY <2>1 DEF LoadedEnv
    <2>4. Asking(LoadedEnv') => copies'[0].good
      BY <1>1, <2>1, <2>2, <2>3, CalmFacts DEF Unmissed, MainReady
    <2> QED BY <1>1, <1>4, <2>1, <2>2, <2>3, <2>4
  <1>7. CASE PowerCut
    <2>1. /\ env' = DefaultEnv /\ pc' = "rom" /\ copies' = copies /\ mode' = "normal"
          /\ flash' = flash
      BY <1>7 DEF PowerCut, Leave, storage
    <2>2. LoadedEnv' = LoadedEnv
      BY <2>1 DEF LoadedEnv
    <2>3. Asking(LoadedEnv') => copies'[0].good
      BY <1>1, <2>1, <2>2, CalmFacts DEF Unmissed, MainReady
    <2> QED BY <1>1, <1>4, <2>1, <2>2, <2>3
  <1> QED BY <1>2, <1>3, <1>5, <1>6, <1>7 DEF Outside

LEMMA InitUnmissed ==
    ASSUME ~Gpt, Init, IInv
    PROVE  Unmissed
  <1>1. /\ env = DefaultEnv /\ flash = [ok |-> TRUE, val |-> DefaultEnv] /\ pc = "rom"
        /\ mode = "normal"
    BY DEF Init
  <1>2. Point = "rom" /\ ~EnvJob /\ LoadedEnv = DefaultEnv
    BY <1>1, NotWriting DEF LoadedEnv, IInv
  <1>3. ~Asking(DefaultEnv) /\ ExpectsMain(DefaultEnv)
    BY DEF DefaultEnv, Asking, ExpectsMain
  <1> HIDE DEF DefaultEnv, Asking, ExpectsMain
  <1>4. ~AnyAsk
    BY <1>1, <1>2, <1>3 DEF AnyAsk
  <1> QED BY <1>1, <1>2, <1>3, <1>4
          DEF Unmissed, MainReady, MainExpected, MainReplaced, MainRestored, MainStarted,
              RescueLate, Replacing, Opening

LEMMA StepUnmissed ==
    ASSUME ~Gpt, ~BadImages, ~LateCrash, AllInv, Spares, Unmissed, [Next]_vars
    PROVE  Unmissed'
  <1>1. Calm
    BY NextIInv DEF Calm, AllInv, IInv
  <1>2. CASE UNCHANGED vars
    <2>1. /\ flash' = flash /\ pc' = pc /\ env' = env /\ mode' = mode /\ rb' = rb
          /\ job' = job /\ copies' = copies /\ idx' = idx
      BY <1>2 DEF vars, storage, ram
    <2>2. /\ Point' = Point /\ EnvJob' = EnvJob /\ BootJob' = BootJob
          /\ LoadedEnv' = LoadedEnv
      BY <2>1 DEF Point, EnvJob, BootJob, LoadedEnv
    <2>3. AnyAsk' = AnyAsk /\ whole' = whole
      BY <2>1, <2>2 DEF AnyAsk, Asking, whole
    <2> HIDE DEF Point, EnvJob, BootJob, LoadedEnv, AnyAsk, whole
    <2> QED BY <2>1, <2>2, <2>3
            DEF Unmissed, MainReady, MainExpected, MainReplaced, MainRestored, MainStarted,
                RescueLate, ExpectsMain, Asking
  <1>3. CASE RollbackStep \/ Reboot
    BY <1>1, <1>3, UnmissedRollback
  <1>4. CASE amlsecurecheck \/ ab_update_rollback \/ forfeit_reason
    BY <1>1, <1>4, UnmissedCheck
  <1>5. CASE \/ UpdateStep
             \/ update_tries \/ forfeit \/ backup_boot1 \/ boot1_backed_up \/ tries_check
             \/ switch_bootmode \/ storeboot \/ check_ab
    BY <1>1, <1>5, UnmissedPreboot
  <1>6. CASE BootRom \/ BootRomFails \/ aml_update_env
    BY <1>1, <1>6, UnmissedPowerOn
  <1>7. CASE GetValidSlotBoots \/ GetValidSlotRollsBack \/ GetValidSlotResets
    BY <1>1, <1>7, UnmissedSlot
  <1>8. CASE FinishWrite
    BY <1>1, <1>8, UnmissedFinish
  <1>9. CASE Outside
    BY <1>1, <1>9, UnmissedOutside
  <1> QED BY <1>2, <1>3, <1>4, <1>5, <1>6, <1>7, <1>8, <1>9 DEF Next, UBoot, TriesStep

\* The rollback in progress goes to the slot that has booted.
LEMMA GoesToProven ==
    ASSUME AllInv, pc = "active", rb.to \in Slots, status[rb.to] = "proven"
    PROVE  misc.slot[rb.to].successful_boot
  <1>1. TypeOK /\ Point \notin Early /\ Valid
    BY NotWriting DEF AllInv, IInv, PromiseInv, Early
  <1> QED BY <1>1, ValidMeta

LEMMA UnmissedInductive ==
    ASSUME ~Gpt, ~BadImages, ~Legacy, ~LateCrash
    PROVE  Spec => [](AllInv /\ Spares /\ Unmissed)
  <1>1. Init => AllInv /\ Spares /\ Unmissed
    BY InitIInv, InitPromise, InitSpares, InitUnmissed DEF AllInv
  <1>2. AllInv /\ Spares /\ Unmissed /\ [Next]_vars => (AllInv /\ Spares /\ Unmissed)'
    <2> SUFFICES ASSUME AllInv, Spares, Unmissed, [Next]_vars
                 PROVE  AllInv' /\ Spares' /\ Unmissed'
      OBVIOUS
    <2>1. AllInv'
      BY NextIInv, StepPromise DEF AllInv
    <2>2. IInv
      BY DEF AllInv
    <2> QED BY <2>1, <2>2, StepSpares, StepUnmissed
  <1> QED BY <1>1, <1>2, PTL DEF Spec

\* Without a GPT, with images the ROM accepts, every rollback makes a slot active that has
\* booted: wherever the power fails, whatever is left of the env, and whichever reads of
\* partitions fail.
THEOREM SparesRollbackToProven ==
    ~Gpt /\ ~BadImages /\ ~Legacy /\ ~LateCrash => (Spec => []RollbackToProven)
  <1> SUFFICES ASSUME ~Gpt, ~BadImages, ~Legacy, ~LateCrash
               PROVE  Spec => []RollbackToProven
    OBVIOUS
  <1>1. AllInv /\ Spares /\ Unmissed => RollbackToProven
    <2> SUFFICES ASSUME AllInv, Unmissed, pc = "active", rb.to \in Slots
                 PROVE  misc.slot[rb.to].successful_boot
      BY DEF RollbackToProven
    <2>1. Point = "active"
      BY NotWriting DEF AllInv, IInv
    <2>2. rb.kind \in {"valid_slot", "rescueparty"}
      BY <2>1 DEF Unmissed, MainReplaced, Replacing
    <2>3. rb.to = Other(active) /\ status[active] # "proven"
      BY <2>1, <2>2 DEF AllInv, PromiseInv, Returning, Before
    <2>4. \A s \in Slots : s # active => s = Other(active)
      BY TypeFacts DEF AllInv, IInv
    <2>5. status[rb.to] = "proven"
      BY <2>3, <2>4 DEF AllInv, PromiseInv, Base, SomeProven
    <2> QED BY <2>5, GoesToProven
  <1> QED BY <1>1, UnmissedInductive, PTL

\* Until the first power cut that holds with a GPT too, for images that the ROM rejects.
THEOREM UncutRollbackToProven ==
    ~Legacy /\ ~LateCrash => (Spec => [](crashes = 0 => RollbackToProven))
  <1> SUFFICES ASSUME ~Legacy, ~LateCrash
               PROVE  Spec => [](crashes = 0 => RollbackToProven)
    OBVIOUS
  <1>1. AllInv /\ UncutInv => RollbackToProven
    <2> SUFFICES ASSUME AllInv, UncutInv, pc = "active", rb.to \in Slots
                 PROVE  misc.slot[rb.to].successful_boot
      BY DEF RollbackToProven
    <2>1. Point \in Rolling
      BY NotWriting DEF AllInv, IInv, Rolling
    <2>2. rb.to = Trusted /\ KeptTrue
      BY <2>1 DEF UncutInv, Rolls
    <2> QED BY <2>2, UncutFacts, GoesToProven
  <1> QED BY <1>1, UncutInductive, PTL

\* Until then the bootloader of the slot to go back to is kept in some copy, however the
\* update that is on trial came about.
THEOREM UncutFallbackKept ==
    ~Legacy /\ ~LateCrash => (Spec => [](crashes = 0 => FallbackKept))
  <1> SUFFICES ASSUME ~Legacy, ~LateCrash
               PROVE  Spec => [](crashes = 0 => FallbackKept)
    OBVIOUS
  <1>1. AllInv /\ UncutInv => FallbackKept
    <2> SUFFICES ASSUME AllInv, UncutInv, NEW s \in Slots, pc = "kernel",
                        get_active_slot(misc) = s, ~misc.slot[s].successful_boot
                 PROVE  \E c \in Copies : copies[c] = part[Other(s)]
      BY DEF FallbackKept
    <2>1. s = active /\ status[active] # "proven"
      BY AtKernel
    <2>2. KeptTrue /\ Fallback /\ whole = copies
      BY QuietUncut DEF Quiet
    <2>3. Trusted = Other(s)
      BY <2>1 DEF Trusted
    <2>4. Backed /\ KeptFor(Trusted) \in Copies
      BY <2>1, <2>2, UncutFacts DEF Fallback
    <2>5. copies[KeptFor(Trusted)] = part[Other(s)]
      BY <2>2, <2>3, <2>4 DEF Backed
    <2> QED BY <2>4, <2>5
  <1> QED BY <1>1, UncutInductive, PTL

-----------------------------------------------------------------------------
\* A slot whose system works keeps its bootloader in the copy of its own: the HAL writes
\* both at once, and U-Boot writes neither.
OwnKept == \A s \in Slots : osOk[s] => copies[1 + s] = part[s]

LEMMA OwnUBoot ==
    ASSUME ~Gpt, IInv, Spares, UBoot
    PROVE  copies'[1] = copies[1] /\ copies'[2] = copies[2] /\ part' = part /\ osOk' = osOk
  <1>1. TypeOK /\ copies \in [Copies -> Images] /\ 1 \in Copies /\ 2 \in Copies
    BY DEF IInv, TypeOK, Copies
  <1>2. CASE FinishWrite
    <2>1. /\ part' = part /\ osOk' = osOk
          /\ \/ job.op = "boot" /\ copies' = [copies EXCEPT ![0] = job.img]
             \/ copies' = copies
      BY <1>2 DEF FinishWrite, Spares, storage, world
    <2> QED BY <1>1, <2>1
  <1>3. CASE write_bootloader_back
    <2>1. copies' = [copies EXCEPT ![0] = Torn] /\ part' = part /\ osOk' = osOk
      BY <1>3 DEF write_bootloader_back, StartBootWrite, Spares, world
    <2> QED BY <1>1, <2>1
  <1>4. ~UpdateStep
    <2>1. pc # "writing" => pc \notin Unreached
      BY DEF Spares, Point
    <2> QED BY <2>1 DEF UpdateStep, check_boot1, boot1_checked, write_boot0, write_boot0_fails,
                        update_gpt, boot0_env, Unreached
  <1>5. CASE TriesStep
    BY <1>5 DEF TriesStep, update_tries, forfeit_reason, SaveUnread, forfeit, backup_boot1,
       boot1_backed_up, tries_check, MustBackup, boot_info_save, update_env_part,
       StartEnvWrite, storage, world
  <1>6. CASE \/ BootRom \/ BootRomFails \/ aml_update_env
             \/ GetValidSlotBoots \/ GetValidSlotRollsBack \/ GetValidSlotResets
    BY <1>6 DEF BootRom, BootRomFails, aml_update_env, GetValidSlotBoots,
       GetValidSlotRollsBack, GetValidSlotResets, boot_info_save, saveenv, StartEnvWrite,
       storage, world
  <1>7. CASE \/ rollback_reason \/ check_bootloader \/ set_mergestatus_cancel
             \/ set_roll_flag \/ set_active_slot \/ RollbackEnv \/ Reboot
    BY <1>7 DEF rollback_reason, SaveUnread, check_bootloader, set_mergestatus_cancel, set_roll_flag,
       set_active_slot, RollbackEnv, Reboot, boot_info_save, saveenv, update_env_part,
       StartEnvWrite, storage, world
  <1>8. CASE \/ amlsecurecheck \/ ab_update_rollback
             \/ switch_bootmode \/ storeboot \/ check_ab
    BY <1>8 DEF amlsecurecheck, ab_update_rollback, switch_bootmode, storeboot, check_ab,
       boot_info_save, update_env_part, StartEnvWrite, storage, world
  <1> QED BY <1>2, <1>3, <1>4, <1>5, <1>6, <1>7, <1>8 DEF UBoot, RollbackStep

LEMMA StepOwn ==
    ASSUME ~Gpt, AllInv, Spares, OwnKept, [Next]_vars
    PROVE  OwnKept'
  <1>1. /\ IInv /\ TypeOK /\ copies \in [Copies -> Images] /\ part \in [Slots -> Images]
        /\ osOk \in [Slots -> BOOLEAN]
    BY DEF AllInv, IInv, TypeOK
  <1>2. ASSUME copies'[1] = copies[1], copies'[2] = copies[2], part' = part, osOk' = osOk
        PROVE  OwnKept'
    BY <1>2 DEF OwnKept, Slots
  <1>3. CASE UBoot
    BY <1>1, <1>2, <1>3, OwnUBoot
  <1>4. CASE UNCHANGED vars
    BY <1>2, <1>4 DEF vars, storage, world
  <1>5. CASE BeginUpdate \/ FinishUpdate
    <2>1. pc = "kernel"
      BY <1>5 DEF BeginUpdate, FinishUpdate
    <2> DEFINE t == Other(Running)
    <2>2. t \in Slots
      BY <2>1, AtKernel
    <2>3. CASE BeginUpdate
      <3>1. /\ copies' = copies /\ part' = [part EXCEPT ![t] = Torn]
            /\ osOk' = [osOk EXCEPT ![t] = FALSE]
        BY <2>3 DEF BeginUpdate
      <3> HIDE DEF t
      <3> QED BY <1>1, <2>2, <3>1 DEF OwnKept
    <2>4. CASE FinishUpdate
      <3>1. PICK good \in {TRUE, ~BadImages}, works \in BOOLEAN :
              /\ part' = [part EXCEPT ![t] = [gen |-> gen + 1, good |-> good]]
              /\ osOk' = [osOk EXCEPT ![t] = works]
              /\ copies' = [copies EXCEPT ![0] = [gen |-> gen + 1, good |-> good],
                                          ![1 + t] = [gen |-> gen + 1, good |-> good]]
        BY <2>4 DEF FinishUpdate
      <3> DEFINE img == [gen |-> gen + 1, good |-> good]
      <3>2. /\ part' = [part EXCEPT ![t] = img]
            /\ copies' = [copies EXCEPT ![0] = img, ![1 + t] = img]
        BY <3>1
      <3> HIDE DEF t, img
      <3> QED BY <1>1, <2>2, <3>1, <3>2 DEF OwnKept, Slots, Copies
    <2> QED BY <1>5, <2>3, <2>4
  <1>6. CASE \/ MarkBootSuccessful \/ AndroidFails \/ UserReboot \/ RescueParty \/ Attended
             \/ PowerCut
    <2>1. copies' = copies /\ part' = part /\ osOk' = osOk
      BY <1>6 DEF MarkBootSuccessful, AndroidFails, UserReboot, RescueParty, Attended,
         PowerCut, Leave, storage, world
    <2> QED BY <1>2, <2>1
  <1> QED BY <1>3, <1>4, <1>5, <1>6 DEF Next, Outside

\* Without a GPT, with images the ROM accepts, the bootloader of the slot to go back to is
\* kept as well, wherever the power fails.
THEOREM SparesFallbackKept ==
    ~Gpt /\ ~BadImages /\ ~Legacy /\ ~LateCrash => (Spec => []FallbackKept)
  <1> SUFFICES ASSUME ~Gpt, ~BadImages, ~Legacy, ~LateCrash
               PROVE  Spec => []FallbackKept
    OBVIOUS
  <1>1. Init => AllInv /\ Spares /\ OwnKept
    <2> SUFFICES ASSUME Init PROVE OwnKept
      BY InitIInv, InitPromise, InitSpares DEF AllInv
    <2> QED BY DEF Init, OwnKept, Slots, Copies
  <1>2. AllInv /\ Spares /\ OwnKept /\ [Next]_vars => (AllInv /\ Spares /\ OwnKept)'
    <2> SUFFICES ASSUME AllInv, Spares, OwnKept, [Next]_vars
                 PROVE  AllInv' /\ Spares' /\ OwnKept'
      OBVIOUS
    <2>1. AllInv'
      BY NextIInv, StepPromise DEF AllInv
    <2>2. IInv
      BY DEF AllInv
    <2> QED BY <2>1, <2>2, StepSpares, StepOwn
  <1>3. AllInv /\ OwnKept => FallbackKept
    <2> SUFFICES ASSUME AllInv, OwnKept, NEW s \in Slots, pc = "kernel",
                        misc.slot[Other(s)].successful_boot
                 PROVE  \E c \in Copies : copies[c] = part[Other(s)]
      BY DEF FallbackKept
    <2>1. Other(s) \in Slots /\ 1 + Other(s) \in Copies
      BY DEF Other, Slots, Copies
    <2>2. status[Other(s)] = "proven"
      BY <2>1, AtKernel
    <2>3. osOk[Other(s)]
      BY <2>1, <2>2 DEF AllInv, PromiseInv, Base, ProvenWorks
    <2> QED BY <2>1, <2>3 DEF OwnKept
  <1> QED BY <1>1, <1>2, <1>3, PTL DEF Spec

-----------------------------------------------------------------------------
(* What boot1 is said to hold, and what it is written with, while the      *)
(* power does not fail.                                                    *)

\* Only a slot that has booted is noted, and only with a GPT; the bootloader of such a slot
\* has booted with it.
Recorded == /\ NotedIsProven
            /\ ~Gpt => noted = {}
            /\ \A s \in Slots : status[s] = "proven" => part[s].gen \in proven

\* An update starts from boot0, which is still that of the slot gone from.
UpdatesFromBoot0 == Point = "check_boot1" => idx = Main

LEMMA RecordedKept ==
    ASSUME Recorded, noted' \subseteq noted, part' = part, proven' = proven,
           \A s \in Slots : status'[s] = "proven" <=> status[s] = "proven"
    PROVE  Recorded'
  <1>1. noted \subseteq Slots
    BY DEF noted
  <1> HIDE DEF noted, status
  <1> QED BY <1>1 DEF Recorded, NotedIsProven

LEMMA InitRecorded ==
    ASSUME ~Legacy, Init, IInv
    PROVE  Recorded /\ UpdatesFromBoot0
  <1>1. noted = {} /\ part = [s \in Slots |-> FactoryImage] /\ proven = {1} /\ pc = "rom"
    BY FactorySlots DEF Init
  <1>2. FactoryImage.gen = 1 /\ \A s \in Slots : part[s] = FactoryImage
    BY <1>1 DEF FactoryImage
  <1>3. Point = "rom"
    BY <1>1 DEF Point
  <1> HIDE DEF noted, status, FactoryImage
  <1> QED BY <1>1, <1>2, <1>3 DEF Recorded, NotedIsProven, UpdatesFromBoot0

LEMMA MarkRecorded ==
    ASSUME AllInv, UncutInv, Recorded, MarkBootSuccessful
    PROVE  Recorded'
  <1>1. /\ pc = "kernel" /\ part' = part /\ proven' = proven \cup {copies[idx].gen}
    BY DEF MarkBootSuccessful
  <1>2. pc \in Quiet
    BY <1>1 DEF Quiet
  <1>3. whole = copies /\ whole[Main] = part[active] /\ idx = Main
    BY <1>2, QuietUncut
  <1>4. copies[idx] = part[active]
    BY <1>3
  <1>5. /\ active' = active /\ status'[active] = "proven"
        /\ \A t \in Slots : t # active => status'[t] = status[t]
        /\ noted \subseteq Slots /\ noted' \subseteq Slots
        /\ active \in noted' => active \in noted
        /\ \A t \in Slots : t # active => (t \in noted' <=> t \in noted)
    BY MarkSlots
  <1> HIDE DEF noted, status, active
  <1>6. noted' \subseteq noted
    BY <1>5
  <1> QED BY <1>1, <1>4, <1>5, <1>6 DEF Recorded, NotedIsProven

LEMMA UpdateRecorded ==
    ASSUME AllInv, UncutInv, Recorded, BeginUpdate \/ FinishUpdate
    PROVE  Recorded'
  <1>1. pc = "kernel" /\ proven' = proven
    BY DEF BeginUpdate, FinishUpdate, world
  <1>2. /\ active \in Slots /\ Other(active) \in Slots /\ Running = active
        /\ Other(active) # active /\ \A s \in Slots : s = active \/ s = Other(active)
        /\ part \in [Slots -> Images]
    BY <1>1, AtKernel DEF AllInv, IInv, TypeOK
  <1>3. part'[active] = part[active]
    BY <1>2 DEF BeginUpdate, FinishUpdate
  <1>4. /\ status[active] = "proven" /\ status'[active] = "proven"
        /\ status'[Other(active)] # "proven"
        /\ active \in noted' <=> active \in noted
        /\ \A t \in noted' : t = active
    <2>1. CASE BeginUpdate
      BY <2>1, BeginSlots
    <2>2. CASE FinishUpdate
      BY <2>2, StartSlots
    <2> QED BY <2>1, <2>2
  <1> HIDE DEF noted, status, active
  <1> QED BY <1>1, <1>2, <1>3, <1>4 DEF Recorded, NotedIsProven

LEMMA NoteRecorded ==
    ASSUME AllInv, UncutInv, Recorded, boot1_checked \/ boot1_backed_up
    PROVE  Recorded'
  <1>1. /\ pc \in {"boot1_checked", "boot1_backed_up"} /\ part' = part /\ proven' = proven
        /\ osOk' = osOk /\ Onward
    BY DEF boot1_checked, boot1_backed_up, boot_info_save, ram, world, Onward
  <1>2. Point = pc /\ Point \notin Early
    BY <1>1, NotWriting DEF AllInv, IInv, Early
  <1>3. active \in Slots /\ active = get_active_slot(misc)
    BY <1>2, ValidMeta, TypeFacts DEF AllInv, IInv, PromiseInv
  <1>4. CASE misc' = misc
    <2>1. active' = active /\ status' = status /\ part' = part /\ noted' = noted
      BY <1>1, <1>4, OnwardSlots, SlotsView
    <2> HIDE DEF noted, status
    <2> QED BY <1>1, <2>1, RecordedKept
  <1>5. ASSUME misc' # misc
        PROVE  \E s \in Slots : /\ misc' = [misc EXCEPT !.slot[s].uboot_status = 2]
                                /\ status[s] = "proven" /\ Gpt
    <2>1. CASE boot1_checked
      <3>1. pc = "boot1_checked"
        BY <2>1 DEF boot1_checked
      <3>2. Gpt /\ Trusted = Other(active)
        BY <3>1, UpdatingUncut
      <3>3. BackupSlot = Trusted /\ Trusted \in Slots /\ status[Trusted] = "proven"
        BY <1>3, <3>2, UncutFacts DEF BackupSlot, UncutInv
      <3>4. misc' = [misc EXCEPT !.slot[BackupSlot].uboot_status = 2]
        BY <1>5, <2>1 DEF boot1_checked, boot_info_save
      <3> HIDE DEF Trusted, BackupSlot, status
      <3> QED BY <3>2, <3>3, <3>4
    <2>2. CASE boot1_backed_up
      <3>1. MustBackup /\ misc' = [misc EXCEPT !.slot[get_active_slot(misc)].uboot_status = 2]
        BY <1>5, <2>2 DEF boot1_backed_up, boot_info_save
      <3>2. Gpt /\ status[active] = "proven"
        BY <1>2, <3>1, Musts DEF MustBackup
      <3> HIDE DEF active, status
      <3> QED BY <1>3, <3>1, <3>2
    <2> QED BY <2>1, <2>2
  <1>6. CASE misc' # misc
    <2>1. PICK s \in Slots : /\ misc' = [misc EXCEPT !.slot[s].uboot_status = 2]
                             /\ status[s] = "proven" /\ Gpt
      BY <1>5, <1>6
    <2>2. active' = active /\ status' = status /\ noted' = noted \cup {s}
      BY <1>1, <1>2, <2>1, NotesOne
    <2> HIDE DEF noted, status
    <2> QED BY <1>1, <2>1, <2>2 DEF Recorded, NotedIsProven
  <1> QED BY <1>4, <1>6

\* Every other step leaves what is noted and what is proven as it was.
LEMMA SameRecorded ==
    ASSUME AllInv, UncutInv, Recorded, UBoot, ~boot1_checked, ~boot1_backed_up
    PROVE  Recorded'
  <1>1. part' = part /\ proven' = proven /\ osOk' = osOk
    BY Zenon DEF UBoot, RollbackStep, UpdateStep, TriesStep, storage, world, BootRom,
       BootRomFails, aml_update_env, GetValidSlotBoots, GetValidSlotRollsBack,
       GetValidSlotResets, rollback_reason, check_bootloader, set_mergestatus_cancel,
       write_bootloader_back, set_roll_flag, set_active_slot, RollbackEnv, Reboot,
       amlsecurecheck, ab_update_rollback, check_boot1, write_boot0,
       write_boot0_fails, update_gpt, boot0_env, update_tries, forfeit_reason, SaveUnread, forfeit,
       backup_boot1, tries_check, switch_bootmode, storeboot, check_ab, FinishWrite
  <1>2. ASSUME \/ misc' = misc
               \/ misc' = Migrated(misc)
        PROVE  Recorded'
    <2>1. Unseen
      BY <1>1, <1>2, UnseenMeta
    <2>2. SlotsSame
      BY <1>1, <1>2, <2>1, SameSlots
    <2>3. status' = status /\ noted' = noted
      BY <2>2, SlotsView
    <2> HIDE DEF noted, status
    <2> QED BY <1>1, <2>3, RecordedKept
  <1>3. CASE set_roll_flag
    <2>1. SlotsSame
      <3>1. misc' = misc \/ misc' = [misc EXCEPT !.roll_flag = TRUE]
        BY <1>3 DEF set_roll_flag, boot_info_save
      <3> QED BY <1>1, <1>3, <3>1, CommandPromise, SameSlots
    <2>2. status' = status /\ noted' = noted
      BY <2>1, SlotsView
    <2> HIDE DEF noted, status
    <2> QED BY <1>1, <2>2, RecordedKept
  <1>4. CASE set_active_slot
    <2>1. noted' = noted /\ status' = status
      BY <1>4, SetActiveSlots
    <2> HIDE DEF noted, status
    <2> QED BY <1>1, <2>1, RecordedKept
  <1>5. CASE update_tries \/ forfeit
    <2>1. noted' = noted /\ \A t \in Slots : status'[t] = "proven" <=> status[t] = "proven"
      BY <1>5, ChargedSlots
    <2> HIDE DEF noted, status
    <2> QED BY <1>1, <2>1, RecordedKept
  <1>6. CASE tries_check
    <2>1. active' = active /\ status' = status
      BY <1>6, OnwardUnseen DEF Onward, Unseen, Stutters
    <2>2. CASE misc' = misc
      BY <1>2, <2>2
    <2>3. CASE misc' = boot_info_reset
      <3>1. noted' = {}
        <4>1. noted' = {s \in Slots : Migrated(misc').slot[s].uboot_status = 2}
          BY DEF noted, Migrated
        <4>2. Migrated(misc') = boot_info_reset
          BY <2>3, ResetMeta, MappedValid
        <4>3. \A s \in Slots : boot_info_reset.slot[s].uboot_status # 2
          BY DEF boot_info_reset
        <4> QED BY <4>1, <4>2, <4>3
      <3> HIDE DEF noted, status
      <3> QED BY <1>1, <2>1, <3>1, RecordedKept
    <2> QED BY <1>6, <2>2, <2>3 DEF tries_check, boot_info_save
  <1>7. CASE GetValidSlotBoots \/ GetValidSlotRollsBack
    BY <1>2, <1>7 DEF GetValidSlotBoots, GetValidSlotRollsBack, boot_info_save
  <1>8. ~GetValidSlotResets
    <2>1. \E s \in Slots : Bootable(s)
      BY SomeBootable DEF AllInv, IInv, PromiseInv
    <2> QED BY <2>1 DEF GetValidSlotResets
  <1>9. CASE switch_bootmode \/ storeboot \/ check_ab
    <2>1. Unseen
      BY <1>9, OnwardUnseen DEF Onward
    <2>2. misc' = misc
      <3>1. pc \in {"switch_bootmode", "storeboot", "check_ab"}
        BY <1>9 DEF switch_bootmode, storeboot, check_ab
      <3>2. Point \notin Early
        BY <3>1, NotWriting DEF AllInv, IInv, Early
      <3>3. Validated(misc) = misc
        BY <3>2, ValidMeta DEF AllInv, IInv, PromiseInv
      <3> QED BY <1>9, <3>3 DEF switch_bootmode, storeboot, check_ab, storage, boot_info_save
    <2> QED BY <1>2, <2>2
  <1>10. CASE \/ BootRom \/ BootRomFails \/ aml_update_env
              \/ rollback_reason \/ check_bootloader \/ set_mergestatus_cancel
              \/ write_bootloader_back \/ RollbackEnv \/ Reboot
              \/ amlsecurecheck \/ ab_update_rollback
              \/ check_boot1 \/ write_boot0 \/ write_boot0_fails \/ update_gpt \/ boot0_env
              \/ forfeit_reason \/ backup_boot1 \/ FinishWrite
    <2>1. misc' = misc
      BY <1>10, Zenon DEF BootRom, BootRomFails, aml_update_env, rollback_reason,
         check_bootloader, set_mergestatus_cancel, write_bootloader_back, RollbackEnv, Reboot,
         amlsecurecheck, ab_update_rollback, check_boot1, write_boot0, write_boot0_fails,
         update_gpt, boot0_env, forfeit_reason, backup_boot1, FinishWrite, storage
    <2> QED BY <1>2, <2>1
  <1> QED BY <1>3, <1>4, <1>5, <1>6, <1>7, <1>8, <1>9, <1>10, Zenon
          DEF UBoot, RollbackStep, UpdateStep, TriesStep

LEMMA StepRecorded ==
    ASSUME AllInv, UncutInv, Recorded, [Next]_vars
    PROVE  Recorded'
  <1>1. CASE UBoot
    BY <1>1, SameRecorded, NoteRecorded
  <1>2. CASE MarkBootSuccessful \/ BeginUpdate \/ FinishUpdate
    BY <1>2, MarkRecorded, UpdateRecorded
  <1>3. CASE UNCHANGED vars \/ AndroidFails \/ UserReboot \/ RescueParty \/ Attended \/ PowerCut
    <2>1. misc' = misc /\ part' = part /\ proven' = proven /\ osOk' = osOk
      BY <1>3 DEF vars, storage, world, AndroidFails, UserReboot, RescueParty, Attended,
         PowerCut
    <2>2. SlotsSame
      BY <2>1, UnseenMeta, SameSlots
    <2>3. status' = status /\ noted' = noted
      BY <2>2, SlotsView
    <2> HIDE DEF noted, status
    <2> QED BY <2>1, <2>3, RecordedKept
  <1> QED BY <1>1, <1>2, <1>3 DEF Next, Outside

LEMMA StepFromBoot0 ==
    ASSUME AllInv, UncutInv, UpdatesFromBoot0, [Next]_vars
    PROVE  UpdatesFromBoot0'
  <1>1. Main' = Main
    BY DEF Main
  <1>2. CASE FinishWrite \/ MarkBootSuccessful \/ BeginUpdate \/ UNCHANGED vars
    <2>1. Point' = Point /\ idx' = idx
      BY <1>2 DEF FinishWrite, MarkBootSuccessful, BeginUpdate, vars, storage, ram, Point,
         AllInv, IInv, PlanOK
    <2> HIDE DEF Point, Main
    <2> QED BY <1>1, <2>1 DEF UpdatesFromBoot0
  <1>3. CASE ab_update_rollback
    <2> SUFFICES ASSUME Point' = "check_boot1" PROVE idx = Main
      BY <1>1, <1>3 DEF UpdatesFromBoot0, ab_update_rollback
    <2>1. pc = "ab_update_rollback" /\ Point = pc
      BY <1>3, NotWriting DEF ab_update_rollback
    <2>2. env.write_boot
      <3>1. ASSUME NEW e, NEW val, NEW next \in AfterExpectedCopy, update_env_part(e, val, next)
            PROVE  FALSE
        <4>1. Point' = next
          BY <3>1 DEF update_env_part, StartEnvWrite, Point, Idle
        <4> QED BY <4>1 DEF AfterExpectedCopy
      <3>2. Point' = pc' \/ pc' = "writing"
        BY DEF Point
      <3> HIDE DEF Point
      <3> QED BY <1>3, <2>1, <3>1, <3>2 DEF ab_update_rollback
    <2>3. KeptTrue /\ Opened
      BY DEF UncutInv
    <2>4. /\ active \in Slots /\ part[Trusted].good
          /\ status[active] # "proven" => Trusted = Other(active)
      BY <2>3, UncutFacts
    <2> HIDE DEF active, status, noted, Trusted, whole, Later, Point
    <2>5. /\ Same(env, Later)
          /\ idx = IF whole[Main].good THEN Main ELSE KeptFor(Trusted)
      BY <2>1, <2>3 DEF Opened, Opening
    <2>6. whole[Main] = part[Other(active)] /\ status[active] # "proven"
      BY <2>1, <2>2, <2>3, <2>5 DEF Opened, Opening, Same
    <2> QED BY <2>4, <2>5, <2>6
  <1>4. Point' # "check_boot1" => UpdatesFromBoot0'
    BY DEF UpdatesFromBoot0
  <1>5. ASSUME NEW e, NEW val, NEW next, next # "check_boot1",
               StartEnvWrite(e, val, next) \/ update_env_part(e, val, next)
        PROVE  Point' # "check_boot1"
    BY <1>5 DEF StartEnvWrite, update_env_part, Point, Idle
  <1>6. ASSUME NEW c, NEW img, NEW next, next # "check_boot1", StartBootWrite(c, img, next)
        PROVE  Point' # "check_boot1"
    BY <1>6 DEF StartBootWrite, Point, Idle
  <1>7. pc' \notin {"check_boot1", "writing"} => Point' # "check_boot1"
    BY DEF Point
  <1>8. IInv
    BY DEF AllInv
  <1>9. pc \in {"reason", "check", "cancel", "copy", "flag", "active"}
          => Following \notin {"check_boot1", "writing"}
    BY <1>8, Ways
  <1> HIDE DEF Point
  <1>10. CASE RollbackStep
    BY <1>4, <1>5, <1>6, <1>7, <1>9, <1>10 DEF RollbackStep, rollback_reason,
       SaveUnread, check_bootloader, set_mergestatus_cancel, write_bootloader_back, set_roll_flag,
       set_active_slot, RollbackEnv, saveenv, boot_info_save
  <1>11. CASE \/ BootRom \/ BootRomFails \/ aml_update_env
              \/ GetValidSlotBoots \/ GetValidSlotRollsBack \/ GetValidSlotResets
    BY <1>4, <1>5, <1>7, <1>11 DEF BootRom, BootRomFails, aml_update_env, GetValidSlotBoots,
       GetValidSlotRollsBack, GetValidSlotResets, saveenv, boot_info_save, AfterGetValidSlot
  <1>12. CASE amlsecurecheck \/ Reboot \/ UpdateStep
    BY <1>4, <1>5, <1>6, <1>7, <1>12 DEF amlsecurecheck, Reboot, UpdateStep, check_boot1,
       boot1_checked, write_boot0, write_boot0_fails, update_gpt, boot0_env, saveenv,
       boot_info_save
  <1>13. CASE TriesStep \/ switch_bootmode \/ storeboot \/ check_ab
    BY <1>4, <1>5, <1>6, <1>7, <1>13 DEF TriesStep, update_tries, forfeit_reason, SaveUnread, forfeit,
       backup_boot1, boot1_backed_up, tries_check, switch_bootmode, storeboot, check_ab,
       boot_info_save
  <1>14. CASE FinishUpdate \/ AndroidFails \/ UserReboot \/ RescueParty \/ Attended \/ PowerCut
    BY <1>4, <1>7, <1>14 DEF FinishUpdate, AndroidFails, UserReboot, RescueParty, Attended,
       PowerCut, Leave
  <1> QED BY <1>2, <1>3, <1>10, <1>11, <1>12, <1>13, <1>14 DEF Next, UBoot, Outside

\* Until the power fails boot1 is written with the boot0 that was started, whose slot has
\* booted, and with nothing else.
LEMMA BackupUncut ==
    ASSUME AllInv, UncutInv, Recorded, UpdatesFromBoot0, JobIdle, Next,
           pc # "writing", job'.op = "boot", job'.dst = 2
    PROVE  job'.img.gen \in proven /\ idx # 2
  <1>1. job' # job /\ job'.op # "idle" /\ job'.op # "env" /\ Idle.op = "idle"
    BY DEF JobIdle, Idle
  <1>2. ASSUME NEW c, NEW img, NEW next, StartBootWrite(c, img, next)
        PROVE  job'.dst = c /\ job'.img = img
    BY <1>2 DEF StartBootWrite, Idle
  <1>3. \/ check_bootloader \/ write_bootloader_back
        \/ check_boot1 \/ write_boot0 \/ backup_boot1
    BY CopyWriters
  <1>4. CASE check_bootloader
    <2>1. pc = "check"
      BY <1>4 DEF check_bootloader
    <2>2. rb.to = Trusted /\ copies[KeptFor(Trusted)] = part[Trusted]
      BY <2>1, RollingUncut DEF Rolling
    <2>3. job' = job
      BY <1>4, <2>2 DEF check_bootloader, KeptFor
    <2> QED BY <1>1, <2>3
  <1>5. CASE write_bootloader_back
    <2>1. pc = "copy" /\ StartBootWrite(rb.dst, copies[rb.src], Following)
      BY <1>5 DEF write_bootloader_back
    <2>2. rb.dst = Main
      BY <2>1, RollingUncut DEF Rolling
    <2> QED BY <1>2, <2>1, <2>2 DEF Main
  <1>6. CASE write_boot0
    BY <1>2, <1>6 DEF write_boot0
  <1>7. CASE check_boot1
    <2>1. pc = "check_boot1" /\ StartBootWrite(2, copies[1], "boot1_checked")
      BY <1>1, <1>7 DEF check_boot1
    <2>2. /\ Point = pc /\ Gpt /\ Main = 1 /\ Trusted = Other(active) /\ whole = copies
          /\ KeptTrue
      BY <2>1, UpdatingUncut
    <2>3. whole[Main] = part[Other(active)]
      BY <2>1, <2>2 DEF UncutInv, Updates
    <2>4. idx = 1
      BY <2>1, <2>2 DEF UpdatesFromBoot0
    <2>5. Trusted \in Slots /\ status[Trusted] = "proven"
      BY <2>2, UncutFacts
    <2>6. copies[1] = part[Trusted] /\ part[Trusted].gen \in proven
      <3> HIDE DEF whole, Trusted, active, status
      <3> QED BY <2>2, <2>3, <2>5 DEF Recorded
    <2> QED BY <1>2, <2>1, <2>4, <2>6
  <1>8. CASE backup_boot1
    <2>1. pc = "backup_boot1" /\ MustBackup /\ StartBootWrite(2, copies[1], "boot1_backed_up")
      BY <1>1, <1>8 DEF backup_boot1
    <2>2. /\ Point = pc /\ whole = copies /\ whole[Main] = part[active] /\ Main = 1
          /\ KeptTrue
      BY <2>1, QuietUncut DEF Quiet, Main, MustBackup
    <2>3. status[active] = "proven" /\ active \in Slots /\ idx # 2
      BY <2>1, <2>2, Musts, UncutFacts DEF Early, MustBackup
    <2>4. copies[1] = part[active] /\ part[active].gen \in proven
      <3> HIDE DEF whole, active, status
      <3> QED BY <2>2, <2>3 DEF Recorded
    <2> QED BY <1>2, <2>1, <2>3, <2>4
  <1> QED BY <1>3, <1>4, <1>5, <1>6, <1>7, <1>8

LEMMA RecordedInductive ==
    ASSUME ~Legacy, ~LateCrash
    PROVE  Spec => [](/\ AllInv /\ JobIdle
                      /\ crashes = 0 => UncutInv /\ Recorded /\ UpdatesFromBoot0)
  <1> DEFINE Inv == /\ AllInv /\ JobIdle
                    /\ crashes = 0 => UncutInv /\ Recorded /\ UpdatesFromBoot0
  <1>1. Init => Inv
    BY InitIInv, InitPromise, InitUncut, InitRecorded DEF AllInv, JobIdle, Init, Idle
  <1>2. Inv /\ [Next]_vars => Inv'
    <2> SUFFICES ASSUME Inv, [Next]_vars
                 PROVE  /\ AllInv' /\ JobIdle'
                        /\ crashes' = 0 => UncutInv' /\ Recorded' /\ UpdatesFromBoot0'
      OBVIOUS
    <2>1. AllInv' /\ JobIdle'
      BY NextIInv, StepPromise, IdleStep DEF AllInv
    <2>2. ASSUME crashes' = 0 PROVE UncutInv' /\ Recorded' /\ UpdatesFromBoot0'
      <3>1. crashes = 0 /\ ~PowerCut
        BY <2>2, CutsCounted DEF AllInv, IInv
      <3> QED BY <3>1, StepUncut, StepRecorded, StepFromBoot0
    <2> QED BY <2>1, <2>2
  <1> QED BY <1>1, <1>2, PTL DEF Spec

\* Until the first power cut uboot_status 2 tells the truth about boot1, though reads of
\* partitions fail and images are rejected.
THEOREM UncutBoot1UpToDate ==
    ~Legacy /\ ~LateCrash => (Spec => [](crashes = 0 => Boot1UpToDate))
  <1> SUFFICES ASSUME ~Legacy, ~LateCrash
               PROVE  Spec => [](crashes = 0 => Boot1UpToDate)
    OBVIOUS
  <1>1. AllInv /\ UncutInv /\ Recorded => Boot1UpToDate
    <2> SUFFICES ASSUME AllInv, UncutInv, Recorded, pc = "kernel",
                        misc.slot[Running].uboot_status = 2
                 PROVE  copies[2] = part[Running]
      BY DEF Boot1UpToDate
    <2>1. Running = active /\ active \in noted
      BY AtKernel DEF noted
    <2>2. status[active] = "proven" /\ Gpt
      <3> HIDE DEF noted, status, active
      <3> QED BY <2>1 DEF Recorded, NotedIsProven
    <2>3. Trusted = active
      BY <2>2 DEF Trusted
    <2>4. KeptTrue /\ whole = copies
      BY QuietUncut DEF Quiet
    <2> HIDE DEF noted, status, active, Trusted, whole
    <2> QED BY <2>1, <2>2, <2>3, <2>4 DEF KeptTrue
  <1> QED BY <1>1, RecordedInductive, PTL

\* Until then boot1 is only written with a bootloader that has booted, which is BackupProven,
\* and never by a U-Boot that was started from it: what NoCopybackFromBoot1 forbids, and what
\* the Copyback run finds, takes a power cut.
THEOREM UncutBackupProven ==
    ~Legacy /\ ~LateCrash
      => (Spec => [][crashes' = 0 /\ pc # "writing" /\ job'.op = "boot" /\ job'.dst = 2
                       => job'.img.gen \in proven /\ idx # 2]_vars)
  <1> SUFFICES ASSUME ~Legacy, ~LateCrash
               PROVE  Spec => [][crashes' = 0 /\ pc # "writing"
                                   /\ job'.op = "boot" /\ job'.dst = 2
                                     => job'.img.gen \in proven /\ idx # 2]_vars
    OBVIOUS
  <1> DEFINE Inv == /\ AllInv /\ JobIdle
                    /\ crashes = 0 => UncutInv /\ Recorded /\ UpdatesFromBoot0
  <1>1. Inv /\ [Next]_vars
        => [crashes' = 0 /\ pc # "writing" /\ job'.op = "boot" /\ job'.dst = 2
              => job'.img.gen \in proven /\ idx # 2]_vars
    <2> SUFFICES ASSUME Inv, Next, crashes' = 0, pc # "writing", job'.op = "boot",
                        job'.dst = 2
                 PROVE  job'.img.gen \in proven /\ idx # 2
      OBVIOUS
    <2>1. crashes = 0
      BY CutsCounted DEF AllInv, IInv
    <2> QED BY <2>1, BackupUncut
  <1> QED BY <1>1, RecordedInductive, PTL DEF Spec
=============================================================================
