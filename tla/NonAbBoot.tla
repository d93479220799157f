------------------------------ MODULE NonAbBoot ------------------------------
(***************************************************************************)
(* An eMMC device without A/B slots: how its bootloader copies are         *)
(* replaced, and tried before the other ones follow                        *)
(* (bootloader_status.c, fb_command.c, f_fastboot.c).  Three protocols     *)
(* share the copies, the environment and the command `reboot next`, which  *)
(* makes the ROM start from the copy after the one that runs:              *)
(*   - fastboot flashes a bootloader; fastboot_step 1 asks for a trial,    *)
(*     2 says that the trial runs or has failed;                           *)
(*   - recovery writes one copy and asks with reboot_status for a trial;   *)
(*   - recovery puts a bootloader in bootloader_up and asks with           *)
(*     write_boot to have it written to boot0 and boot1, without a trial.  *)
(*                                                                         *)
(* An image is the number of its build.  env is the environment in RAM and *)
(* in flash at once: every change below is saved before the next action.   *)
(* One action runs the code from one write to flash to the next.           *)
(*                                                                         *)
(* Left out: a GPT that comes with the bootloader, the burning over USB,   *)
(* read errors, the quiescent modes, and the efuse that has the effect of  *)
(* a GPT.  gpt_mode, which fastboot reads, agrees with the GPT.            *)
(***************************************************************************)
EXTENDS Integers, Sequences

CONSTANTS FlashOnTrial,  \* a host may flash again while a trial runs
          MaxGen,        \* bound: number of images ever built
          MaxCuts        \* bound: number of power cuts

ASSUME NonAbAssumption ==
    FlashOnTrial \in BOOLEAN /\ MaxGen \in Nat \ {0} /\ MaxCuts \in Nat

Builds == 1..MaxGen
Torn == 0                  \* a copy, or a partition, that is half written
Images == Builds \cup {Torn}

Env == [write_boot : BOOLEAN, upgrade_step : 0..2, default_env : BOOLEAN,
        update_env : BOOLEAN, fastboot_step : 0..2,
        reboot_status : {"init", "next", "finish", "end"}, expect_index : 0..2,
        recovery_need_update : BOOLEAN, check_result : {"succ", "bootloader_fail"}]

DefaultEnv == [write_boot |-> FALSE, upgrade_step |-> 0, default_env |-> FALSE,
               update_env |-> FALSE, fastboot_step |-> 0,
               reboot_status |-> "init", expect_index |-> 0,
               recovery_need_update |-> FALSE, check_result |-> "succ"]

VARIABLES
    gpt,           \* a GPT is on the flash: there is no bootloader in the user area
    accepted,      \* the builds whose bootloader the ROM accepts
    copies,        \* the bootloader copies: 0 user area, 1 boot0, 2 boot1
    bootloader_up, \* the partition that write_boot reads
    recovery,      \* the recovery partition
    recoverybak,   \* its update
    env,
    pc,
    idx,           \* forUpgrade_bootloaderIndex: the copy the ROM started
    next,          \* the boot sequence is set to the next copy
    mode,          \* the reboot mode
    writes,        \* the copies that are still to be written, and with what
    gen,           \* the last image built
    cuts           \* power cuts so far

device == <<gpt, accepted>>
partitions == <<bootloader_up, recovery, recoverybak>>
vars == <<device, copies, partitions, env, pc, idx, next, mode, writes, gen, cuts>>

First == IF gpt THEN 1 ELSE 0
Copies == First..2
Usable == {c \in Copies : copies[c] \in accepted}

-----------------------------------------------------------------------------
(* Power-on and the reset of the environment.                              *)

\* The ROM tries the copies in a circle, from the first or from the next one.
Distance(c) == LET start == IF next THEN idx + 1 ELSE First
               IN  (c - start) % (3 - First)

\* board_init sets the boot sequence back.
BootRom ==
    /\ pc = "rom"
    /\ \E c \in Usable : /\ \A d \in Usable : Distance(c) <= Distance(d)
                         /\ idx' = c
    /\ next' = FALSE
    /\ pc' = "aml_update_env"
    /\ UNCHANGED <<device, copies, partitions, env, mode, writes, gen, cuts>>

BootRomFails ==
    /\ pc = "rom"
    /\ Usable = {}
    /\ pc' = "bricked"
    /\ UNCHANGED <<device, copies, partitions, env, idx, next, mode, writes, gen, cuts>>

\* Mutant: fastboot_step is not in _aml_env_reserv_array.
Bug_Reserved(e) == [DefaultEnv EXCEPT !.upgrade_step = 2,
                                      !.reboot_status = e.reboot_status,
                                      !.expect_index = e.expect_index]

\* defenv_reserv; setenv upgrade_step 2.
Reserved(e) == [DefaultEnv EXCEPT !.upgrade_step = 2,
                                  !.fastboot_step = e.fastboot_step,
                                  !.reboot_status = e.reboot_status,
                                  !.expect_index = e.expect_index]

aml_update_env ==
    /\ pc = "aml_update_env"
    /\ env' = IF ~env.write_boot /\ (env.default_env \/ env.update_env \/ env.upgrade_step = 1)
              THEN Reserved(env) ELSE env
    /\ pc' = "fastboot_step_check"
    /\ UNCHANGED <<device, copies, partitions, idx, next, mode, writes, gen, cuts>>

-----------------------------------------------------------------------------
(* A write of a copy leaves nothing usable until it is complete.  A handler *)
(* that has copies to write goes on when writes is empty.                  *)

write_bootloader ==
    /\ writes # <<>>
    /\ LET w == Head(writes)
       IN  IF copies[w.dst] # Torn
           THEN /\ copies' = [copies EXCEPT ![w.dst] = Torn]
                /\ UNCHANGED writes
           ELSE /\ copies' = [copies EXCEPT ![w.dst] = w.img]
                /\ writes' = Tail(writes)
    /\ UNCHANGED <<device, partitions, env, pc, idx, next, mode, gen, cuts>>

Written == writes = <<>>
Write(img, dst) == [img |-> img, dst |-> dst]

-----------------------------------------------------------------------------
(* amlsecurecheck                                                          *)

Reboot(m, nxt) == mode' = m /\ next' = nxt /\ pc' = "rom"

\* Mutant: the second step is skipped.
Bug_TrialStep == 3

TrialStep == 2

\* "reboot to new bootloader burned by fastboot"
StartTrial ==
    /\ pc = "fastboot_step_check"
    /\ env.fastboot_step = 1
    /\ env' = [env EXCEPT !.update_env = TRUE, !.fastboot_step = TrialStep]
    /\ Reboot(IF mode = "fastboot" THEN "fastboot" ELSE "normal", TRUE)
    /\ UNCHANGED <<device, copies, partitions, idx, writes, gen, cuts>>

\* "new bootloader error, please fastboot to another one": the command line.
TrialFailed ==
    /\ pc = "fastboot_step_check"
    /\ env.fastboot_step = 2
    /\ idx = First
    /\ env' = [env EXCEPT !.fastboot_step = 0]
    /\ pc' = "cli"
    /\ UNCHANGED <<device, copies, partitions, idx, next, mode, writes, gen, cuts>>

NoFastbootStep ==
    /\ pc = "fastboot_step_check"
    /\ env.fastboot_step # 1
    /\ env.fastboot_step = 2 => idx # First
    /\ pc' = "non_ab_update"
    /\ UNCHANGED <<device, copies, partitions, env, idx, next, mode, writes, gen, cuts>>

\* Mutant: only boot1 is written.
Bug_WriteBootWrites == <<Write(bootloader_up, 2)>>

WriteBootWrites == <<Write(bootloader_up, 1), Write(bootloader_up, 2)>>

\* "non ab for kernel 5.15 update bootloader"
StartWriteBoot ==
    /\ pc = "non_ab_update"
    /\ env.write_boot
    /\ writes' = WriteBootWrites
    /\ pc' = "write_boot"
    /\ UNCHANGED <<device, copies, partitions, env, idx, next, mode, gen, cuts>>

FinishWriteBoot ==
    /\ pc = "write_boot" /\ Written
    /\ env' = [env EXCEPT !.write_boot = FALSE, !.upgrade_step = 1]
    /\ Reboot("normal", FALSE)
    /\ UNCHANGED <<device, copies, partitions, idx, writes, gen, cuts>>

\* recovery_update: an update without its header is not copied.
SkipRecovery ==
    /\ pc = "non_ab_update"
    /\ ~env.write_boot
    /\ ~env.recovery_need_update \/ recoverybak = Torn
    /\ pc' = "check"
    /\ UNCHANGED <<device, copies, partitions, env, idx, next, mode, writes, gen, cuts>>

\* Mutant: the request is taken back before the partition is written.
Bug_Requested(e) == [e EXCEPT !.recovery_need_update = FALSE]

\* The request stays until the partition is complete.
Requested(e) == e

StartRecoveryUpdate ==
    /\ pc = "non_ab_update"
    /\ ~env.write_boot
    /\ env.recovery_need_update
    /\ recoverybak # Torn
    /\ recovery' = Torn
    /\ env' = Requested(env)
    /\ pc' = "recovery_update"
    /\ UNCHANGED <<device, copies, bootloader_up, recoverybak, idx, next, mode, writes, gen, cuts>>

FinishRecoveryUpdate ==
    /\ pc = "recovery_update"
    /\ recovery' = recoverybak
    /\ pc' = "recovery_saved"
    /\ UNCHANGED <<device, copies, bootloader_up, recoverybak, env, idx, next, mode, writes, gen, cuts>>

ClearRecoveryNeedUpdate ==
    /\ pc = "recovery_saved"
    /\ env' = [env EXCEPT !.recovery_need_update = FALSE]
    /\ pc' = "check"
    /\ UNCHANGED <<device, copies, partitions, idx, next, mode, writes, gen, cuts>>

\* After reboot_end the code compares a string that env_set has freed: whatever it
\* finds there, it goes on to the boot.
NoSecureCheck ==
    /\ pc = "check"
    /\ env.reboot_status \in {"init", "end"}
    /\ env' = [env EXCEPT !.reboot_status = "init"]
    /\ pc' = "switch_bootmode"
    /\ UNCHANGED <<device, copies, partitions, idx, next, mode, writes, gen, cuts>>

StartCheck ==
    /\ pc = "check"
    /\ env.reboot_status = "next"
    /\ env' = [env EXCEPT !.reboot_status = "finish"]
    /\ Reboot("normal", TRUE)
    /\ UNCHANGED <<device, copies, partitions, idx, writes, gen, cuts>>

\* Mutant: the copy that was started is not compared.
Bug_Matches == TRUE

\* "ignore reboot next check if power off during reboot next to finish"
Matches == idx = env.expect_index \/ mode = "cold_boot"

\* The end is saved before the result; run_recovery_from_flash shows the result.
FinishCheck ==
    /\ pc = "check"
    /\ env.reboot_status = "finish"
    /\ env' = [env EXCEPT !.reboot_status = "end"]
    /\ pc' = IF Matches THEN "recovery" ELSE "check_failed"
    /\ UNCHANGED <<device, copies, partitions, idx, next, mode, writes, gen, cuts>>

CheckFails ==
    /\ pc = "check_failed"
    /\ env' = [env EXCEPT !.check_result = "bootloader_fail"]
    /\ pc' = "recovery"
    /\ UNCHANGED <<device, copies, partitions, idx, next, mode, writes, gen, cuts>>

switch_bootmode ==
    /\ pc = "switch_bootmode"
    /\ pc' = CASE mode = "factory_reset" -> "recovery"
               [] mode = "fastboot" -> "fastboot"
               [] OTHER -> "kernel"
    /\ UNCHANGED <<device, copies, partitions, env, idx, next, mode, writes, gen, cuts>>

-----------------------------------------------------------------------------
(* Fastboot.  The host decides what is done and when.                      *)

\* Mutant: every copy is written at once.
Bug_FlashWrites(img) == IF gpt THEN <<Write(img, 2), Write(img, 1)>>
                               ELSE <<Write(img, 1), Write(img, 2), Write(img, 0)>>

\* "boot from boot1, means boot0 is error, rewrite it"
FlashWrites(img) ==
    (IF gpt THEN <<Write(img, 2)>> ELSE <<Write(img, 1), Write(img, 2)>>)
      \o (IF idx = First THEN <<>> ELSE <<Write(img, First)>>)

flash ==
    /\ pc = "fastboot" /\ Written
    /\ FlashOnTrial \/ env.fastboot_step # 2
    /\ gen < MaxGen
    /\ gen' = gen + 1
    /\ bootloader_up' = gen + 1
    /\ writes' = FlashWrites(gen + 1)
    /\ pc' = "flash"
    /\ UNCHANGED <<device, copies, recovery, recoverybak, env, idx, next, mode, cuts>>

\* set_fastboot_flag saves the two variables one after the other.
set_default_env ==
    /\ pc = "flash" /\ Written
    /\ env' = [env EXCEPT !.default_env = TRUE]
    /\ pc' = IF idx = First THEN "set_fastboot_step" ELSE "fastboot"
    /\ UNCHANGED <<device, copies, partitions, idx, next, mode, writes, gen, cuts>>

set_fastboot_step ==
    /\ pc = "set_fastboot_step"
    /\ env' = [env EXCEPT !.fastboot_step = 1]
    /\ pc' = "fastboot"
    /\ UNCHANGED <<device, copies, partitions, idx, next, mode, writes, gen, cuts>>

\* copy_slot_bootable 2 1, or 1 0 and 1 2.
TrialCopies == IF gpt THEN <<Write(copies[2], 1)>>
                      ELSE <<Write(copies[1], 0), Write(copies[1], 2)>>

\* Every reboot out of fastboot runs check_fastboot_step first.
FastbootReboot ==
    /\ pc = "fastboot" /\ Written
    /\ \E m \in {"normal", "fastboot", "factory_reset"} :
         IF env.fastboot_step = 2
         THEN /\ mode' = m
              /\ writes' = TrialCopies
              /\ pc' = "check_fastboot_step"
              /\ UNCHANGED next
         ELSE Reboot(m, FALSE) /\ UNCHANGED writes
    /\ UNCHANGED <<device, copies, partitions, env, idx, gen, cuts>>

check_fastboot_step ==
    /\ pc = "check_fastboot_step" /\ Written
    /\ env' = [env EXCEPT !.fastboot_step = 0]
    /\ Reboot(mode, FALSE)
    /\ UNCHANGED <<device, copies, partitions, idx, writes, gen, cuts>>

-----------------------------------------------------------------------------
(* Outside: users, the running system, recovery and the power.             *)

UserReboots ==
    /\ pc \in {"kernel", "recovery", "cli"} /\ Written
    /\ \E m \in {"normal"} \cup (IF pc = "kernel" THEN {"fastboot", "factory_reset"} ELSE {}) :
         Reboot(m, FALSE)
    /\ UNCHANGED <<device, copies, partitions, env, idx, writes, gen, cuts>>

\* From the command line fastboot can be started by hand.
StartFastboot ==
    /\ pc = "cli"
    /\ pc' = "fastboot"
    /\ UNCHANGED <<device, copies, partitions, env, idx, next, mode, writes, gen, cuts>>

\* The system asks for an update of recovery.
RequestRecoveryUpdate ==
    /\ pc = "kernel"
    /\ gen < MaxGen
    /\ gen' = gen + 1
    /\ recoverybak' = gen + 1
    /\ env' = [env EXCEPT !.recovery_need_update = TRUE]
    /\ UNCHANGED <<device, copies, bootloader_up, recovery, pc, idx, next, mode, writes, cuts>>

\* Recovery asks to have a bootloader written without a trial: it has checked it.
RequestWriteBoot ==
    /\ pc = "recovery" /\ Written
    /\ gen < MaxGen /\ gen + 1 \in accepted
    /\ gen' = gen + 1
    /\ bootloader_up' = gen + 1
    /\ env' = [env EXCEPT !.write_boot = TRUE]
    /\ Reboot("normal", FALSE)
    /\ UNCHANGED <<device, copies, recovery, recoverybak, idx, writes, cuts>>

\* Or it writes the copy after the one the ROM starts by itself ...
StartRobustUpdate ==
    /\ pc = "recovery" /\ Written
    /\ gen < MaxGen
    /\ gen' = gen + 1
    /\ \E c \in Usable \ {2} :
         /\ \A d \in Usable : c <= d
         /\ writes' = <<Write(gen + 1, c + 1)>>
    /\ pc' = "robust_update"
    /\ UNCHANGED <<device, copies, partitions, env, idx, next, mode, cuts>>

\* ... and asks for a trial.  upgrade_step 1: "after recovery update, need update
\* uboot env".
FinishRobustUpdate ==
    /\ pc = "robust_update" /\ Written
    /\ \E c \in 1..2 :
         /\ copies[c] = gen
         /\ env' = [env EXCEPT !.reboot_status = "next", !.expect_index = c,
                               !.upgrade_step = 1]
    /\ Reboot("normal", FALSE)
    /\ UNCHANGED <<device, copies, partitions, idx, writes, gen, cuts>>

\* Where the environment is saved, by the next action or, at every boot, by amlbootsta -s
\* before fastboot_step_check: a cut in the save leaves none.
Saving == {"aml_update_env", "fastboot_step_check", "recovery_saved", "check", "check_failed"}
SavingWhenWritten == {"write_boot", "flash", "set_fastboot_step", "check_fastboot_step",
                      "robust_update"}

PowerCut ==
    /\ pc \notin {"rom", "bricked"}
    /\ cuts < MaxCuts
    /\ cuts' = cuts + 1
    /\ \/ UNCHANGED env
       \/ /\ pc \in Saving \cup (IF Written THEN SavingWhenWritten ELSE {})
          /\ env' = DefaultEnv
    /\ writes' = <<>>
    /\ Reboot("cold_boot", FALSE)
    /\ UNCHANGED <<device, copies, partitions, idx, gen>>

-----------------------------------------------------------------------------
Init ==
    /\ gpt \in BOOLEAN
    /\ accepted \in {a \in SUBSET Builds : 1 \in a}
    /\ copies = [c \in 0..2 |-> 1]
    /\ bootloader_up = 1
    /\ recovery = 1
    /\ recoverybak = Torn
    /\ env = DefaultEnv
    /\ pc = "rom"
    /\ idx = First
    /\ next = FALSE
    /\ mode = "cold_boot"
    /\ writes = <<>>
    /\ gen = 1
    /\ cuts = 0

fastboot_step_check == StartTrial \/ TrialFailed \/ NoFastbootStep

recovery_update == \/ SkipRecovery \/ StartRecoveryUpdate \/ FinishRecoveryUpdate
                   \/ ClearRecoveryNeedUpdate

non_ab_update == \/ StartWriteBoot \/ FinishWriteBoot \/ recovery_update
                 \/ NoSecureCheck \/ StartCheck \/ FinishCheck \/ CheckFails

UBoot == \/ BootRom \/ BootRomFails \/ aml_update_env
         \/ fastboot_step_check \/ non_ab_update \/ switch_bootmode
         \/ write_bootloader
         \/ set_default_env \/ set_fastboot_step \/ check_fastboot_step

Outside == \/ flash \/ FastbootReboot \/ UserReboots \/ StartFastboot
           \/ RequestRecoveryUpdate \/ RequestWriteBoot
           \/ StartRobustUpdate \/ FinishRobustUpdate \/ PowerCut

Next == UBoot \/ Outside

Spec == Init /\ [][Next]_vars

\* U-Boot runs as long as there is power.
FairSpec == Spec /\ WF_vars(UBoot)
=============================================================================
