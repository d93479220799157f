------------------------- MODULE NonAbBootProperties -------------------------
(***************************************************************************)
(* What NonAbBoot is required to do.                                       *)
(***************************************************************************)
EXTENDS NonAbBoot

\* Every variable keeps to its range: fastboot_step is never above 2.
TypeOK ==
    /\ gpt \in BOOLEAN /\ accepted \subseteq Builds
    /\ copies \in [0..2 -> Images]
    /\ {bootloader_up, recovery, recoverybak} \subseteq Images
    /\ env \in Env
    /\ pc \in {"rom", "bricked", "aml_update_env", "fastboot_step_check", "cli",
               "non_ab_update", "write_boot", "recovery_update", "recovery_saved",
               "check", "check_failed", "switch_bootmode", "kernel", "recovery", "fastboot",
               "flash", "set_fastboot_step", "check_fastboot_step", "robust_update"}
    /\ idx \in 0..2 /\ next \in BOOLEAN
    /\ mode \in {"cold_boot", "normal", "fastboot", "factory_reset"}
    /\ writes \in Seq([img : Images, dst : 0..2])
    /\ gen \in 1..MaxGen /\ cuts \in 0..MaxCuts

\* Bad bootloaders alone do not brick the device, nor does one power cut alone:
\* each of the protocols leaves a copy that starts until another one has.
NeverBricked ==
    pc = "bricked" => cuts > 1 \/ (cuts = 1 /\ accepted # Builds)

\* Up to the second power cut a first copy that works is replaced only by write_boot, or
\* at the end of a trial by the bootloader that was tried.
TriedFirst ==
    [][(copies[First] \in accepted /\ copies'[First] = Torn /\ cuts <= 1)
       => \/ pc = "write_boot"
          \/ /\ pc = "check_fastboot_step" /\ idx # First
             /\ Head(writes).img = copies[idx]]_vars

\* "boot from boot1, means boot0 is error, rewrite it" (fb_command.c): fastboot
\* writes the first copy only when the ROM did not accept it.
RewritesOnlyBadFirst ==
    [][(pc = "flash" /\ copies'[First] = Torn) => copies[First] \notin accepted]_vars

\* Without a power cut the result that recovery is started to show is the truth
\* about the bootloader it had written, whatever an earlier check found.
CheckTells ==
    [][(pc \in {"check", "check_failed"} /\ pc' = "recovery" /\ cuts = 0)
       => ((env'.check_result = "bootloader_fail") = (copies[env.expect_index] \notin accepted))]_vars

\* The recovery that is started is whole, whatever one power cut interrupts.
RecoveryWhole == pc = "recovery" /\ cuts <= 1 => recovery # Torn

\* Under FairSpec a request to write the bootloader ends with both copies written,
\* unless power cuts lose the environment that carries it or the copies, or the
\* device waits for a user, at the command line or in fastboot, over a trial.
WriteBootCompletes ==
    env.write_boot ~> \/ copies[1] = bootloader_up /\ copies[2] = bootloader_up
                      \/ env = DefaultEnv
                      \/ pc \in {"cli", "fastboot", "bricked"}

\* Under FairSpec the trial of a flashed bootloader, once the device reboots, ends with
\* that bootloader running, or with the first copy at the command line.
TrialDecides ==
    (env.fastboot_step = 1 /\ pc = "rom")
      ~> \/ env.fastboot_step = 2 /\ pc = "non_ab_update" /\ idx # First
         \/ pc \in {"cli", "bricked"}
         \/ env = DefaultEnv
=============================================================================
