------------------------------ MODULE BootArea ------------------------------
(***************************************************************************)
(* mmc_boot_read, mmc_boot_write and mmc_boot_erase of                      *)
(* drivers/amlogic/mmc/storage_emmc.c, which store_boot_read/write/erase   *)
(* call for an eMMC device: the loop over the three hardware partitions    *)
(* that hold a bootloader copy, with every access that can fail and the    *)
(* power that can be cut during a write.  AbBoot uses them as StartBootWrite *)
(* and FinishWrite.                                                        *)
(*                                                                         *)
(* Left out: offsets and sizes (CONFIG_EMMC_BOOT1_TOUCH_REGION shortens the *)
(* part of boot1 that is touched), the contents of the info sector, and    *)
(* the efuse bits that disable a copy (mmc_boot_copy_enable, which these   *)
(* three functions do not ask).                                            *)
(***************************************************************************)
EXTENDS Integers

CONSTANTS Gpt        \* the user area holds a valid GPT (aml_gpt_valid = 0)

ASSUME GptAssumption == Gpt \in BOOLEAN

Copies == 0..2       \* hardware partitions: USER, BOOT0, BOOT1
USER_PARTITION == 0
BOOT_OPS_ALL == 255
CpyArgs == {0, 1, 2, BOOT_OPS_ALL}   \* the values the callers pass

Contents == {"old", "new", "torn", "blank"}
Usable == {"old", "new"}

VARIABLES
    area,       \* what each hardware partition holds
    hwpart,     \* the partition that is selected
    op,         \* the call in progress, with its argument and its mask cpy
    i,          \* the loop counter
    pc,
    ret,
    result,     \* what the last call returned
    before      \* area when the last call began (history)

vars == <<area, hwpart, op, i, pc, ret, result, before>>

\* The copies an argument names.
Named(arg) == IF arg = BOOT_OPS_ALL THEN Copies ELSE {arg}

\* Mutant: the mask for all copies has a bit too many.
Bug_Mask(arg) == CASE arg = 0 -> 1 [] arg = 1 -> 2 [] arg = 2 -> 4 [] OTHER -> 15

\* The same as a bit mask, the way the code turns one into the other.
Mask(arg) == CASE arg = 0 -> 1 [] arg = 1 -> 2 [] arg = 2 -> 4 [] OTHER -> 7

Call(kind, arg) ==
    /\ pc = "idle"
    /\ op' = [kind |-> kind, arg |-> arg, cpy |-> Mask(arg)]
    /\ i' = 0
    /\ ret' = 1
    /\ pc' = "loop"
    /\ before' = area
    /\ UNCHANGED <<area, hwpart, result>>

\* i++ and, wherever the body ends, cpy = cpy >> 1.
NextCopy ==
    /\ i' = i + 1
    /\ op' = [op EXCEPT !.cpy = @ \div 2]
    /\ pc' = "loop"

Selected == i \in Copies /\ op.cpy % 2 = 1

PassOver ==
    /\ pc = "loop"
    /\ i \in Copies /\ ~Selected
    /\ NextCopy
    /\ UNCHANGED <<area, hwpart, ret, result, before>>

Select ==
    /\ pc = "loop"
    /\ Selected
    /\ \/ hwpart' = i /\ ret' = 0 /\ pc' = "selected"
       \/ hwpart' = hwpart /\ ret' = -1 /\ pc' = "switch_back"
    /\ UNCHANGED <<area, op, i, result, before>>

\* Mutant: the mask is not shifted when the user area is passed over.
Bug_NoShift ==
    /\ pc = "selected"
    /\ i = 0 /\ Gpt
    /\ i' = i + 1 /\ pc' = "loop" /\ UNCHANGED op
    /\ UNCHANGED <<area, hwpart, ret, result, before>>

SkipUser ==
    /\ pc = "selected"
    /\ i = 0 /\ Gpt
    /\ NextCopy
    /\ UNCHANGED <<area, hwpart, ret, result, before>>

\* storage_read_in_part: nothing on the device changes.
Read ==
    /\ pc = "selected" /\ op.kind = "read"
    /\ ~(i = 0 /\ Gpt)
    /\ \/ ret' = 0 /\ NextCopy
       \/ ret' = 1 /\ pc' = "switch_back" /\ UNCHANGED <<op, i>>
    /\ UNCHANGED <<area, hwpart, result, before>>

\* storage_write_in_part and storage_erase_in_part begin, unless the range
\* check refuses them.
StartAccess ==
    /\ pc = "selected" /\ op.kind \in {"write", "erase"}
    /\ ~(i = 0 /\ Gpt)
    /\ \/ /\ area' = [area EXCEPT ![hwpart] = "torn"]
          /\ pc' = "access"
          /\ UNCHANGED ret
       \/ /\ ret' = 1
          /\ pc' = "switch_back"
          /\ UNCHANGED area
    /\ UNCHANGED <<hwpart, op, i, result, before>>

AccessDone ==
    /\ pc = "access"
    /\ area' = [area EXCEPT ![hwpart] = IF op.kind = "write" THEN "new" ELSE "blank"]
    /\ ret' = 0
    /\ NextCopy
    /\ UNCHANGED <<hwpart, result, before>>

\* Mutant: the next copy is tried after an error.
Bug_AccessFails ==
    /\ pc = "access"
    /\ ret' = 1
    /\ NextCopy
    /\ UNCHANGED <<area, hwpart, result, before>>

AccessFails ==
    /\ pc = "access"
    /\ ret' = 1
    /\ pc' = "switch_back"
    /\ UNCHANGED <<area, hwpart, op, i, result, before>>

EndLoop ==
    /\ pc = "loop"
    /\ i \notin Copies
    /\ pc' = "switch_back"
    /\ UNCHANGED <<area, hwpart, op, i, ret, result, before>>

\* The result of the switch back replaces ret: what went wrong in the loop is
\* forgotten.
SwitchBack ==
    /\ pc = "switch_back"
    /\ \/ hwpart' = USER_PARTITION /\ ret' = 0
       \/ hwpart' = hwpart /\ ret' = -1
    /\ result' = ret'
    /\ pc' = "idle"
    /\ UNCHANGED <<area, op, i, before>>

\* The device is initialised with the user area selected.
PowerCut ==
    /\ pc # "idle"
    /\ hwpart' = USER_PARTITION
    /\ pc' = "idle"
    /\ result' = -1
    /\ UNCHANGED <<area, op, i, ret, before>>

Init ==
    /\ area = [c \in Copies |-> "old"]
    /\ hwpart = USER_PARTITION
    /\ op = [kind |-> "read", arg |-> 0, cpy |-> 0]
    /\ i = 0
    /\ pc = "idle"
    /\ ret = 0
    /\ result = 0
    /\ before = area

Next ==
    \/ \E kind \in {"read", "write", "erase"}, arg \in CpyArgs : Call(kind, arg)
    \/ PassOver \/ Select \/ SkipUser
    \/ Read \/ StartAccess \/ AccessDone \/ AccessFails
    \/ EndLoop \/ SwitchBack
    \/ PowerCut

Spec == Init /\ [][Next]_vars

-----------------------------------------------------------------------------
TypeOK ==
    /\ area \in [Copies -> Contents]
    /\ hwpart \in Copies
    /\ op \in [kind : {"read", "write", "erase"}, arg : CpyArgs, cpy : 0..7]
    /\ i \in 0..3
    /\ pc \in {"idle", "loop", "selected", "access", "switch_back"}
    /\ ret \in {-1, 0, 1}
    /\ result \in {-1, 0, 1}
    /\ before \in [Copies -> Contents]

\* A copy changes only while it is selected and only when the argument names
\* it: the shifted mask, the loop counter and the hardware partition never get
\* out of step, and a GPT in the user area is never overwritten.
OnlyNamedChange ==
    \A c \in Copies : area'[c] # area[c] =>
      c = hwpart /\ c = i /\ c \in Named(op.arg) /\ ~(c = USER_PARTITION /\ Gpt)
OnlyNamed == [][OnlyNamedChange]_vars

\* One mmc_boot_write costs at most one usable copy, whether it ends by
\* itself, by an error or by a power cut: the next copy is touched only after
\* the one before it is complete.
Lost(c) == before[c] \in Usable /\ area[c] \notin Usable
OneCopyAtRisk ==
    op.kind = "write" => \A c, d \in Copies : Lost(c) /\ Lost(d) => c = d

\* A write that reports success has written every copy it was asked to write:
\* "@return: result of the operation, 0 = success, other = fail" (storage.h,
\* store_boot_write).
FailureReported ==
    (pc = "idle" /\ result = 0 /\ op.kind = "write") =>
       \A c \in Named(op.arg) : (c = USER_PARTITION /\ Gpt) \/ area[c] = "new"
=============================================================================
